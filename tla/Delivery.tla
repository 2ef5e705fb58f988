------------------------------ MODULE Delivery ------------------------------
(***************************************************************************)
(* The path of a message between two users over several comit servers:      *)
(*                                                                          *)
(*   - a client's connection, its Auth frame and the pull it sends right    *)
(*     behind it, which two workers handle concurrently;                    *)
(*   - the registration of the user in the server's ConManage and in redis, *)
(*     and its removal by CloseHandle;                                      *)
(*   - OneMessageHandle at the sender's server, Transfer at the receiver's, *)
(*     the retry queue of each server, and the offline table;               *)
(*   - the receiver's client, which stores a message before it acknowledges *)
(*     it, and reconnects;                                                  *)
(*   - crashes of a server.                                                 *)
(*                                                                          *)
(* The retry queue is RetryQueue's: a tracked message may be sent again     *)
(* until it is settled.  Connect and AckManage model what is inside a       *)
(* connection and a queue.  The senders' own connections are abstracted:    *)
(* the acknowledgement of a message reaches its sender or is lost.          *)
(***************************************************************************)
EXTENDS Naturals, FiniteSets

CONSTANTS
    Msgs,
    Users,       \* the receivers
    Servers,
    Conns,       \* the connections the receivers' clients make
    Receiver,    \* the user a message is for
    Owner,       \* the user that logs in on a connection
    Home,        \* the server of a connection
    Origin,      \* the server of a message's sender
    None,
    Faulty,      \* of "redis" and "db": whose calls may fail
    MaxCrashes   \* bound: crashes of servers

ASSUME DeliveryAssumption ==
    /\ Receiver \in [Msgs -> Users]
    /\ Owner \in [Conns -> Users]
    /\ Home \in [Conns -> Servers]
    /\ Origin \in [Msgs -> Servers]
    /\ None \notin Conns \cup Servers \cup Users
    /\ Faulty \subseteq {"redis", "db"}
    /\ MaxCrashes \in Nat

VARIABLES
    db,          \* the rows of the table onemessage
    redis,       \* the server redis has for each user
    cons,        \* ConManage of each server
    retry,       \* the messages the retry queue of each server tracks
    link,        \* each connection: "new", "open", "dead" (the client is gone
                 \* but the server does not know), "closed", "gone"
    id,          \* con.id, or None before SetId
    closeStep,   \* CloseHandle of each connection
    authStep,    \* AuthHandle of each connection
    pullStep,    \* PullOneMessage of each connection
    pulled,      \* what that pull read from the table
    push,        \* OneMessage frames under way to the client
    pull,        \* the pull reply under way to the client
    handler,     \* OneMessageHandle (and Transfer) of each message
    found,       \* the server or connection that handler found
    received,    \* the messages in the receivers' own databases
    toAck,       \* messages a client has yet to acknowledge
    acks,        \* acknowledgements under way: <<connection, message>>
    confirmed,   \* messages whose sender was sent a successful ack
    crashes,     \* bounded by MaxCrashes
    given,       \* history: messages given up on since they were last pulled
    clean        \* history: sessions that met no leftovers of another one

sessionVars == <<redis, cons, link, id, closeStep, authStep>>
pullVars == <<pullStep, pulled, pull>>
handlerVars == <<handler, found, confirmed>>
clientVars == <<received, toAck, acks>>
vars == <<db, retry, push, sessionVars, pullVars, handlerVars, clientVars,
          crashes, given, clean>>

TypeOK ==
    /\ db \subseteq Msgs
    /\ redis \in [Users -> Servers \cup {None}]
    /\ cons \in [Servers -> [Users -> Conns \cup {None}]]
    /\ retry \in [Servers -> SUBSET Msgs]
    /\ link \in [Conns -> {"new", "open", "dead", "closed", "gone"}]
    /\ id \in [Conns -> Users \cup {None}]
    /\ closeStep \in [Conns -> {"none", "table", "redis", "done"}]
    /\ authStep \in [Conns -> {"none", "table", "redis", "id", "done"}]
    /\ pullStep \in [Conns -> {"none", "query", "reply", "done", "early"}]
    /\ pulled \in [Conns -> SUBSET Msgs]
    /\ push \in [Conns -> SUBSET Msgs]
    /\ pull \in [Conns -> SUBSET Msgs]
    /\ handler \in [Msgs -> {"new", "ack", "lookup", "push", "write", "redis",
                             "rpc", "transfer", "track", "done", "failed"}]
    /\ found \in [Msgs -> Conns \cup Servers \cup {None}]
    /\ received \subseteq Msgs
    /\ toAck \subseteq Msgs
    /\ acks \subseteq Conns \X Msgs
    /\ confirmed \subseteq Msgs
    /\ crashes \in 0 .. MaxCrashes
    /\ given \subseteq Msgs
    /\ clean \subseteq Conns

Init ==
    /\ db = {}
    /\ redis = [u \in Users |-> None]
    /\ cons = [s \in Servers |-> [u \in Users |-> None]]
    /\ retry = [s \in Servers |-> {}]
    /\ link = [c \in Conns |-> "new"]
    /\ id = [c \in Conns |-> None]
    /\ closeStep = [c \in Conns |-> "none"]
    /\ authStep = [c \in Conns |-> "none"]
    /\ pullStep = [c \in Conns |-> "none"]
    /\ pulled = [c \in Conns |-> {}]
    /\ push = [c \in Conns |-> {}]
    /\ pull = [c \in Conns |-> {}]
    /\ handler = [m \in Msgs |-> "new"]
    /\ found = [m \in Msgs |-> None]
    /\ received = {}
    /\ toAck = {}
    /\ acks = {}
    /\ confirmed = {}
    /\ crashes = 0
    /\ given = {}
    /\ clean = {}

SetStep(f, x, s) == [f EXCEPT ![x] = s]
Mail(u) == {m \in db : Receiver[m] = u}

-----------------------------------------------------------------------------
(* The client's side of a connection.  A client has one connection at a    *)
(* time; it sends Auth and PullOneMessage back to back when it connects.    *)

Open(c) ==
    /\ link[c] = "new"
    /\ \A d \in Conns : Owner[d] = Owner[c] => link[d] # "open"
    /\ link' = SetStep(link, c, "open")
    /\ authStep' = SetStep(authStep, c, "table")
    /\ pullStep' = SetStep(pullStep, c, "query")
    /\ UNCHANGED <<db, retry, push, redis, cons, id, closeStep, pulled, pull,
                   handlerVars, clientVars, crashes, given, clean>>

(* The network drops the connection, or the client goes away: what is      *)
(* under way to it is lost, and the server learns of it later.              *)
Lose(c) ==
    /\ link[c] = "open"
    /\ link' = SetStep(link, c, "dead")
    /\ push' = SetStep(push, c, {})
    /\ pull' = SetStep(pull, c, {})
    /\ UNCHANGED <<db, retry, redis, cons, id, closeStep, authStep, pullStep,
                   pulled, handlerVars, clientVars, crashes, given, clean>>

(* The reader or the heartbeat notices: Close, then the closeCallback.      *)
Close(c) ==
    /\ link[c] = "dead"
    /\ link' = SetStep(link, c, "closed")
    /\ closeStep' = SetStep(closeStep, c, "table")
    /\ UNCHANGED <<db, retry, push, redis, cons, id, authStep, pullVars,
                   handlerVars, clientVars, crashes, given, clean>>

(* CloseHandle removes the user's entries, whoever they are for; before     *)
(* SetId the id is 0 and nothing is removed.                                *)
DeleteConnect(c) ==
    /\ closeStep[c] = "table"
    /\ cons' = IF id[c] = None THEN cons
               ELSE [cons EXCEPT ![Home[c]][id[c]] = None]
    /\ closeStep' = SetStep(closeStep, c, "redis")
    /\ UNCHANGED <<db, retry, push, redis, link, id, authStep, pullVars,
                   handlerVars, clientVars, crashes, given, clean>>

DeleteUser(c) ==
    /\ closeStep[c] = "redis"
    /\ \/ redis' = IF id[c] = None THEN redis ELSE SetStep(redis, id[c], None)
       \/ "redis" \in Faulty /\ UNCHANGED redis
    /\ closeStep' = SetStep(closeStep, c, "done")
    /\ link' = SetStep(link, c, "gone")
    /\ UNCHANGED <<db, retry, push, cons, id, authStep, pullVars, handlerVars,
                   clientVars, crashes, given, clean>>

-----------------------------------------------------------------------------
(* AuthHandle.  A session is clean when no other connection of the user is *)
(* registered or still being handled, and none registers later.             *)

Settled(d) ==
    /\ link[d] \in {"new", "gone"}
    /\ authStep[d] \in {"none", "done"}

AddConnect(c) ==
    LET u == Owner[c]
        others == {d \in Conns \ {c} : Owner[d] = u}
        alone == /\ \A d \in others : Settled(d)
                 /\ \A s \in Servers : cons[s][u] = None
    IN  /\ authStep[c] = "table"
        /\ cons' = [cons EXCEPT ![Home[c]][u] = c]
        /\ authStep' = SetStep(authStep, c, "redis")
        /\ clean' = (clean \ others) \cup IF alone THEN {c} ELSE {}
        /\ UNCHANGED <<db, retry, push, redis, link, id, closeStep, pullVars,
                       handlerVars, clientVars, crashes, given>>

(* A token that does not pass: the reply, then Close.                       *)
AuthFails(c) ==
    /\ authStep[c] = "table"
    /\ authStep' = SetStep(authStep, c, "done")
    /\ link' = IF link[c] = "open" THEN SetStep(link, c, "dead") ELSE link
    /\ push' = SetStep(push, c, {})
    /\ pull' = SetStep(pull, c, {})
    /\ UNCHANGED <<db, retry, redis, cons, id, closeStep, pullStep, pulled,
                   handlerVars, clientVars, crashes, given, clean>>

(* The error of SetUser is ignored; the session is not clean then.          *)
SetUser(c) ==
    /\ authStep[c] = "redis"
    /\ \/ redis' = SetStep(redis, Owner[c], Home[c]) /\ UNCHANGED clean
       \/ "redis" \in Faulty /\ clean' = clean \ {c} /\ UNCHANGED redis
    /\ authStep' = SetStep(authStep, c, "id")
    /\ UNCHANGED <<db, retry, push, cons, link, id, closeStep, pullVars,
                   handlerVars, clientVars, crashes, given>>

(* Mutant: the connection gets its id before redis is written.              *)
SetIdEarly(c) ==
    /\ authStep[c] \in {"redis", "id"}
    /\ id' = SetStep(id, c, Owner[c])
    /\ authStep' = SetStep(authStep, c, "done")
    /\ UNCHANGED <<db, retry, push, redis, cons, link, closeStep, pullVars,
                   handlerVars, clientVars, crashes, given, clean>>

(* SetId, SetAuth and the reply.                                            *)
SetId(c) ==
    /\ authStep[c] = "id"
    /\ id' = SetStep(id, c, Owner[c])
    /\ authStep' = SetStep(authStep, c, "done")
    /\ UNCHANGED <<db, retry, push, redis, cons, link, closeStep, pullVars,
                   handlerVars, clientVars, crashes, given, clean>>

(* Mutant: the rows are deleted when they are read, as PullNotifie does.    *)
PullQueryDeletes(c) ==
    /\ pullStep[c] = "query"
    /\ id[c] # None
    /\ pullStep' = SetStep(pullStep, c, "reply")
    /\ pulled' = SetStep(pulled, c, Mail(id[c]))
    /\ db' = db \ Mail(id[c])
    /\ UNCHANGED <<retry, push, sessionVars, pull, handlerVars, clientVars,
                   crashes, given, clean>>

(* PullOneMessage has no AuthMiddleHandle: before SetId it asks for the     *)
(* messages of user 0 and finds none ("early").  A query that fails counts  *)
(* as one that finds none.                                                  *)
PullQuery(c) ==
    /\ pullStep[c] = "query"
    /\ pullStep' = SetStep(pullStep, c, IF id[c] = None THEN "early" ELSE "reply")
    /\ \/ /\ pulled' = SetStep(pulled, c, IF id[c] = None THEN {} ELSE Mail(id[c]))
          /\ given' = IF link[c] = "open" THEN given \ pulled'[c] ELSE given
       \/ "db" \in Faulty /\ given' = given \cup Mail(Owner[c]) /\ UNCHANGED pulled
    /\ UNCHANGED <<db, retry, push, sessionVars, pull, handlerVars, clientVars,
                   crashes, clean>>

(* The reply is written to the connection; the error of Write is ignored.   *)
PullReply(c) ==
    /\ pullStep[c] = "reply"
    /\ pullStep' = SetStep(pullStep, c, "done")
    /\ pulled' = SetStep(pulled, c, {})
    /\ \/ /\ link[c] = "open"
          /\ pull' = SetStep(pull, c, pulled[c])
          /\ UNCHANGED given
       \/ /\ given' = given \cup pulled[c]
          /\ UNCHANGED pull
    /\ UNCHANGED <<db, retry, push, sessionVars, handlerVars, clientVars,
                   crashes, clean>>

-----------------------------------------------------------------------------
(* Write(c, m): the frame goes out, or the connection refuses it (closed,  *)
(* or its writeChan is full), or nobody is at the other end any more.       *)
WriteTo(c, m) ==
    \/ /\ link[c] = "open"
       /\ push' = [push EXCEPT ![c] = @ \cup {m}]
       /\ UNCHANGED given
    \/ /\ given' = given \cup {m}
       /\ UNCHANGED push

(* OneMessageHandle: the row is written first.                              *)
AddOnemessage(m) ==
    /\ handler[m] = "new"
    /\ \/ /\ db' = db \cup {m}
          /\ handler' = SetStep(handler, m, "ack")
       \/ /\ handler' = SetStep(handler, m, "failed")
          /\ UNCHANGED db
    /\ UNCHANGED <<retry, push, sessionVars, pullVars, found, confirmed,
                   clientVars, crashes, given, clean>>

(* SendAck with status success.                                             *)
SendAck(m) ==
    /\ handler[m] = "ack"
    /\ handler' = SetStep(handler, m, "lookup")
    /\ confirmed' = confirmed \cup {m}
    /\ UNCHANGED <<db, retry, push, sessionVars, pullVars, found, clientVars,
                   crashes, given, clean>>

GetConnect(m) ==
    LET c == cons[Origin[m]][Receiver[m]]
    IN  /\ handler[m] = "lookup"
        /\ handler' = SetStep(handler, m, IF c = None THEN "redis" ELSE "push")
        /\ found' = SetStep(found, m, c)
        /\ UNCHANGED <<db, retry, push, sessionVars, pullVars, confirmed,
                       clientVars, crashes, given, clean>>

Push(m) ==
    /\ handler[m] = "push"
    /\ retry' = [retry EXCEPT ![Origin[m]] = @ \cup {m}]
    /\ handler' = SetStep(handler, m, "write")
    /\ UNCHANGED <<db, push, sessionVars, pullVars, found, confirmed,
                   clientVars, crashes, given, clean>>

Write(m) ==
    /\ handler[m] = "write"
    /\ WriteTo(found[m], m)
    /\ handler' = SetStep(handler, m, "done")
    /\ found' = SetStep(found, m, None)
    /\ UNCHANGED <<db, retry, sessionVars, pullVars, confirmed, clientVars,
                   crashes, clean>>

(* GetUser and GetComitServer: a server has no client for itself.  An error *)
(* of redis counts as an absent user.                                       *)
GetUser(m) ==
    LET s == redis[Receiver[m]]
    IN  /\ handler[m] = "redis"
        /\ \/ /\ s \notin {None, Origin[m]}
              /\ handler' = SetStep(handler, m, "rpc")
              /\ found' = SetStep(found, m, s)
              /\ UNCHANGED given
           \/ /\ s \in {None, Origin[m]}
              /\ handler' = SetStep(handler, m, "done")
              /\ UNCHANGED <<found, given>>
           \/ /\ "redis" \in Faulty
              /\ handler' = SetStep(handler, m, "done")
              /\ given' = given \cup {m}
              /\ UNCHANGED found
        /\ UNCHANGED <<db, retry, push, sessionVars, pullVars, confirmed,
                       clientVars, crashes, clean>>

(* The other server is not known here, or the call of Transfer fails; both  *)
(* are ignored.                                                             *)
TransferFails(m) ==
    /\ handler[m] = "rpc"
    /\ handler' = SetStep(handler, m, "done")
    /\ found' = SetStep(found, m, None)
    /\ given' = given \cup {m}
    /\ UNCHANGED <<db, retry, push, sessionVars, pullVars, confirmed,
                   clientVars, crashes, clean>>

Transfer(m) ==
    LET c == cons[found[m]][Receiver[m]]
    IN  /\ handler[m] = "rpc"
        /\ found' = SetStep(found, m, c)
        /\ handler' = SetStep(handler, m, IF c = None THEN "done" ELSE "transfer")
        /\ UNCHANGED <<db, retry, push, sessionVars, pullVars, confirmed,
                       clientVars, crashes, given, clean>>

TransferWrite(m) ==
    /\ handler[m] = "transfer"
    /\ WriteTo(found[m], m)
    /\ handler' = SetStep(handler, m, "track")
    /\ UNCHANGED <<db, retry, sessionVars, pullVars, found, confirmed,
                   clientVars, crashes, clean>>

(* It is tracked for con.GetId(): before SetId that is user 0, who has no   *)
(* connection, so the message is never sent again.                          *)
TransferPush(m) ==
    /\ handler[m] = "track"
    /\ retry' = [retry EXCEPT ![Home[found[m]]] =
                     IF id[found[m]] = None THEN @ ELSE @ \cup {m}]
    /\ handler' = SetStep(handler, m, "done")
    /\ found' = SetStep(found, m, None)
    /\ UNCHANGED <<db, push, sessionVars, pullVars, confirmed, clientVars,
                   crashes, given, clean>>

(* The retry queue (RetryQueue): TimeLoop sends a tracked message again, to *)
(* the connection the receiver has now, or settles it.                      *)
Resend(s, m) ==
    /\ m \in retry[s]
    /\ cons[s][Receiver[m]] # None
    /\ link[cons[s][Receiver[m]]] = "open"
    /\ push' = [push EXCEPT ![cons[s][Receiver[m]]] = @ \cup {m}]
    /\ UNCHANGED <<db, retry, sessionVars, pullVars, handlerVars, clientVars,
                   crashes, given, clean>>

Settle(s, m) ==
    /\ m \in retry[s]
    /\ retry' = [retry EXCEPT ![s] = @ \ {m}]
    /\ UNCHANGED <<db, push, sessionVars, pullVars, handlerVars, clientVars,
                   crashes, given, clean>>

-----------------------------------------------------------------------------
(* The receiver's client: a message goes into its database, then, after an *)
(* await, its acknowledgement onto the connection it has by then.           *)

OneMessages(c, m) ==
    /\ m \in push[c]
    /\ push' = [push EXCEPT ![c] = @ \ {m}]
    /\ received' = received \cup {m}
    /\ toAck' = toAck \cup {m}
    /\ UNCHANGED <<db, retry, sessionVars, pullVars, handlerVars, acks,
                   crashes, given, clean>>

PullOneMessages(c) ==
    /\ pull[c] # {}
    /\ pull' = SetStep(pull, c, {})
    /\ received' = received \cup pull[c]
    /\ toAck' = toAck \cup pull[c]
    /\ UNCHANGED <<db, retry, push, sessionVars, pullStep, pulled, handlerVars,
                   acks, crashes, given, clean>>

ClientAck(c, m) ==
    /\ m \in toAck
    /\ Owner[c] = Receiver[m]
    /\ link[c] = "open"
    /\ toAck' = toAck \ {m}
    /\ acks' = acks \cup {<<c, m>>}
    /\ UNCHANGED <<db, retry, push, sessionVars, pullVars, handlerVars,
                   received, crashes, given, clean>>

(* AckMesageHandle and DeleteManyHandle delete rows whose receiver is the   *)
(* connection's id, so none before SetId: the first one requires            *)
(* authentication, the second one asks for user 0.  (One statement deletes  *)
(* many rows; here it is a step for each.)  AckMange.Delete lets TimeLoop   *)
(* settle the message.                                                      *)
DeleteOnemessage(c, m) ==
    /\ <<c, m>> \in acks
    /\ acks' = acks \ {<<c, m>>}
    /\ \/ db' = IF id[c] = Receiver[m] THEN db \ {m} ELSE db
       \/ "db" \in Faulty /\ UNCHANGED db
    /\ UNCHANGED <<retry, push, sessionVars, pullVars, handlerVars, received,
                   toAck, crashes, given, clean>>

(* A server dies with its connections, its table, its queue and every      *)
(* handler it runs, and is started again; redis keeps its users.            *)
Crash(s) ==
    LET lost == {c \in Conns : Home[c] = s /\ link[c] # "new"}
        At(m) == IF handler[m] \in {"transfer", "track"}
                 THEN s = Home[found[m]] ELSE s = Origin[m]
        killed == {m \in Msgs : handler[m] \notin {"new", "done", "failed"} /\ At(m)}
    IN  /\ crashes < MaxCrashes
        /\ crashes' = crashes + 1
        /\ cons' = [cons EXCEPT ![s] = [u \in Users |-> None]]
        /\ retry' = [retry EXCEPT ![s] = {}]
        /\ link' = [c \in Conns |-> IF c \in lost THEN "gone" ELSE link[c]]
        /\ closeStep' = [c \in Conns |-> IF c \in lost THEN "done" ELSE closeStep[c]]
        /\ authStep' = [c \in Conns |-> IF c \in lost THEN "done" ELSE authStep[c]]
        /\ pullStep' = [c \in Conns |-> IF c \in lost THEN "done" ELSE pullStep[c]]
        /\ pulled' = [c \in Conns |-> IF c \in lost THEN {} ELSE pulled[c]]
        /\ push' = [c \in Conns |-> IF c \in lost THEN {} ELSE push[c]]
        /\ pull' = [c \in Conns |-> IF c \in lost THEN {} ELSE pull[c]]
        /\ acks' = {a \in acks : a[1] \notin lost}
        /\ handler' = [m \in Msgs |-> IF m \in killed THEN "done" ELSE handler[m]]
        /\ found' = [m \in Msgs |-> IF m \in killed THEN None ELSE found[m]]
        /\ given' = given \cup killed
        /\ UNCHANGED <<db, redis, id, received, toAck, confirmed, clean>>

-----------------------------------------------------------------------------
Session(c) ==
    Open(c) \/ Lose(c) \/ Close(c) \/ DeleteConnect(c) \/ DeleteUser(c)
Auth(c) == AddConnect(c) \/ AuthFails(c) \/ SetUser(c) \/ SetId(c)
Pulling(c) == PullQuery(c) \/ PullReply(c) \/ PullOneMessages(c)
Handling(m) ==
    \/ AddOnemessage(m) \/ SendAck(m) \/ GetConnect(m) \/ Push(m) \/ Write(m)
    \/ GetUser(m) \/ TransferFails(m) \/ Transfer(m) \/ TransferWrite(m)
    \/ TransferPush(m)
Acking(c, m) ==
    OneMessages(c, m) \/ ClientAck(c, m) \/ DeleteOnemessage(c, m)

Next ==
    \/ \E c \in Conns : Session(c) \/ Auth(c) \/ Pulling(c)
    \/ \E m \in Msgs : Handling(m)
    \/ \E c \in Conns, m \in Msgs : Acking(c, m)
    \/ \E s \in Servers, m \in Msgs : Resend(s, m) \/ Settle(s, m)
    \/ \E s \in Servers : Crash(s)

Spec == Init /\ [][Next]_vars

-----------------------------------------------------------------------------
(* Properties                                                              *)

(* Whatever is under way to a receiver, waits to be sent again, or was     *)
(* acknowledged to the sender, is in the table or has been received; what a *)
(* client has acknowledged, it has received.                                *)
Kept(ms) == ms \subseteq db \cup received

UnderWayKept ==
    /\ \A c \in Conns : Kept(push[c]) /\ Kept(pull[c]) /\ Kept(pulled[c])
    /\ \A s \in Servers : Kept(retry[s])
    /\ \A m \in Msgs : handler[m] \notin {"new", "failed"} => Kept({m})
    /\ Kept(confirmed)

AckedReceived ==
    /\ toAck \subseteq received
    /\ \A a \in acks : a[2] \in received

NewUnseen ==
    \A m \in Msgs : handler[m] \in {"new", "failed"} => m \notin db \cup received

FoundUsable ==
    /\ \A s \in Servers, u \in Users : cons[s][u] # None => Owner[cons[s][u]] = u
    /\ \A m \in Msgs :
          /\ handler[m] \in {"write", "push", "transfer", "track"} => found[m] \in Conns
          /\ handler[m] = "rpc" => found[m] \in Servers

DeliveryInv == TypeOK /\ UnderWayKept /\ AckedReceived /\ NewUnseen /\ FoundUsable

(* The servers and clients together implement Mailbox: a confirmed message *)
(* is stored or received whatever is lost, delayed or crashes.              *)
Box == INSTANCE Mailbox WITH stored <- db
MailboxSpec == Box!Spec

(* A session is registered when AuthHandle is done with it, here and in    *)
(* redis, provided that no other connection of the user was being handled   *)
(* when it registered and none has registered since.                        *)
Registered(c) ==
    /\ cons[Home[c]][Owner[c]] = c
    /\ redis[Owner[c]] = Home[c]

LoggedIn(c) == link[c] = "open" /\ authStep[c] = "done" /\ id[c] = Owner[c]

CleanIsRegistered == \A c \in clean : LoggedIn(c) => Registered(c)

(* Why: what AuthHandle did stays, because the user's other connections    *)
(* have nothing left to do, as long as the client does not connect again.   *)
StepsInOrder ==
    \A c \in Conns :
        /\ link[c] = "new" => /\ authStep[c] = "none" /\ closeStep[c] = "none"
                              /\ pullStep[c] = "none" /\ c \notin clean
        /\ closeStep[c] \in {"table", "redis"} => link[c] = "closed"
        /\ id[c] \in {None, Owner[c]}
        /\ id[c] # None => authStep[c] = "done"
        /\ link[c] = "open" /\ pullStep[c] \in {"reply", "done"} => id[c] # None

CleanStays ==
    \A c \in clean : link[c] = "open" =>
        /\ \A d \in Conns \ {c} : Owner[d] = Owner[c] => Settled(d)
        /\ cons[Home[c]][Owner[c]] = c
        /\ \A s \in Servers \ {Home[c]} : cons[s][Owner[c]] = None
        /\ authStep[c] \in {"redis", "id", "done"}
        /\ authStep[c] \in {"id", "done"} => redis[Owner[c]] = Home[c]

(* A row that such a session has not received is under way to it, or its   *)
(* handler is.                                                              *)
HeadsFor(m, c) ==
    \/ m \in pulled[c] \cup pull[c] \cup push[c]
    \/ handler[m] \in {"ack", "lookup"}
    \/ handler[m] \in {"push", "write", "transfer"} /\ found[m] = c
    \/ handler[m] = "redis" /\ Origin[m] # Home[c]
    \/ handler[m] = "rpc" /\ found[m] = Home[c]

RowsHeadForClient ==
    \A c \in clean :
        link[c] = "open" /\ pullStep[c] \in {"reply", "done"} =>
            \A m \in Mail(Owner[c]) \ (received \cup given) : HeadsFor(m, c)

PulledWhileReplying ==
    \A c \in Conns : /\ pulled[c] # {} => pullStep[c] = "reply"
                     /\ pull[c] # {} => pullStep[c] = "done"

CleanInv ==
    DeliveryInv /\ StepsInOrder /\ CleanStays /\ RowsHeadForClient
    /\ PulledWhileReplying

(* Such a session misses no message: once every handler has returned and   *)
(* nothing is under way to it, each row of its user is in its database,     *)
(* except where, since its pull, a Write was refused, a call failed or the  *)
(* sender's server crashed; whether the message was stored before, during   *)
(* or after the login and at whichever server.                              *)
Quiet(c) ==
    /\ LoggedIn(c)
    /\ push[c] = {} /\ pull[c] = {}
    /\ \A m \in Msgs : handler[m] \in {"new", "done", "failed"}

Delivered(c) == Mail(Owner[c]) \subseteq received \cup given

CleanLoginDelivers ==
    \A c \in clean : Quiet(c) /\ pullStep[c] = "done" => Delivered(c)

=============================================================================

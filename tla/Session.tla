------------------------------ MODULE Session ------------------------------
(***************************************************************************)
(* Accounts, tokens and the client's session.  logic registers users, logs  *)
(* them in with a token and the address of a comit server, renews the token *)
(* when the app starts (userController.go, user.go, jwt.go,                 *)
(* authermiddle.go); comit checks the token of an Auth frame                *)
(* (authhandle.go); the app keeps the token, connects, and connects again   *)
(* (main.dart, config.dart, networkmanage.dart).                            *)
(*                                                                          *)
(* A user's name stands for the row of the user, since the column is        *)
(* unique.  The app's awaits are steps; a handler of logic, which has no    *)
(* state besides the table, is one.  The entries that AuthHandle writes are *)
(* those of Delivery.                                                       *)
(***************************************************************************)
EXTENDS Integers, Sequences, FiniteSets

CONSTANTS
    Clients, Names, Passwords, Servers, Nil,
    TokenOut,    \* life of a token
    Slack,       \* what GenerateToken subtracts for NotBefore (1000 seconds)
    Behind,      \* how far comit's clock is behind logic's
    MaxTime,     \* bound: logic's clock
    MaxConns,    \* bound: connections of all clients
    MaxStarts,   \* bound: starts of each app after the first
    MaxDeaths    \* bound: servers that go for good

ASSUME SessionAssumption ==
    /\ Nil \notin Clients \cup Names \cup Passwords \cup Servers
    /\ {TokenOut, Slack, Behind, MaxTime, MaxConns, MaxStarts, MaxDeaths}
          \subseteq Nat

VARIABLES
    users,       \* the table: name -> [passwd, head_image]
    now,         \* logic's clock
    up,          \* the comit servers that run
    page,        \* what the app shows: "splash", "login" or "home"
    call,        \* its HTTP request, with the reply when there is one
    saved,       \* token in the preferences
    token,       \* token in memory
    ip,          \* the server of the NetWorkManage singleton
    isLogin,
    NetStaus,
    trying,      \* under way: "init" (Init's connection), "reload" (reload's)
    sock,        \* NetWorkManage.socket
    conns,       \* the connections so far
    starts,      \* bounded by MaxStarts
    typed        \* history: <<name, password>> entered in each app

httpVars == <<users, call, typed>>
appVars == <<page, saved, token, ip, isLogin, NetStaus, trying, sock, starts>>
sessionVars == <<httpVars, appVars, now, up, conns>>

NoCall == [op |-> "none"]
NoToken == [name |-> Nil]
Failure == [ok |-> FALSE]
Registered == DOMAIN users

(* Others may have registered before, none of them in one of these apps.    *)
SessionInit ==
    /\ \E N \in SUBSET Names :
          users \in [N -> [passwd : Passwords, head_image : {Nil}]]
    /\ now = 0 /\ up = Servers
    /\ page = [c \in Clients |-> "splash"]
    /\ call = [c \in Clients |-> NoCall]
    /\ saved = [c \in Clients |-> NoToken]
    /\ token = [c \in Clients |-> NoToken]
    /\ ip = [c \in Clients |-> Nil]
    /\ isLogin = [c \in Clients |-> FALSE]
    /\ NetStaus = [c \in Clients |-> FALSE]
    /\ trying = [c \in Clients |-> {}]
    /\ sock = [c \in Clients |-> 0]
    /\ conns = <<>>
    /\ starts = [c \in Clients |-> 0]
    /\ typed = [c \in Clients |-> {}]

-----------------------------------------------------------------------------
(* logic. *)

GenerateToken(n) ==
    [name |-> n, nbf |-> now - Slack, exp |-> now + TokenOut]

(* ParseToken, which both programs use, at the time of the clock they have. *)
Valid(t, time) == t # NoToken /\ t.nbf <= time /\ time <= t.exp

RefreshToken(t) == [t EXCEPT !.exp = now + TokenOut]

(* The table has one row for a username. *)
UserAdd(n, user) ==
    [m \in Registered \cup {n} |->
        IF m \in Registered THEN users[m] ELSE user]

(* Mutant: the row is looked up by the username alone. *)
UserLoginByName(n, p) == n \in Registered

UserLogin(n, p) == n \in Registered /\ users[n].passwd = p

(* The token and the server, any of those logic knows: NextTcpServer. *)
Granted(t) == {[ok |-> TRUE, token |-> t, ip |-> s] : s \in Servers}

(***************************************************************************)
(* Login, Register, and behind AuthMiddle: Checklogin, which renews the     *)
(* token, and UpdateHeadImage.                                              *)
(***************************************************************************)
Login(c) ==
    /\ call[c].op = "login"
    /\ \E r \in IF UserLogin(call[c].name, call[c].passwd)
                THEN Granted(GenerateToken(call[c].name)) ELSE {Failure} :
          call' = [call EXCEPT ![c] = [op |-> "login", reply |-> r]]
    /\ UNCHANGED users

Register(c) ==
    /\ call[c].op = "register"
    /\ users' = UserAdd(call[c].name,
                        [passwd |-> call[c].passwd, head_image |-> c])
    /\ call' = [call EXCEPT ![c] = NoCall]

Checklogin(c) ==
    /\ call[c].op = "check"
    /\ \E r \in IF Valid(call[c].token, now)
                THEN Granted(RefreshToken(call[c].token))
                ELSE {Failure} :
          call' = [call EXCEPT ![c] = [op |-> "check", reply |-> r]]
    /\ UNCHANGED users

UpdateHeadImage(c) ==
    /\ call[c].op = "head"
    /\ users' = IF Valid(call[c].token, now)
                THEN [users EXCEPT ![call[c].token.name].head_image = c]
                ELSE users
    /\ call' = [call EXCEPT ![c] = NoCall]

Handle(c) ==
    /\ "reply" \notin DOMAIN call[c]
    /\ Login(c) \/ Register(c) \/ Checklogin(c) \/ UpdateHeadImage(c)
    /\ UNCHANGED <<appVars, now, up, conns, typed>>

-----------------------------------------------------------------------------
(* The app. *)

Post(c, r) == call[c] = NoCall /\ call' = [call EXCEPT ![c] = r]

(* _chekcisLogin *)
Splash(c) ==
    /\ page[c] = "splash" /\ trying[c] = {}
    /\ Post(c, [op |-> "check", token |-> saved[c]])
    /\ UNCHANGED <<appVars, users, typed, now, up, conns>>

Submit(c, op, n, p) ==
    /\ page[c] = "login" /\ op \in {"login", "register"}
    /\ Post(c, [op |-> op, name |-> n, passwd |-> p])
    /\ typed' = [typed EXCEPT ![c] = @ \cup {<<n, p>>}]
    /\ UNCHANGED <<appVars, users, now, up, conns>>

ChangeHead(c) ==
    /\ page[c] = "home" /\ saved[c] # NoToken
    /\ Post(c, [op |-> "head", token |-> saved[c]])
    /\ UNCHANGED <<appVars, users, typed, now, up, conns>>

(***************************************************************************)
(* The reply.  Init saves the token and asks the singleton for a            *)
(* connection: getInstance ignores the address when there is one already.   *)
(* The login page goes on without waiting for Init.                         *)
(***************************************************************************)
Reply(c) ==
    /\ "reply" \in DOMAIN call[c]
    /\ LET r == call[c].reply
           shown == IF ~ r.ok THEN "login"
                    ELSE IF call[c].op = "login" THEN "home" ELSE page[c]
       IN  /\ page' = [page EXCEPT ![c] = shown]
           /\ IF r.ok
              THEN /\ saved' = [saved EXCEPT ![c] = r.token]
                   /\ token' = [token EXCEPT ![c] = r.token]
                   /\ ip' = [ip EXCEPT ![c] = IF @ = Nil THEN r.ip ELSE @]
                   /\ trying' = [trying EXCEPT ![c] = @ \cup {"init"}]
              ELSE UNCHANGED <<saved, token, ip, trying>>
    /\ call' = [call EXCEPT ![c] = NoCall]
    /\ UNCHANGED <<users, typed, isLogin, NetStaus, sock, starts, now, up,
                   conns>>

(* The timer of NetWorkManage. *)
Reload(c) ==
    /\ ip[c] # Nil /\ ~ NetStaus[c] /\ isLogin[c]
    /\ trying' = [trying EXCEPT ![c] = @ \cup {"reload"}]
    /\ UNCHANGED <<httpVars, page, saved, token, ip, isLogin, NetStaus, sock,
                   starts, now, up, conns>>

(* What follows the connection: Init goes on, reload is done. *)
Connected(c, why) ==
    /\ trying' = [trying EXCEPT ![c] = @ \ {why}]
    /\ isLogin' = [isLogin EXCEPT ![c] = @ \/ why = "init"]
    /\ page' = [page EXCEPT ![c] = IF why = "init" /\ @ = "splash" THEN "home"
                                   ELSE @]
    /\ UNCHANGED <<httpVars, saved, token, ip, NetStaus, starts, now, up>>

(* init connects, and auth sends the token of this moment. *)
Connect(c, why) ==
    /\ why \in trying[c] /\ ip[c] \in up /\ Len(conns) < MaxConns
    /\ conns' = Append(conns, [client |-> c, server |-> ip[c], app |-> "open",
                               srv |-> "open", sent |-> <<token[c]>>,
                               replies |-> <<>>, user |-> Nil])
    /\ sock' = [sock EXCEPT ![c] = Len(conns) + 1]
    /\ Connected(c, why)

(***************************************************************************)
(* init swallows a failure; auth then writes to a socket that leads to the  *)
(* same dead server.  Without any, Init ends with an error and the app      *)
(* stays as it is.                                                          *)
(***************************************************************************)
ConnectFails(c, why) ==
    /\ why \in trying[c] /\ ip[c] \notin up
    /\ \/ /\ sock[c] = 0
          /\ trying' = [trying EXCEPT ![c] = @ \ {why}]
          /\ UNCHANGED <<httpVars, page, isLogin, saved, token, ip, NetStaus,
                         starts, now, up>>
       \/ sock[c] # 0 /\ Connected(c, why)
    /\ UNCHANGED <<sock, conns>>

(* Handles.auth, which does not look at the status. *)
AuthReply(k) ==
    LET c == conns[k].client
    IN  /\ conns[k].app = "open" /\ conns[k].replies # <<>>
        /\ NetStaus' = [NetStaus EXCEPT ![c] = TRUE]
        /\ conns' = [conns EXCEPT ![k].replies = Tail(@)]
        /\ UNCHANGED <<httpVars, page, saved, token, ip, isLogin, trying, sock,
                       starts, now, up>>

(* Mutant: onDonehandle stops the ping timer only. *)
onDonehandleQuiet(k) ==
    /\ conns[k].app = "open" /\ conns[k].srv = "closed"
    /\ conns[k].replies = <<>>
    /\ conns' = [conns EXCEPT ![k].app = "closed"]
    /\ UNCHANGED <<httpVars, appVars, now, up>>

onDonehandle(k) ==
    /\ conns[k].app = "open" /\ conns[k].srv = "closed"
    /\ conns[k].replies = <<>>
    /\ NetStaus' = [NetStaus EXCEPT ![conns[k].client] = FALSE]
    /\ conns' = [conns EXCEPT ![k].app = "closed"]
    /\ UNCHANGED <<httpVars, page, saved, token, ip, isLogin, trying, sock,
                   starts, now, up>>

(* The button that logs out.  The server sees the end of the stream. *)
Logout(c) ==
    /\ page[c] = "home" /\ sock[c] # 0
    /\ page' = [page EXCEPT ![c] = "login"]
    /\ saved' = [saved EXCEPT ![c] = NoToken]
    /\ isLogin' = [isLogin EXCEPT ![c] = FALSE]
    /\ conns' = [conns EXCEPT ![sock[c]].srv = "closed"]
    /\ UNCHANGED <<httpVars, token, ip, NetStaus, trying, sock, starts, now,
                   up>>

(* The app is started again: what was in memory is gone. *)
Start(c) ==
    /\ starts[c] < MaxStarts
    /\ starts' = [starts EXCEPT ![c] = @ + 1]
    /\ page' = [page EXCEPT ![c] = "splash"]
    /\ call' = [call EXCEPT ![c] = NoCall]
    /\ token' = [token EXCEPT ![c] = NoToken]
    /\ ip' = [ip EXCEPT ![c] = Nil]
    /\ isLogin' = [isLogin EXCEPT ![c] = FALSE]
    /\ NetStaus' = [NetStaus EXCEPT ![c] = FALSE]
    /\ trying' = [trying EXCEPT ![c] = {}]
    /\ sock' = [sock EXCEPT ![c] = 0]
    /\ conns' = [k \in DOMAIN conns |->
                    IF conns[k].client = c
                    THEN [conns[k] EXCEPT !.app = "closed", !.srv = "closed"]
                    ELSE conns[k]]
    /\ UNCHANGED <<users, typed, saved, now, up>>

-----------------------------------------------------------------------------
(* comit and the world. *)

(* AuthHandle: the status, and Close unless it is AuthSuccess. *)
Answered(r) ==
    LET t == Head(r.sent)
    IN  IF Valid(t, now - Behind)
        THEN [r EXCEPT !.sent = Tail(@), !.user = t.name,
                       !.replies = Append(@, "AuthSuccess")]
        ELSE [r EXCEPT !.sent = Tail(@), !.srv = "closed",
                       !.replies = Append(@, "TokenOvertime")]

AuthHandle(k) ==
    /\ conns[k].srv = "open" /\ conns[k].sent # <<>>
    /\ conns' = [conns EXCEPT ![k] = Answered(@)]
    /\ UNCHANGED <<httpVars, appVars, now, up>>

(* A connection is lost, with what is under way on it. *)
Lose(k) ==
    /\ conns[k].srv = "open"
    /\ conns' = [conns EXCEPT ![k].srv = "closed", ![k].replies = <<>>]
    /\ UNCHANGED <<httpVars, appVars, now, up>>

(* A server goes for good; logic goes on handing out its address. *)
Die(s) ==
    /\ s \in up /\ Cardinality(Servers \ up) < MaxDeaths
    /\ up' = up \ {s}
    /\ conns' = [k \in DOMAIN conns |->
                    IF conns[k].server = s
                    THEN [conns[k] EXCEPT !.srv = "closed", !.replies = <<>>]
                    ELSE conns[k]]
    /\ UNCHANGED <<httpVars, appVars, now>>

Clock ==
    /\ now < MaxTime
    /\ now' = now + 1
    /\ UNCHANGED <<httpVars, appVars, up, conns>>

Kinds == {"init", "reload"}
AppStep(c) ==
    \/ Reply(c)
    \/ Reload(c)
    \/ \E why \in Kinds : Connect(c, why) \/ ConnectFails(c, why)
UserStep(c) ==
    \/ \E op \in {"login", "register"}, n \in Names, p \in Passwords :
          Submit(c, op, n, p)
    \/ ChangeHead(c)
    \/ Logout(c)
    \/ Start(c)
ConnStep(k) == AuthHandle(k) \/ AuthReply(k) \/ onDonehandle(k)

SessionNext ==
    \/ \E c \in Clients :
          Splash(c) \/ Handle(c) \/ AppStep(c) \/ UserStep(c)
    \/ \E k \in DOMAIN conns : ConnStep(k) \/ Lose(k)
    \/ \E s \in Servers : Die(s)
    \/ Clock

SessionSpec == SessionInit /\ [][SessionNext]_sessionVars

(***************************************************************************)
(* The app's event loop, its timer, the handlers and the network go on;     *)
(* users, failures and the clock are free.                                  *)
(***************************************************************************)
FairSpec ==
    /\ SessionSpec
    /\ \A c \in Clients :
          /\ WF_sessionVars(Splash(c)) /\ WF_sessionVars(Handle(c))
          /\ WF_sessionVars(Reply(c)) /\ WF_sessionVars(Reload(c))
          /\ \A why \in Kinds :
                /\ WF_sessionVars(Connect(c, why))
                /\ WF_sessionVars(ConnectFails(c, why))
    /\ \A k \in 1 .. MaxConns :
          /\ WF_sessionVars(k \in DOMAIN conns /\ AuthHandle(k))
          /\ WF_sessionVars(k \in DOMAIN conns /\ AuthReply(k))
          /\ WF_sessionVars(k \in DOMAIN conns /\ onDonehandle(k))

-----------------------------------------------------------------------------
Token == [name : Names, nbf : Int, exp : Int]
Granting == [ok : {TRUE}, token : Token, ip : Servers]
Calls ==
    {NoCall}
    \cup [op : {"login", "register"}, name : Names, passwd : Passwords]
    \cup [op : {"check", "head"}, token : Token \cup {NoToken}]
    \cup [op : {"login", "check"}, reply : {Failure} \cup Granting]
Connection ==
    [client : Clients, server : Servers, app : {"open", "closed"},
     srv : {"open", "closed"}, sent : Seq(Token \cup {NoToken}),
     replies : Seq({"AuthSuccess", "TokenOvertime"}),
     user : Names \cup {Nil}]

SessionTypeOK ==
    /\ Registered \subseteq Names
    /\ users \in [Registered -> [passwd : Passwords,
                                 head_image : Clients \cup {Nil}]]
    /\ now \in 0 .. MaxTime /\ up \subseteq Servers
    /\ page \in [Clients -> {"splash", "login", "home"}]
    /\ call \in [Clients -> Calls]
    /\ saved \in [Clients -> Token \cup {NoToken}]
    /\ token \in [Clients -> Token \cup {NoToken}]
    /\ ip \in [Clients -> Servers \cup {Nil}]
    /\ isLogin \in [Clients -> BOOLEAN] /\ NetStaus \in [Clients -> BOOLEAN]
    /\ trying \in [Clients -> SUBSET Kinds]
    /\ conns \in Seq(Connection)
    /\ sock \in [Clients -> 0 .. Len(conns)]
    /\ starts \in [Clients -> Nat]
    /\ typed \in [Clients -> SUBSET (Names \X Passwords)]

(* Somebody has entered the password of user n in app c.                    *)
Entered(c, n) == n \in Registered /\ <<n, users[n].passwd>> \in typed[c]
Own(c, t) == t # NoToken => Entered(c, t.name)

(* What a request carries, or its reply, is the app's own.                  *)
CallOwn(c, d) ==
    /\ "token" \in DOMAIN d => Own(c, d.token)
    /\ "passwd" \in DOMAIN d => <<d.name, d.passwd>> \in typed[c]
    /\ "reply" \in DOMAIN d /\ d.reply.ok => Own(c, d.reply.token)

CallsOwn == \A c \in Clients : CallOwn(c, call[c])

TokensOwn ==
    /\ \A c \in Clients : Own(c, saved[c]) /\ Own(c, token[c])
    /\ \A k \in DOMAIN conns : \A i \in DOMAIN conns[k].sent :
          Own(conns[k].client, conns[k].sent[i])

UsersEntered ==
    /\ \A k \in DOMAIN conns :
          conns[k].user # Nil => Entered(conns[k].client, conns[k].user)
    /\ \A n \in Registered : users[n].head_image # Nil =>
          Entered(users[n].head_image, n)

(***************************************************************************)
(* Whoever acts as a user has entered that user's password: the tokens an   *)
(* app has and sends, the user comit takes it for, and the head images its  *)
(* requests have set (user.go:36, jwt.go:117, authermiddle.go:33,           *)
(* authhandle.go:53).                                                       *)
(***************************************************************************)
SessionInv == SessionTypeOK /\ CallsOwn /\ TokensOwn /\ UsersEntered

(***************************************************************************)
(* An app that is logged in, whose server runs and whose token is good on   *)
(* both clocks, is authenticated again and again, whatever was lost before  *)
(* (networkmanage.dart:38, handels.dart:75, user.go:80).                    *)
(***************************************************************************)
Good(c) == /\ page[c] = "home" /\ isLogin[c] /\ ip[c] \in up
           /\ Valid(token[c], now) /\ now - Behind <= token[c].exp
           /\ Len(conns) < MaxConns
Online(c) == \E k \in DOMAIN conns :
    conns[k].client = c /\ conns[k].srv = "open" /\ conns[k].user # Nil
Reconnects == \A c \in Clients : []<>(~ Good(c) \/ Online(c))
=============================================================================

----------------------------- MODULE Discovery -----------------------------
(***************************************************************************)
(* How servers become known: comit's registration under a lease of etcd,    *)
(* and the watcher of another comit server or of logic, which reads the     *)
(* registered servers once and follows the events of two watch channels     *)
(* from then on.                                                            *)
(*                                                                          *)
(* A server registers two keys, "im" for the address that clients connect   *)
(* to and "rpc".  The watcher keeps the rpc clients by name, comits; that   *)
(* of logic also the list of addresses NextTcpServer goes through,          *)
(* tcpserver, here how often each server is in it.                          *)
(***************************************************************************)
EXTENDS Naturals, Sequences, FiniteSets

CONSTANTS
    Servers,     \* the servers but the watcher itself
    MaxStarts,   \* bound: starts of servers
    MaxLogins,   \* bound: calls of NextTcpServer
    Faulty,      \* of "etcd" (Put), "dial" and "lease" (a live one lapses)
    None

ASSUME DiscoveryAssumption ==
    /\ MaxStarts \in Nat /\ MaxLogins \in Nat
    /\ Faulty \subseteq {"etcd", "dial", "lease"}
    /\ None \notin Servers

VARIABLES
    proc,        \* each server's process: where main is
    starts,      \* bounded by MaxStarts
    key,         \* its keys: attached to its lease, to one that runs out
    watcher,     \* where the watcher is
    batch,       \* servers GetConfig has read and not added yet
    imwatch,     \* events of the two channels
    rpcwatch,
    comits,
    tcpserver,
    handed,      \* what NextTcpServer returned last
    logins,      \* bounded by MaxLogins
    missed,      \* history: servers of which an rpc event came unwatched
    undialed     \* history: servers whose last dial failed

serverVars == <<proc, starts, key>>
listVars == <<comits, tcpserver>>
vars == <<serverVars, watcher, batch, imwatch, rpcwatch, listVars, handed,
          logins, missed, undialed>>

Kinds == {"im", "rpc"}
Events == {"PUT", "DELETE"} \X Servers

TypeOK ==
    /\ proc \in [Servers -> {"down", "im", "rpc", "up", "lapsed"}]
    /\ starts \in 0 .. MaxStarts
    /\ key \in [Servers -> [Kinds -> {"none", "old", "own"}]]
    /\ watcher \in {"start", "dial", "im", "list", "watch", "rpcwatch", "loop"}
    /\ batch \subseteq Servers
    /\ imwatch \in Seq(Events) /\ rpcwatch \in Seq(Events)
    /\ comits \subseteq Servers
    /\ tcpserver \in [Servers -> Nat]
    /\ handed \in Servers \cup {None}
    /\ logins \in 0 .. MaxLogins
    /\ missed \subseteq Servers /\ undialed \subseteq Servers

Init ==
    /\ proc = [s \in Servers |-> "down"]
    /\ starts = 0
    /\ key = [s \in Servers |-> [k \in Kinds |-> "none"]]
    /\ watcher = "start"
    /\ batch = {}
    /\ imwatch = <<>> /\ rpcwatch = <<>>
    /\ comits = {}
    /\ tcpserver = [s \in Servers |-> 0]
    /\ handed = None
    /\ logins = 0
    /\ missed = {} /\ undialed = {}

SetStep(f, x, s) == [f EXCEPT ![x] = s]
Registered(s, k) == key[s][k] # "none"
Watching(k) == watcher \in {"loop"} \cup IF k = "im" THEN {"rpcwatch"} ELSE {}

(* An event reaches the channel of its kind once that watches.              *)
Emit(type, s, k) ==
    /\ imwatch' = IF k = "im" /\ Watching(k) THEN Append(imwatch, <<type, s>>)
                  ELSE imwatch
    /\ rpcwatch' = IF k = "rpc" /\ Watching(k)
                   THEN Append(rpcwatch, <<type, s>>) ELSE rpcwatch
    /\ missed' = IF k = "rpc" /\ ~Watching(k) /\ watcher # "start"
                 THEN missed \cup {s} ELSE missed

-----------------------------------------------------------------------------
(* A comit server: Init takes a lease, main puts the two keys, whatever the *)
(* outcome, and Less keeps the lease alive until it lapses.                 *)

Start(s) ==
    /\ proc[s] = "down" /\ starts < MaxStarts
    /\ proc' = SetStep(proc, s, "im")
    /\ starts' = starts + 1
    /\ UNCHANGED <<key, watcher, batch, imwatch, rpcwatch, listVars, handed,
                   logins, missed, undialed>>

Registry(s) ==
    /\ proc[s] \in Kinds
    /\ proc' = SetStep(proc, s, IF proc[s] = "im" THEN "rpc" ELSE "up")
    /\ \/ /\ key' = [key EXCEPT ![s][proc[s]] = "own"]
          /\ Emit("PUT", s, proc[s])
       \/ "etcd" \in Faulty /\ UNCHANGED <<key, imwatch, rpcwatch, missed>>
    /\ UNCHANGED <<starts, watcher, batch, listVars, handed, logins, undialed>>

(* The process ends; or KeepAlive loses its lease and Less returns.         *)
Crash(s) ==
    /\ \/ proc[s] # "down" /\ proc' = SetStep(proc, s, "down")
       \/ /\ "lease" \in Faulty
          /\ proc[s] = "up" /\ proc' = SetStep(proc, s, "lapsed")
    /\ key' = SetStep(key, s, [k \in Kinds |-> IF key[s][k] = "own" THEN "old"
                                               ELSE key[s][k]])
    /\ UNCHANGED <<starts, watcher, batch, imwatch, rpcwatch, listVars, handed,
                   logins, missed, undialed>>

(* etcd deletes a key whose lease has run out, but not one that a restarted *)
(* server has put again under its new lease.                                *)
Expire(s, k) ==
    /\ key[s][k] = "old"
    /\ key' = [key EXCEPT ![s][k] = "none"]
    /\ Emit("DELETE", s, k)
    /\ UNCHANGED <<proc, starts, watcher, batch, listVars, handed, logins,
                   undialed>>

-----------------------------------------------------------------------------
(* The watcher: GetConfig, then Watch.                                      *)

GetConfig ==
    /\ watcher = "start"
    /\ batch' = {s \in Servers : Registered(s, "rpc")}
    /\ watcher' = "dial"
    /\ UNCHANGED <<serverVars, imwatch, rpcwatch, listVars, handed, logins,
                   missed, undialed>>

(* Mutant: the client that was dialed is not put into the table.            *)
AddComitServerLate(s) ==
    /\ comits' = comits
    /\ undialed' = undialed \ {s}

(* NewComitServer dials, for five seconds at most: it may fail, but not for *)
(* a server that is there all the while.                                    *)
DialFails(s) == proc[s] = "down" \/ "dial" \in Faulty

(* The client is added when the connection is made; otherwise what was      *)
(* there stays.                                                             *)
AddComitServer(s) ==
    \/ /\ comits' = comits \cup {s}
       /\ undialed' = undialed \ {s}
    \/ /\ DialFails(s)
       /\ comits' = comits
       /\ undialed' = IF s \in comits THEN undialed ELSE undialed \cup {s}

DialConfig ==
    /\ watcher = "dial"
    /\ \/ \E s \in batch : /\ AddComitServer(s)
                           /\ batch' = batch \ {s}
                           /\ UNCHANGED watcher
       \/ /\ batch = {}
          /\ watcher' = "im"
          /\ UNCHANGED <<comits, batch, undialed>>
    /\ UNCHANGED <<serverVars, imwatch, rpcwatch, tcpserver, handed, logins,
                   missed>>

(* The servers clients may connect to, read and added at once.              *)
GetImConfig ==
    /\ watcher = "im"
    /\ tcpserver' = [s \in Servers |-> IF Registered(s, "im") THEN 1 ELSE 0]
    /\ watcher' = "watch"
    /\ UNCHANGED <<serverVars, batch, imwatch, rpcwatch, comits, handed, logins,
                   missed, undialed>>

(* The channels start one after the other, with what happens from then on.  *)
Watch ==
    /\ watcher \in {"watch", "rpcwatch"}
    /\ watcher' = IF watcher = "watch" THEN "rpcwatch" ELSE "loop"
    /\ UNCHANGED <<serverVars, batch, imwatch, rpcwatch, listVars, handed,
                   logins, missed, undialed>>

AddTcpServer(ip) == tcpserver' = [tcpserver EXCEPT ![ip] = @ + 1]

(* The first entry of the address goes, if there is one.                    *)
DeleteTcpServer(ip) ==
    tcpserver' = [s \in Servers |-> IF s = ip /\ tcpserver[s] > 0
                                    THEN tcpserver[s] - 1 ELSE tcpserver[s]]

(* The value of a PUT is the address; that of a DELETE is empty.            *)
ImEvent ==
    LET s == Head(imwatch)[2]
    IN  /\ watcher = "loop" /\ imwatch # <<>>
        /\ imwatch' = Tail(imwatch)
        /\ IF Head(imwatch)[1] = "PUT" THEN AddTcpServer(s)
           ELSE DeleteTcpServer(None)
        /\ UNCHANGED <<serverVars, watcher, batch, rpcwatch, comits, handed,
                       logins, missed, undialed>>

(* Mutant: a server that goes offline is kept.                              *)
DeleteComitServerNot(s) ==
    /\ comits' = comits
    /\ undialed' = undialed \ {s}

DeleteComitServer(s) ==
    /\ comits' = comits \ {s}
    /\ undialed' = undialed \ {s}

RpcEvent ==
    LET s == Head(rpcwatch)[2]
    IN  /\ watcher = "loop" /\ rpcwatch # <<>>
        /\ rpcwatch' = Tail(rpcwatch)
        /\ IF Head(rpcwatch)[1] = "PUT" THEN AddComitServer(s)
           ELSE DeleteComitServer(s)
        /\ missed' = missed \ {s}
        /\ UNCHANGED <<serverVars, watcher, batch, imwatch, tcpserver, handed,
                       logins>>

(* Login takes the next address, at an index that concurrent calls share;   *)
(* an empty list is a panic, which ends the request only.                   *)
NextTcpServer ==
    /\ logins < MaxLogins
    /\ logins' = logins + 1
    /\ handed' \in {s \in Servers : tcpserver[s] > 0} \cup
                   IF \A s \in Servers : tcpserver[s] = 0 THEN {None} ELSE {}
    /\ UNCHANGED <<serverVars, watcher, batch, imwatch, rpcwatch, listVars,
                   missed, undialed>>

-----------------------------------------------------------------------------
Server(s) ==
    Start(s) \/ Registry(s) \/ Crash(s) \/ \E k \in Kinds : Expire(s, k)

Watcher ==
    GetConfig \/ DialConfig \/ GetImConfig \/ Watch \/ ImEvent \/ RpcEvent

Next == (\E s \in Servers : Server(s)) \/ Watcher \/ NextTcpServer

(* Goroutines run, leases run out, and Go's select takes a channel that has *)
(* events again and again.                                                  *)
Fairness ==
    /\ WF_vars(GetConfig) /\ WF_vars(DialConfig) /\ WF_vars(GetImConfig)
    /\ WF_vars(Watch) /\ SF_vars(ImEvent) /\ SF_vars(RpcEvent)
    /\ \A s \in Servers, k \in Kinds : WF_vars(Expire(s, k))

Spec == Init /\ [][Next]_vars
FairSpec == Spec /\ Fairness

-----------------------------------------------------------------------------
(* The events of a server that wait for the watcher.                        *)
Pending(s) == {i \in DOMAIN rpcwatch : rpcwatch[i][2] = s}

(* The last event that waits tells whether the server is registered, also   *)
(* after events that were missed (Watch).                                   *)
LastEventTrue ==
    \A s \in Servers : \A i \in Pending(s) :
        (\A j \in Pending(s) : j <= i)
            => (Registered(s, "rpc") <=> rpcwatch[i][1] = "PUT")

(* When no event of it waits, the watcher has a client of a server, or is   *)
(* about to dial it, if and only if the server is registered: but for those *)
(* it missed before it watched and those it could not dial (Watch,          *)
(* GetConfig, AddComitServer, DeleteComitServer).                           *)
InSync ==
    watcher # "start" =>
        \A s \in Servers \ (missed \cup undialed) :
            Pending(s) = {} => (Registered(s, "rpc") <=> s \in comits \cup batch)

(* What the watcher has read: nothing at first, the configuration, which it *)
(* dials one by one, before it watches, events only once it waits for them. *)
ReadInOrder ==
    /\ watcher = "start" => comits = {} /\ undialed = {}
    /\ batch \cap undialed = {}
    /\ watcher # "dial" => batch = {}
    /\ watcher # "loop" => rpcwatch = <<>>

(* The invariant of the watcher: its table and the events that wait are in  *)
(* step with etcd (GetConfig, Watch).                                       *)
DiscoveryInv == TypeOK /\ ReadInOrder /\ LastEventTrue /\ InSync

(* A server that stays registered becomes and stays known (AddComitServer,  *)
(* called by Watch and GetConfig), with the same exceptions.                *)
LiveLearned ==
    \A s \in Servers :
        <>[](key[s]["rpc"] = "own")
            => <>[](s \in comits \cup missed \cup undialed)

(* A server that stays away is forgotten when its lease has run out, if the *)
(* watcher was there to see it (DeleteComitServer, called by Watch).        *)
DeadForgotten ==
    \A s \in Servers :
        <>[](proc[s] = "down") => <>[](s \notin comits \/ s \in missed)
=============================================================================

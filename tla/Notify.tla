------------------------------- MODULE Notify -------------------------------
(***************************************************************************)
(* Notifications of friend requests to one user: logic finds the user's     *)
(* comit server and calls FriendNotify or FriendAgree there, which writes   *)
(* to the user's connection; an agreement for a user who is not connected   *)
(* is stored, and PullNotifie sends and deletes what is stored after the    *)
(* next login.  The request or the friendship itself is committed before    *)
(* (Friend); the servers logic knows are Discovery's comits.                *)
(***************************************************************************)
EXTENDS Naturals, FiniteSets

CONSTANTS
    Agreements,  \* calls of Agree, after FriendAdd
    Asks,        \* calls of AddFriend, after NotifyCreate
    Servers,
    None,
    Faulty,      \* of "rpc", "write" and "db": whose calls may fail
    MaxLogins    \* bound: logins of the user

Notes == Agreements \cup Asks

ASSUME NotifyAssumption ==
    /\ None \notin Servers
    /\ Agreements \cap Asks = {}
    /\ Faulty \subseteq {"rpc", "write", "db"}
    /\ MaxLogins \in Nat

VARIABLES
    comits,      \* the servers logic knows
    at,          \* each handler of logic: the next call
    srv,         \* the server it has chosen
    redis,       \* the server redis has for the user
    conman,      \* the servers that have the user's connection
    on,          \* the server the user's client is connected to
    logins,      \* bounded by MaxLogins
    pull,        \* PullNotifie: the next call
    pulled,      \* the stored notifications it has read
    table,       \* the table notifies of comit
    wire,        \* frames under way to the client: <<notification, frame>>
    taken,       \* notifications the client has understood
    garbled,     \* those it could not read
    lost,        \* history: connection lost, Write refused or call failed
    unsent       \* history: those nobody was called or connected for

logicVars == <<comits, at, srv>>
sessionVars == <<redis, conman, on, logins>>
clientVars == <<taken, garbled>>
vars == <<logicVars, sessionVars, pull, pulled, table, wire, clientVars, lost,
          unsent>>

TypeOK ==
    /\ comits \subseteq Servers
    /\ at \in [Notes -> {"user", "server", "rpc", "done", "panic"}]
    /\ srv \in [Notes -> Servers \cup {None}]
    /\ redis \in Servers \cup {None}
    /\ conman \subseteq Servers
    /\ on \in Servers \cup {None}
    /\ logins \in 0 .. MaxLogins
    /\ pull \in {"idle", "list", "write", "delete"}
    /\ pulled \subseteq Notes /\ table \subseteq Notes
    /\ wire \subseteq Notes \X {"push", "pull"}
    /\ taken \subseteq Notes /\ garbled \subseteq Notes /\ lost \subseteq Notes
    /\ unsent \subseteq Notes

Init ==
    /\ comits \in SUBSET Servers
    /\ at = [n \in Notes |-> "user"]
    /\ srv = [n \in Notes |-> None]
    /\ redis = None /\ conman = {} /\ on = None /\ logins = 0
    /\ pull = "idle" /\ pulled = {}
    /\ table = {} /\ wire = {}
    /\ taken = {} /\ garbled = {} /\ lost = {} /\ unsent = {}

SetStep(f, x, s) == [f EXCEPT ![x] = s]

-----------------------------------------------------------------------------
(* logic: where is the user?  Nothing is done for one redis does not know.  *)
GetUserFromRedis(n) ==
    /\ at[n] = "user"
    /\ srv' = SetStep(srv, n, redis)
    /\ at' = SetStep(at, n, IF redis = None THEN "done" ELSE "server")
    /\ unsent' = IF redis = None THEN unsent \cup {n} ELSE unsent
    /\ UNCHANGED <<comits, sessionVars, pull, pulled, table, wire, clientVars,
                   lost>>

(* Any server there is; to choose among none is a panic.                    *)
RandComitServer(n) ==
    \/ \E s \in comits : srv' = SetStep(srv, n, s) /\ at' = SetStep(at, n, "rpc")
    \/ comits = {} /\ at' = SetStep(at, n, "panic") /\ UNCHANGED srv

(* An agreement goes to another server when the user's is not known; a      *)
(* panic ends the request.                                                  *)
GetComitServer(n) ==
    /\ at[n] = "server"
    /\ \/ /\ srv[n] \in comits
          /\ at' = SetStep(at, n, "rpc")
          /\ UNCHANGED <<srv, unsent>>
       \/ /\ srv[n] \notin comits /\ n \in Asks
          /\ at' = SetStep(at, n, "done")
          /\ unsent' = unsent \cup {n}
          /\ UNCHANGED srv
       \/ /\ srv[n] \notin comits /\ n \in Agreements
          /\ RandComitServer(n)
          /\ UNCHANGED unsent
    /\ UNCHANGED <<comits, sessionVars, pull, pulled, table, wire, clientVars,
                   lost>>

(* The watcher learns of a server or forgets one.                           *)
ComitsChange ==
    /\ \E s \in Servers : comits' \in {comits \cup {s}, comits \ {s}}
    /\ UNCHANGED <<at, srv, sessionVars, pull, pulled, table, wire, clientVars,
                   lost, unsent>>

(* A Write from server s: refused unless the client is connected to it.     *)
Write(s, frames) ==
    \/ /\ on = s
       /\ wire' = wire \cup frames
       /\ UNCHANGED lost
    \/ /\ on # s \/ "write" \in Faulty
       /\ lost' = lost \cup {f[1] : f \in frames}
       /\ UNCHANGED wire

RpcFails(n) ==
    /\ at[n] = "rpc" /\ "rpc" \in Faulty
    /\ at' = SetStep(at, n, "done")
    /\ lost' = lost \cup {n}
    /\ UNCHANGED <<comits, srv, sessionVars, pull, pulled, table, wire,
                   clientVars, unsent>>

(* Who is asked and not connected there is told nothing: the request is in  *)
(* the list the client fetches from logic.                                  *)
FriendNotify(n) ==
    /\ at[n] = "rpc" /\ n \in Asks
    /\ at' = SetStep(at, n, "done")
    /\ IF srv[n] \in conman
       THEN Write(srv[n], {<<n, "push">>}) /\ UNCHANGED unsent
       ELSE unsent' = unsent \cup {n} /\ UNCHANGED <<wire, lost>>
    /\ UNCHANGED <<comits, srv, sessionVars, pull, pulled, table, clientVars>>

FriendAgree(n) ==
    /\ at[n] = "rpc" /\ n \in Agreements
    /\ at' = SetStep(at, n, "done")
    /\ \/ /\ srv[n] \in conman
          /\ Write(srv[n], {<<n, "push">>})
          /\ UNCHANGED table
       \/ /\ srv[n] \notin conman
          /\ table' = table \cup {n}
          /\ UNCHANGED <<wire, lost>>
       \/ /\ srv[n] \notin conman /\ "db" \in Faulty
          /\ lost' = lost \cup {n}
          /\ UNCHANGED <<table, wire>>
    /\ UNCHANGED <<comits, srv, sessionVars, pull, pulled, clientVars, unsent>>

-----------------------------------------------------------------------------
(* The user's sessions, which do not overlap (Delivery), each with a pull.  *)

Login ==
    /\ on = None /\ conman = {} /\ pull = "idle" /\ logins < MaxLogins
    /\ logins' = logins + 1
    /\ \E s \in Servers : on' = s /\ conman' = {s} /\ redis' = s
    /\ pull' = "list"
    /\ UNCHANGED <<logicVars, pulled, table, wire, clientVars, lost, unsent>>

Lose ==
    /\ on # None
    /\ on' = None
    /\ wire' = {}
    /\ lost' = lost \cup {f[1] : f \in wire}
    /\ UNCHANGED <<logicVars, redis, conman, logins, pull, pulled, table,
                   clientVars, unsent>>

CloseHandle ==
    /\ on = None /\ conman # {}
    /\ conman' = {} /\ redis' = None
    /\ UNCHANGED <<logicVars, on, logins, pull, pulled, table, wire,
                   clientVars, lost, unsent>>

-----------------------------------------------------------------------------
(* PullNotifie: read, write, delete what was read, whether the Write was    *)
(* refused or not.                                                          *)

NotifieList ==
    /\ pull = "list"
    /\ pull' = "write"
    /\ pulled' = table
    /\ UNCHANGED <<logicVars, sessionVars, table, wire, clientVars, lost,
                   unsent>>

PullReply ==
    /\ pull = "write"
    /\ pull' = "delete"
    /\ \E s \in Servers : /\ conman \subseteq {s}
                          /\ Write(s, pulled \X {"pull"})
    /\ UNCHANGED <<logicVars, sessionVars, pulled, table, clientVars, unsent>>

(* Mutant: all rows of the user are deleted.                                *)
DeleteNotifieListAll ==
    /\ pull = "delete"
    /\ pull' = "idle"
    /\ pulled' = {}
    /\ table' = {}
    /\ UNCHANGED <<logicVars, sessionVars, wire, clientVars, lost, unsent>>

DeleteNotifieList ==
    /\ pull = "delete"
    /\ pull' = "idle"
    /\ pulled' = {}
    /\ \/ table' = table \ pulled
       \/ "db" \in Faulty /\ UNCHANGED table
    /\ UNCHANGED <<logicVars, sessionVars, wire, clientVars, lost, unsent>>

(* The client reads a frame.  A stored agreement's body is a FriendNotife;  *)
(* pullNotifies takes it for an Agree and finds none in it.                 *)
Route ==
    \E f \in wire :
        /\ wire' = wire \ {f}
        /\ IF f[2] = "push"
           THEN taken' = taken \cup {f[1]} /\ UNCHANGED garbled
           ELSE garbled' = garbled \cup {f[1]} /\ UNCHANGED taken
        /\ UNCHANGED <<logicVars, sessionVars, pull, pulled, table, lost,
                       unsent>>

-----------------------------------------------------------------------------
Next ==
    \/ \E n \in Notes : \/ GetUserFromRedis(n) \/ GetComitServer(n)
                        \/ RpcFails(n) \/ FriendNotify(n) \/ FriendAgree(n)
    \/ ComitsChange \/ Login \/ Lose \/ CloseHandle
    \/ NotifieList \/ PullReply \/ DeleteNotifieList \/ Route

Spec == Init /\ [][Next]_vars

-----------------------------------------------------------------------------
(* A notification that is sent is with the client, under way or stored,    *)
(* unless a connection broke, a Write was refused or a call failed: one     *)
(* stored while a pull runs is not deleted by it (FriendAgree, PullNotifie).*)
Kept(n) == n \in table \cup taken \cup garbled \cup {f[1] : f \in wire}
NotifyKept ==
    \A n \in Notes : at[n] = "done" => Kept(n) \/ n \in lost \cup unsent

(* What PullNotifie has read and is about to delete has reached the client,  *)
(* is on its way, or went with a broken connection or a refused Write.      *)
Arrived(n) == n \in taken \cup garbled \cup lost \cup {f[1] : f \in wire}
PulledArrived ==
    /\ pull = "delete" => \A n \in pulled : Arrived(n)
    /\ pull \in {"list", "idle"} => pulled = {}

(* NotifyKept with what makes it inductive: PulledArrived, the reason that   *)
(* PullNotifie may delete the rows it has read.                             *)
NotifyInv == TypeOK /\ NotifyKept /\ PulledArrived
=============================================================================

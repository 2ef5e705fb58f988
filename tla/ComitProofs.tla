----------------------------- MODULE ComitProofs -----------------------------
(***************************************************************************)
(* Proofs about three parts of comit: Discovery, for every number of       *)
(* servers, starts and logins and whichever calls fail; Requests, for      *)
(* every stream of frames, however it is cut, and any number of workers;   *)
(* and MinHeap, for every heap.                                            *)
(*                                                                         *)
(* DiscoveryInv is inductive: an event that waits is believed, whatever    *)
(* was missed before it, if it is the last of its server; a server of      *)
(* which none waits is in the table, or about to be dialed, if and only if *)
(* it is registered.                                                       *)
(*                                                                         *)
(* RequestsInv is inductive on its own: a job takes a Request from the     *)
(* pool or a new one, so nobody else has it.  InStep needs what a Write    *)
(* leaves in the buffer and what the bytes of a frame say of its type, its *)
(* length and its body.  HandledInStep needs both, since the body of a     *)
(* Request lies in memory that the reader goes on writing to.              *)
(*                                                                         *)
(* The array of MinHeap is in order but for the one element that moves,    *)
(* and each swap moves that element one place up or down.                  *)
(***************************************************************************)
EXTENDS Discovery, Requests, MinHeap,
        SequenceTheorems, FiniteSetTheorems, WellFoundedInduction, TLAPS

(* The events that wait, when one more comes and when the first is taken.   *)
LEMMA AppendPending ==
    ASSUME rpcwatch \in Seq(Events), NEW e \in Events,
           rpcwatch' = Append(rpcwatch, e), NEW s \in Servers
    PROVE  /\ \A i \in Pending(s) : i \in Pending(s)' /\ rpcwatch'[i] = rpcwatch[i]
           /\ \A i \in Pending(s)' :
                 i \in Pending(s) \/ (i = Len(rpcwatch) + 1 /\ e[2] = s /\ rpcwatch'[i] = e)
           /\ e[2] = s => Len(rpcwatch) + 1 \in Pending(s)'
           /\ \A i \in Pending(s) : i \in 1 .. Len(rpcwatch)
BY DEF Pending

LEMMA TailPending ==
    ASSUME rpcwatch \in Seq(Events), rpcwatch # <<>>,
           rpcwatch' = Tail(rpcwatch), NEW s \in Servers
    PROVE  /\ \A i \in Pending(s)' : i \in Nat /\ i + 1 \in Pending(s)
                                    /\ rpcwatch'[i] = rpcwatch[i + 1]
           /\ \A i \in Pending(s) : \/ i = 1 /\ Head(rpcwatch) = rpcwatch[i]
                                    \/ i \in Nat /\ i - 1 \in Pending(s)'
           /\ 1 \in Pending(s) <=> Head(rpcwatch)[2] = s
<1>1. /\ Len(rpcwatch) \in Nat \ {0} /\ DOMAIN rpcwatch = 1 .. Len(rpcwatch)
      /\ DOMAIN rpcwatch' = 1 .. (Len(rpcwatch) - 1)
      /\ \A i \in DOMAIN rpcwatch' : rpcwatch'[i] = rpcwatch[i + 1]
      /\ Head(rpcwatch) = rpcwatch[1]
    OBVIOUS
<1>2. \A i \in Pending(s)' : i \in Nat /\ i + 1 \in Pending(s)
                          /\ rpcwatch'[i] = rpcwatch[i + 1]
    BY <1>1 DEF Pending
<1>3. ASSUME NEW i \in Pending(s), i # 1
      PROVE  i \in Nat /\ i - 1 \in Pending(s)'
  <2>1. i \in 2 .. Len(rpcwatch) /\ rpcwatch[i][2] = s
    BY <1>1, <1>3 DEF Pending
  <2>2. i - 1 \in DOMAIN rpcwatch' /\ rpcwatch'[i - 1] = rpcwatch[i]
    BY <1>1, <2>1
  <2> QED
    BY <2>1, <2>2 DEF Pending
<1>4. 1 \in Pending(s) <=> Head(rpcwatch)[2] = s
    BY <1>1 DEF Pending
<1> QED
    BY <1>1, <1>2, <1>3, <1>4

(* The types.                                                               *)
LEMMA TypeStep ==
    ASSUME TypeOK, [Next]_vars
    PROVE  TypeOK'
<1> USE DiscoveryAssumption DEF TypeOK, SetStep, serverVars, listVars
<1>1. ASSUME NEW s \in Servers, Start(s) PROVE TypeOK'
    BY <1>1 DEF Start
<1>2. ASSUME NEW s \in Servers, Registry(s) PROVE TypeOK'
  <2>1. <<"PUT", s>> \in Events
    BY DEF Events
  <2>2. CASE UNCHANGED <<key, imwatch, rpcwatch, missed>>
    BY <1>2, <2>2 DEF Registry, Kinds
  <2>3. CASE key' = [key EXCEPT ![s][proc[s]] = "own"] /\ Emit("PUT", s, proc[s])
    <3>1. imwatch' \in Seq(Events) /\ rpcwatch' \in Seq(Events)
      BY <2>1, <2>3 DEF Emit
    <3>2. key' \in [Servers -> [Kinds -> {"none", "old", "own"}]]
      BY <1>2, <2>3 DEF Registry
    <3> QED
      BY <1>2, <2>3, <3>1, <3>2 DEF Registry, Emit, Kinds
  <2> QED
    BY <1>2, <2>2, <2>3 DEF Registry
<1>3. ASSUME NEW s \in Servers, Crash(s) PROVE TypeOK'
  <2> DEFINE orphan == [k \in Kinds |-> IF key[s][k] = "own" THEN "old"
                                        ELSE key[s][k]]
  <2>1. orphan \in [Kinds -> {"none", "old", "own"}]
    OBVIOUS
  <2>2. key' = [key EXCEPT ![s] = orphan]
    BY <1>3 DEF Crash
  <2> HIDE DEF orphan
  <2>3. key' \in [Servers -> [Kinds -> {"none", "old", "own"}]]
    BY <2>1, <2>2
  <2>4. proc' \in [Servers -> {"down", "im", "rpc", "up", "lapsed"}]
    BY <1>3 DEF Crash
  <2> QED
    BY <1>3, <2>3, <2>4 DEF Crash
<1>4. ASSUME NEW s \in Servers, NEW k \in Kinds, Expire(s, k) PROVE TypeOK'
  <2>1. <<"DELETE", s>> \in Events
    BY DEF Events
  <2>2. imwatch' \in Seq(Events) /\ rpcwatch' \in Seq(Events)
    BY <1>4, <2>1 DEF Expire, Emit
  <2>3. key' \in [Servers -> [Kinds -> {"none", "old", "own"}]]
    BY <1>4 DEF Expire
  <2> QED
    BY <1>4, <2>2, <2>3 DEF Expire, Emit
<1>5. CASE GetConfig
    BY <1>5 DEF GetConfig
<1>6. CASE DialConfig
    BY <1>6 DEF DialConfig, AddComitServer
<1>7. CASE GetImConfig
    BY <1>7 DEF GetImConfig
<1>8. CASE Watch
    BY <1>8 DEF Watch
<1>9. CASE ImEvent
  <2>1. imwatch' \in Seq(Events)
    BY <1>9 DEF ImEvent
  <2>2. tcpserver' \in [Servers -> Nat]
    <3>1. tcpserver \in [Servers -> Nat]
      BY DEF TypeOK
    <3>2. \/ AddTcpServer(Head(imwatch)[2])
          \/ DeleteTcpServer(None)
      BY <1>9 DEF ImEvent
    <3>3. CASE AddTcpServer(Head(imwatch)[2])
      <4>1. imwatch # <<>> /\ imwatch \in Seq(Events)
        BY <1>9 DEF ImEvent, TypeOK
      <4>2. Head(imwatch) \in Events
        BY ONLY <4>1, HeadTailProperties
      <4>3. Head(imwatch)[2] \in Servers
        BY ONLY <4>2 DEF Events
      <4> QED
        BY ONLY <3>1, <3>3, <4>3 DEF AddTcpServer
    <3>4. CASE DeleteTcpServer(None)
      BY ONLY <3>1, <3>4 DEF DeleteTcpServer
    <3> QED
      BY ONLY <3>2, <3>3, <3>4
  <2> QED
    BY <1>9, <2>1, <2>2 DEF ImEvent
<1>10. CASE RpcEvent
  <2>1. rpcwatch' \in Seq(Events) /\ Head(rpcwatch) \in Events
    BY <1>10 DEF RpcEvent
  <2>2. Head(rpcwatch)[2] \in Servers
    BY <2>1 DEF Events
  <2> QED
    BY <1>10, <2>1, <2>2 DEF RpcEvent, AddComitServer, DeleteComitServer
<1>11. CASE NextTcpServer
    BY <1>11 DEF NextTcpServer
<1>12. CASE UNCHANGED vars
    BY <1>12 DEF vars
<1> QED
    BY <1>1, <1>2, <1>3, <1>4, <1>5, <1>6, <1>7, <1>8, <1>9, <1>10, <1>11,
       <1>12 DEF Next, Server, Watcher

(* The order in which the watcher reads.                                    *)
LEMMA OrderStep ==
    ASSUME TypeOK, ReadInOrder, [Next]_vars
    PROVE  ReadInOrder'
<1> USE DiscoveryAssumption DEF TypeOK, ReadInOrder, SetStep, serverVars,
        listVars
<1>1. ASSUME NEW s \in Servers, Start(s) PROVE ReadInOrder'
    BY <1>1 DEF Start
<1>2. ASSUME NEW s \in Servers, Registry(s) PROVE ReadInOrder'
    BY <1>2 DEF Registry, Emit, Watching
<1>3. ASSUME NEW s \in Servers, Crash(s) PROVE ReadInOrder'
    BY <1>3 DEF Crash
<1>4. ASSUME NEW s \in Servers, NEW k \in Kinds, Expire(s, k)
      PROVE  ReadInOrder'
    BY <1>4 DEF Expire, Emit, Watching
<1>5. CASE GetConfig
    BY <1>5 DEF GetConfig
<1>6. CASE DialConfig
    BY <1>6 DEF DialConfig, AddComitServer
<1>7. CASE GetImConfig
    BY <1>7 DEF GetImConfig
<1>8. CASE Watch
    BY <1>8 DEF Watch
<1>9. CASE ImEvent
    BY <1>9 DEF ImEvent
<1>10. CASE RpcEvent
    BY <1>10 DEF RpcEvent
<1>11. CASE NextTcpServer
    BY <1>11 DEF NextTcpServer
<1>12. CASE UNCHANGED vars
    BY <1>12 DEF vars
<1> QED
    BY <1>1, <1>2, <1>3, <1>4, <1>5, <1>6, <1>7, <1>8, <1>9, <1>10, <1>11,
       <1>12 DEF Next, Server, Watcher

(* What a step does to the registrations of the servers.                    *)
LEMMA KeyKept ==
    ASSUME TypeOK, NEW s \in Servers, key'[s]["rpc"] = key[s]["rpc"]
    PROVE  Registered(s, "rpc")' <=> Registered(s, "rpc")
BY DEF Registered

LEMMA CrashKeeps ==
    ASSUME TypeOK, NEW s \in Servers, Crash(s), NEW t \in Servers
    PROVE  Registered(t, "rpc")' <=> Registered(t, "rpc")
BY DEF Crash, Registered, SetStep, TypeOK, Kinds

(* An event that comes tells what its key has become.                       *)
Told(type, s, k) ==
    /\ Emit(type, s, k)
    /\ \A t \in Servers : \/ Registered(t, "rpc")' <=> Registered(t, "rpc")
                          \/ t = s /\ k = "rpc"
    /\ k = "rpc" => (Registered(s, "rpc")' <=> type = "PUT")

LEMMA RegistryTells ==
    ASSUME TypeOK, NEW s \in Servers, Registry(s)
    PROVE  \/ UNCHANGED <<key, rpcwatch, missed>>
           \/ proc[s] \in Kinds /\ Told("PUT", s, proc[s])
<1>1. CASE UNCHANGED <<key, imwatch, rpcwatch, missed>>
    BY <1>1
<1>2. CASE key' = [key EXCEPT ![s][proc[s]] = "own"] /\ Emit("PUT", s, proc[s])
  <2>1. proc[s] \in Kinds
    BY DEF Registry
  <2>2. \A t \in Servers : key'[t]["rpc"] = key[t]["rpc"] \/ (t = s /\ proc[s] = "rpc")
    BY <1>2, <2>1 DEF TypeOK, Kinds
  <2>3. proc[s] = "rpc" => key'[s]["rpc"] = "own"
    BY <1>2, <2>1 DEF TypeOK, Kinds
  <2>4. \A t \in Servers : \/ Registered(t, "rpc")' <=> Registered(t, "rpc")
                           \/ t = s /\ proc[s] = "rpc"
    BY <2>2 DEF Registered
  <2>5. proc[s] = "rpc" => (Registered(s, "rpc")' <=> "PUT" = "PUT")
    BY <2>3 DEF Registered
  <2> QED
    BY <1>2, <2>1, <2>4, <2>5 DEF Told
<1> QED
    BY <1>1, <1>2 DEF Registry

LEMMA ExpireTells ==
    ASSUME TypeOK, NEW s \in Servers, NEW k \in Kinds, Expire(s, k)
    PROVE  Told("DELETE", s, k)
<1>1. \A t \in Servers : key'[t]["rpc"] = key[t]["rpc"] \/ (t = s /\ k = "rpc")
    BY DEF Expire, TypeOK, Kinds
<1>2. k = "rpc" => key'[s]["rpc"] = "none"
    BY DEF Expire, TypeOK, Kinds
<1>3. \A t \in Servers : \/ Registered(t, "rpc")' <=> Registered(t, "rpc")
                         \/ t = s /\ k = "rpc"
    BY <1>1 DEF Registered
<1>4. k = "rpc" => (Registered(s, "rpc")' <=> "DELETE" = "PUT")
    BY <1>2 DEF Registered
<1> QED
    BY <1>3, <1>4 DEF Expire, Told

(* A step that leaves the events and the registrations alone.               *)
LEMMA LastEventKept ==
    ASSUME TypeOK, LastEventTrue, UNCHANGED rpcwatch,
           \A t \in Servers : Registered(t, "rpc")' <=> Registered(t, "rpc")
    PROVE  LastEventTrue'
BY DEF LastEventTrue, Pending

LEMMA LastEventTold ==
    ASSUME TypeOK, LastEventTrue, ReadInOrder, UNCHANGED watcher,
           NEW type \in {"PUT", "DELETE"}, NEW s \in Servers, NEW k \in Kinds,
           Told(type, s, k)
    PROVE  LastEventTrue'
<1>1. CASE k = "rpc" /\ watcher = "loop"
  <2> DEFINE e == <<type, s>>
  <2>1. /\ rpcwatch' = Append(rpcwatch, e) /\ rpcwatch \in Seq(Events)
        /\ e \in Events /\ e[1] = type /\ e[2] = s
    BY <1>1 DEF Told, Emit, Watching, TypeOK, Events
  <2> HIDE DEF e
  <2>2. SUFFICES ASSUME NEW t \in Servers, NEW i \in Pending(t)',
                        \A j \in Pending(t)' : j <= i
                 PROVE  Registered(t, "rpc")' <=> rpcwatch'[i][1] = "PUT"
    BY DEF LastEventTrue
  <2>3. CASE t = s
    <3>1. Len(rpcwatch) + 1 <= i
      BY <2>1, <2>2, <2>3, AppendPending
    <3>2. i \notin Pending(t)
      BY <2>1, <3>1, AppendPending
    <3>3. rpcwatch'[i] = e
      BY <2>1, <3>2, AppendPending
    <3> QED
      BY <1>1, <2>1, <2>3, <3>3 DEF Told
  <2>4. CASE t # s
    <3>1. i \in Pending(t) /\ rpcwatch'[i] = rpcwatch[i]
      BY <2>1, <2>4, AppendPending
    <3>2. \A j \in Pending(t) : j <= i
      BY <2>1, <2>2, AppendPending
    <3>3. Registered(t, "rpc")' <=> Registered(t, "rpc")
      BY <2>4 DEF Told
    <3> QED
      BY <3>1, <3>2, <3>3 DEF LastEventTrue
  <2> QED
    BY <2>3, <2>4
<1>2. CASE k # "rpc"
    BY <1>2, LastEventKept DEF Told, Emit
<1>3. CASE watcher # "loop"
  <2>1. rpcwatch' = <<>>
    BY <1>3 DEF Told, Emit, Watching, ReadInOrder, Kinds
  <2> QED
    BY <2>1 DEF LastEventTrue, Pending
<1> QED
    BY <1>1, <1>2, <1>3

(* The first event goes: what was the last of a server stays the last.      *)
LEMMA LastEventTaken ==
    ASSUME TypeOK, LastEventTrue, RpcEvent
    PROVE  LastEventTrue'
<1>1. /\ rpcwatch \in Seq(Events) /\ rpcwatch # <<>>
      /\ rpcwatch' = Tail(rpcwatch) /\ key' = key
    BY DEF RpcEvent, TypeOK, serverVars
<1>2. SUFFICES ASSUME NEW t \in Servers, NEW i \in Pending(t)',
                      \A j \in Pending(t)' : j <= i
               PROVE  Registered(t, "rpc")' <=> rpcwatch'[i][1] = "PUT"
    BY DEF LastEventTrue
<1>3. i \in Nat /\ i + 1 \in Pending(t) /\ rpcwatch'[i] = rpcwatch[i + 1]
    BY <1>1, TailPending
<1>4. \A j \in Pending(t) : j <= i + 1
    BY <1>1, <1>2, <1>3, TailPending
<1> QED
    BY <1>1, <1>3, <1>4 DEF LastEventTrue, Registered

LEMMA LastEventStep ==
    ASSUME TypeOK, ReadInOrder, LastEventTrue, [Next]_vars
    PROVE  LastEventTrue'
<1> USE DiscoveryAssumption DEF SetStep, serverVars, listVars
<1>1. ASSUME NEW s \in Servers, Start(s) PROVE LastEventTrue'
    BY <1>1, LastEventKept DEF Start, Registered
<1>2. ASSUME NEW s \in Servers, Registry(s) PROVE LastEventTrue'
  <2>1. CASE UNCHANGED <<key, rpcwatch, missed>>
    BY <2>1, LastEventKept DEF Registered
  <2>2. CASE proc[s] \in Kinds /\ Told("PUT", s, proc[s])
    BY <1>2, <2>2, LastEventTold DEF Registry
  <2> QED
    BY <1>2, <2>1, <2>2, RegistryTells
<1>3. ASSUME NEW s \in Servers, Crash(s) PROVE LastEventTrue'
    BY <1>3, CrashKeeps, LastEventKept DEF Crash
<1>4. ASSUME NEW s \in Servers, NEW k \in Kinds, Expire(s, k)
      PROVE  LastEventTrue'
    BY <1>4, ExpireTells, LastEventTold DEF Expire
<1>5. CASE GetConfig
    BY <1>5, LastEventKept DEF GetConfig, Registered
<1>6. CASE DialConfig
    BY <1>6, LastEventKept DEF DialConfig, Registered
<1>7. CASE GetImConfig
    BY <1>7, LastEventKept DEF GetImConfig, Registered
<1>8. CASE Watch
    BY <1>8, LastEventKept DEF Watch, Registered
<1>9. CASE ImEvent
    BY <1>9, LastEventKept DEF ImEvent, Registered
<1>10. CASE RpcEvent
    BY <1>10, LastEventTaken
<1>11. CASE NextTcpServer
    BY <1>11, LastEventKept DEF NextTcpServer, Registered
<1>12. CASE UNCHANGED vars
    BY <1>12, LastEventKept DEF vars, Registered
<1> QED
    BY <1>1, <1>2, <1>3, <1>4, <1>5, <1>6, <1>7, <1>8, <1>9, <1>10, <1>11,
       <1>12 DEF Next, Server, Watcher

(* A step that leaves registrations, events and tables alone keeps them in  *)
(* step; an event that comes is excused, or waits.                          *)
LEMMA SyncKept ==
    ASSUME InSync, UNCHANGED <<rpcwatch, missed, undialed, comits, batch>>,
           watcher = "start" <=> watcher' = "start",
           \A t \in Servers : Registered(t, "rpc")' <=> Registered(t, "rpc")
    PROVE  InSync'
BY DEF InSync, Pending

LEMMA SyncTold ==
    ASSUME TypeOK, InSync, UNCHANGED <<watcher, undialed, comits, batch>>,
           NEW type \in {"PUT", "DELETE"}, NEW s \in Servers, NEW k \in Kinds,
           Told(type, s, k)
    PROVE  InSync'
<1>1. CASE k = "rpc" /\ watcher = "loop"
  <2> DEFINE e == <<type, s>>
  <2>1. /\ rpcwatch' = Append(rpcwatch, e) /\ rpcwatch \in Seq(Events)
        /\ e \in Events /\ e[2] = s /\ missed' = missed
    BY <1>1 DEF Told, Emit, Watching, TypeOK, Events
  <2> HIDE DEF e
  <2>2. Pending(s)' # {}
    BY <2>1, AppendPending
  <2>3. \A t \in Servers : Pending(t)' = {} => Pending(t) = {}
    BY <2>1, AppendPending
  <2>4. \A t \in Servers \ {s} : Registered(t, "rpc")' <=> Registered(t, "rpc")
    BY DEF Told
  <2> QED
    BY <1>1, <2>1, <2>2, <2>3, <2>4 DEF InSync
<1>2. CASE k # "rpc"
    BY <1>2, SyncKept DEF Told, Emit
<1>3. CASE k = "rpc" /\ watcher \notin {"loop", "start"}
  <2>1. rpcwatch' = rpcwatch /\ missed' = missed \cup {s}
    BY <1>3 DEF Told, Emit, Watching
  <2>2. \A t \in Servers \ {s} : Registered(t, "rpc")' <=> Registered(t, "rpc")
    BY DEF Told
  <2> QED
    BY <1>3, <2>1, <2>2 DEF InSync, Pending
<1>4. CASE watcher = "start"
    BY <1>4 DEF InSync
<1> QED
    BY <1>1, <1>2, <1>3, <1>4

(* The watcher takes an event: the table is in step with what it says.      *)
LEMMA SyncTaken ==
    ASSUME DiscoveryInv, RpcEvent
    PROVE  InSync'
<1> USE DEF DiscoveryInv
<1>1. /\ rpcwatch \in Seq(Events) /\ rpcwatch # <<>> /\ watcher = "loop"
      /\ rpcwatch' = Tail(rpcwatch) /\ key' = key
      /\ batch = {} /\ batch' = {}
    BY DEF RpcEvent, TypeOK, serverVars, ReadInOrder
<1>2. PICK s \in Servers : s = Head(rpcwatch)[2]
    BY <1>1 DEF Events
<1>3. \/ Head(rpcwatch)[1] = "PUT" /\ AddComitServer(s)
      \/ Head(rpcwatch)[1] # "PUT" /\ DeleteComitServer(s)
    BY <1>2 DEF RpcEvent
<1>4. missed' = missed \ {s}
    BY <1>2 DEF RpcEvent
<1>5. SUFFICES ASSUME NEW t \in Servers, t \notin missed' \cup undialed',
                      Pending(t)' = {}
               PROVE  Registered(t, "rpc") <=> t \in comits'
    BY <1>1 DEF InSync, Registered
<1>6. CASE t = s
  <2>1. 1 \in Pending(t) /\ Head(rpcwatch) = rpcwatch[1]
    BY <1>1, <1>2, <1>6, TailPending
  <2>2. \A j \in Pending(t) : j <= 1
    BY <1>1, <1>5, TailPending
  <2>3. Registered(t, "rpc") <=> Head(rpcwatch)[1] = "PUT"
    BY <2>1, <2>2 DEF LastEventTrue
  <2> QED
    BY <1>3, <1>5, <1>6, <2>3 DEF AddComitServer, DeleteComitServer
<1>7. CASE t # s
  <2>1. Pending(t) = {}
    BY <1>1, <1>2, <1>5, <1>7, TailPending
  <2>2. t \notin missed \cup undialed /\ (t \in comits' <=> t \in comits)
    BY <1>3, <1>4, <1>5, <1>7 DEF AddComitServer, DeleteComitServer
  <2> QED
    BY <1>1, <2>1, <2>2 DEF InSync
<1> QED
    BY <1>6, <1>7

LEMMA SyncStep ==
    ASSUME DiscoveryInv, [Next]_vars
    PROVE  InSync'
<1> USE DiscoveryAssumption DEF DiscoveryInv, SetStep, serverVars, listVars
<1>1. ASSUME NEW s \in Servers, Start(s) PROVE InSync'
    BY <1>1, SyncKept DEF Start, Registered
<1>2. ASSUME NEW s \in Servers, Registry(s) PROVE InSync'
  <2>1. CASE UNCHANGED <<key, rpcwatch, missed>>
    BY <1>2, <2>1, SyncKept DEF Registry, Registered
  <2>2. CASE proc[s] \in Kinds /\ Told("PUT", s, proc[s])
    BY <1>2, <2>2, SyncTold DEF Registry
  <2> QED
    BY <1>2, <2>1, <2>2, RegistryTells
<1>3. ASSUME NEW s \in Servers, Crash(s) PROVE InSync'
    BY <1>3, CrashKeeps, SyncKept DEF Crash
<1>4. ASSUME NEW s \in Servers, NEW k \in Kinds, Expire(s, k) PROVE InSync'
    BY <1>4, ExpireTells, SyncTold DEF Expire
<1>5. CASE GetConfig
  <2>1. /\ batch' = {s \in Servers : Registered(s, "rpc")} /\ comits' = {}
        /\ key' = key
    BY <1>5 DEF GetConfig, ReadInOrder
  <2> QED
    BY <2>1 DEF InSync, Registered
<1>6. CASE DialConfig
  <2>1. CASE batch = {} /\ UNCHANGED <<comits, batch, undialed>>
    BY <1>6, <2>1, SyncKept DEF DialConfig, Registered
  <2>2. ASSUME NEW s \in batch, AddComitServer(s), batch' = batch \ {s}
        PROVE  \A t \in Servers \ undialed' :
                  t \notin undialed /\ (t \in comits' \cup batch' <=> t \in comits \cup batch)
    BY <2>2 DEF AddComitServer, ReadInOrder
  <2>3. UNCHANGED <<rpcwatch, missed, key>> /\ watcher # "start"
    BY <1>6 DEF DialConfig
  <2> QED
    BY <1>6, <2>1, <2>2, <2>3 DEF DialConfig, InSync, Pending, Registered
<1>7. CASE GetImConfig
    BY <1>7, SyncKept DEF GetImConfig, Registered
<1>8. CASE Watch
    BY <1>8, SyncKept DEF Watch, Registered
<1>9. CASE ImEvent
    BY <1>9, SyncKept DEF ImEvent, Registered
<1>10. CASE RpcEvent
    BY <1>10, SyncTaken
<1>11. CASE NextTcpServer
    BY <1>11, SyncKept DEF NextTcpServer, Registered
<1>12. CASE UNCHANGED vars
    BY <1>12, SyncKept DEF vars, Registered
<1> QED
    BY <1>1, <1>2, <1>3, <1>4, <1>5, <1>6, <1>7, <1>8, <1>9, <1>10, <1>11,
       <1>12 DEF Next, Server, Watcher

LEMMA InvInit == Init => DiscoveryInv
<1> SUFFICES ASSUME Init PROVE DiscoveryInv
    OBVIOUS
<1>1. TypeOK
    BY DiscoveryAssumption DEF Init, TypeOK, Events
<1> QED
    BY <1>1 DEF Init, DiscoveryInv, ReadInOrder, LastEventTrue, InSync,
       Pending

LEMMA InvStep == DiscoveryInv /\ [Next]_vars => DiscoveryInv'
BY TypeStep, OrderStep, LastEventStep, SyncStep DEF DiscoveryInv

(* The watcher's table and the events that wait for it are in step with     *)
(* etcd: with no event of it waiting, a server has a client or is about to  *)
(* be dialed if and only if it is registered, unless an event of it was     *)
(* missed before the channel watched or its dial failed (GetConfig, Watch,  *)
(* AddComitServer, DeleteComitServer).                                      *)
THEOREM DiscoveryCorrect == Spec => []DiscoveryInv
BY InvInit, InvStep, PTL DEF Spec

(* Under the fairness of the run it is the same invariant.                  *)
COROLLARY DiscoveryCorrectFair == FairSpec => []DiscoveryInv
BY DiscoveryCorrect, PTL DEF FairSpec

-----------------------------------------------------------------------------
(* A set of numbers has a least one, and so a set that holds 0 and with     *)
(* each number below n the next one holds all of them up to n.              *)
LEMMA Least ==
    ASSUME NEW S \in SUBSET Nat, S # {}
    PROVE  \E n \in S : \A m \in S : n <= m
<1> DEFINE R == {ss \in Nat \X Nat : ss[1] < ss[2]}
<1>1. IsWellFoundedOn(R, Nat)
  BY NatLessThanWellFounded DEF OpToRel
<1>2. S \subseteq Nat
  OBVIOUS
<1>3. ASSUME NEW m \in Nat, NEW n \in Nat, m < n PROVE <<m, n>> \in R
  <2>1. <<m, n>> \in Nat \X Nat /\ <<m, n>>[1] = m /\ <<m, n>>[2] = n
    OBVIOUS
  <2> QED
    BY <1>3, <2>1, Zenon
<1> HIDE DEF R
<1>4. PICK n \in S : \A m \in S : <<m, n>> \notin R
  BY <1>1, <1>2, WFMin
<1>5. ASSUME NEW m \in S PROVE n <= m
  <2>1. <<m, n>> \notin R
    BY <1>4
  <2>2. ~(m < n)
    BY <1>2, <1>3, <2>1
  <2> QED
    BY <1>2, <2>2
<1> QED
  BY <1>5

LEMMA UpTo ==
    ASSUME NEW n \in Nat, NEW S, 0 \in S,
           \A i \in 0 .. n - 1 : i \in S => i + 1 \in S
    PROVE  0 .. n \subseteq S
<1> DEFINE T == (0 .. n) \ S
<1>1. ASSUME T # {} PROVE FALSE
  <2>1. T \in SUBSET Nat
    OBVIOUS
  <2>2. PICK m \in T : \A j \in T : m <= j
    BY <1>1, <2>1, Least
  <2>3. m \in 1 .. n /\ m - 1 \in 0 .. n - 1 /\ (m - 1) + 1 = m
    OBVIOUS
  <2>4. m - 1 \in S
    BY <2>2, <2>3
  <2> QED
    BY <2>3, <2>4
<1> QED
  BY <1>1

(* The elements of two sequences, one behind the other.                     *)
LEMMA Joined ==
    ASSUME NEW S, NEW s \in Seq(S), NEW t \in Seq(S), NEW u, u = s \o t
    PROVE  /\ u \in Seq(S) /\ Len(u) = Len(s) + Len(t)
           /\ \A i \in 1 .. Len(s) : u[i] = s[i]
           /\ \A i \in 1 .. Len(t) : u[Len(s) + i] = t[i]
<1>1. Len(s) \in Nat /\ Len(t) \in Nat
  OBVIOUS
<1>2. /\ u \in Seq(S) /\ Len(u) = Len(s) + Len(t)
      /\ \A i \in 1 .. Len(s) + Len(t) :
            u[i] = IF i <= Len(s) THEN s[i] ELSE t[i - Len(s)]
  BY ConcatProperties
<1>3. \A i \in 1 .. Len(s) : u[i] = s[i]
  BY <1>1, <1>2
<1>4. ASSUME NEW i \in 1 .. Len(t) PROVE u[Len(s) + i] = t[i]
  <2>1. /\ Len(s) + i \in 1 .. Len(s) + Len(t) /\ ~(Len(s) + i <= Len(s))
        /\ (Len(s) + i) - Len(s) = i
    BY <1>1
  <2> QED
    BY ONLY <1>2, <2>1
<1> QED
  BY <1>2, <1>3, <1>4

-----------------------------------------------------------------------------
(* A number in two bytes and in four.                                       *)
LEMMA Divided ==
    ASSUME NEW n \in Nat, NEW d \in Nat \ {0}
    PROVE  /\ n \div d \in Nat /\ n % d \in 0 .. d - 1
           /\ d * (n \div d) + (n % d) = n
BY SMT

LEMMA TwoBytes ==
    ASSUME NEW n \in Uint16s
    PROVE  /\ PutUint16(n) \in Seq(Byte) /\ Len(PutUint16(n)) = 2
           /\ PutUint16(n)[1] \in Byte /\ PutUint16(n)[2] \in Byte
           /\ 256 * PutUint16(n)[1] + PutUint16(n)[2] = n
<1>1. n \in Nat /\ n < 256 * 256
  <2>1. PICK w : w = 256 * 256
    OBVIOUS
  <2>2. w \in Nat
    BY ONLY <2>1, SMT
  <2>3. n \in 0 .. w - 1
    BY <2>1, ZenonT(20) DEF Uint16s, Word
  <2>4. n \in Nat /\ n < w
    BY ONLY <2>2, <2>3, SMT
  <2> QED
    BY ONLY <2>1, <2>4, Zenon
<1>2. PICK q, r : q = n \div 256 /\ r = n % 256
  OBVIOUS
<1>3. q \in Nat /\ r \in 0 .. 255 /\ 256 * q + r = n
  BY <1>1, <1>2, Divided, SMT
<1>4. q < 256
  BY <1>1, <1>3, SMT
<1>5. q % 256 = q
  <2>1. PICK u, v : u = q \div 256 /\ v = q % 256
    OBVIOUS
  <2>2. u \in Nat /\ v \in 0 .. 255 /\ 256 * u + v = q
    BY ONLY <1>3, <2>1, Divided, SMT
  <2> QED
    BY ONLY <1>3, <1>4, <2>1, <2>2, SMT
<1>6. PutUint16(n) = <<q, r>> /\ q \in Byte /\ r \in Byte
  <2>1. (n \div 256) % 256 = q
    BY ONLY <1>2, <1>5
  <2>2. PutUint16(n) = <<q, r>>
    BY ONLY <1>2, <2>1 DEF PutUint16
  <2> QED
    BY ONLY <1>3, <1>4, <2>2 DEF Byte
<1> QED
  BY ONLY <1>3, <1>6

LEMMA FourBytes ==
    ASSUME NEW n \in Nat, n \div Word < Word - 1
    PROVE  /\ PutUint32(n) \in Seq(Byte) /\ Len(PutUint32(n)) = 4
           /\ \A i \in 1 .. 4 : PutUint32(n)[i] \in Byte
           /\ Word * (256 * PutUint32(n)[1] + PutUint32(n)[2])
                + (256 * PutUint32(n)[3] + PutUint32(n)[4]) = n
<1>1. PICK h, l : h = n \div Word /\ l = n % Word
  OBVIOUS
<1>2. Word \in Nat \ {0}
  BY DEF Word
<1>3. h \in Nat /\ l \in 0 .. Word - 1 /\ Word * h + l = n
  BY <1>1, <1>2, Divided
<1>4. h \in Uint16s /\ l \in Uint16s
  BY <1>1, <1>2, <1>3 DEF Uint16s
<1>5. PICK a, b : a = PutUint16(h) /\ b = PutUint16(l)
  OBVIOUS
<1>6. /\ a \in Seq(Byte) /\ Len(a) = 2 /\ a[1] \in Byte /\ a[2] \in Byte
      /\ 256 * a[1] + a[2] = h
  BY <1>4, <1>5, TwoBytes
<1>7. /\ b \in Seq(Byte) /\ Len(b) = 2 /\ b[1] \in Byte /\ b[2] \in Byte
      /\ 256 * b[1] + b[2] = l
  BY <1>4, <1>5, TwoBytes
<1>8. PutUint32(n) = a \o b
  BY <1>1, <1>5 DEF PutUint32
<1>9. /\ PutUint32(n) \in Seq(Byte) /\ Len(PutUint32(n)) = 4
      /\ PutUint32(n)[1] = a[1] /\ PutUint32(n)[2] = a[2]
      /\ PutUint32(n)[3] = b[1] /\ PutUint32(n)[4] = b[2]
  <2>1. a \in Seq(Byte) /\ b \in Seq(Byte)
    BY ONLY <1>6, <1>7
  <2>2. PICK u : u = PutUint32(n)
    OBVIOUS
  <2>3. /\ u \in Seq(Byte) /\ Len(u) = Len(a) + Len(b)
        /\ \A i \in 1 .. Len(a) : u[i] = a[i]
        /\ \A i \in 1 .. Len(b) : u[Len(a) + i] = b[i]
    BY ONLY <1>8, <2>1, <2>2, Joined
  <2>4. u \in Seq(Byte) /\ Len(u) = 4
        /\ u[1] = a[1] /\ u[2] = a[2] /\ u[3] = b[1] /\ u[4] = b[2]
    BY ONLY <1>6, <1>7, <2>3
  <2> QED
    BY ONLY <2>2, <2>4
<1>10. \A i \in 1 .. 4 : i = 1 \/ i = 2 \/ i = 3 \/ i = 4
  OBVIOUS
<1> QED
  BY ONLY <1>3, <1>6, <1>7, <1>9, <1>10

(* The bytes of a frame tell its type, the length of its body and the body. *)
LEMMA FrameFields ==
    ASSUME NEW f \in Frames, Len(f.body) \div Word < Word - 1
    PROVE  /\ FrameBytes(f) \in Seq(Byte)
           /\ Len(FrameBytes(f)) = 7 + Len(f.body)
           /\ 256 * FrameBytes(f)[1] + FrameBytes(f)[2] = f.type
           /\ Word * (256 * FrameBytes(f)[3] + FrameBytes(f)[4])
                + (256 * FrameBytes(f)[5] + FrameBytes(f)[6]) = Len(f.body)
           /\ \A i \in 1 .. Len(f.body) : FrameBytes(f)[7 + i] = f.body[i]
<1> DEFINE t == PutUint16(f.type)
           l == PutUint32(Len(f.body))
<1>1. f.type \in Uint16s /\ f.body \in Seq(Byte) /\ Len(f.body) \in Nat
  BY DEF Frames
<1>2. /\ t \in Seq(Byte) /\ Len(t) = 2 /\ 256 * t[1] + t[2] = f.type
  BY <1>1, TwoBytes
<1>3. /\ l \in Seq(Byte) /\ Len(l) = 4
      /\ Word * (256 * l[1] + l[2]) + (256 * l[3] + l[4]) = Len(f.body)
  BY <1>1, FourBytes
<1>4. PICK tl, h : /\ tl = t \o l /\ h = tl \o <<0>>
                    /\ FrameBytes(f) = h \o f.body
  BY DEF FrameBytes, GetBytes
<1>5. <<0>> \in Seq(Byte) /\ Len(<<0>>) = 1
  BY DEF Byte
<1> HIDE DEF t, l
<1>6. /\ tl \in Seq(Byte) /\ Len(tl) = 6
      /\ tl[1] = t[1] /\ tl[2] = t[2] /\ tl[3] = l[1]
      /\ tl[4] = l[2] /\ tl[5] = l[3] /\ tl[6] = l[4]
  <2>1. t \in Seq(Byte) /\ l \in Seq(Byte)
    BY ONLY <1>2, <1>3
  <2>2. /\ tl \in Seq(Byte) /\ Len(tl) = Len(t) + Len(l)
        /\ \A i \in 1 .. Len(t) : tl[i] = t[i]
        /\ \A i \in 1 .. Len(l) : tl[Len(t) + i] = l[i]
    BY ONLY <1>4, <2>1, Joined
  <2> QED
    BY ONLY <1>2, <1>3, <2>2
<1>7. /\ h \in Seq(Byte) /\ Len(h) = 7
      /\ h[1] = t[1] /\ h[2] = t[2] /\ h[3] = l[1]
      /\ h[4] = l[2] /\ h[5] = l[3] /\ h[6] = l[4]
  <2>1. tl \in Seq(Byte)
    BY ONLY <1>6
  <2>2. /\ h \in Seq(Byte) /\ Len(h) = Len(tl) + Len(<<0>>)
        /\ \A i \in 1 .. Len(tl) : h[i] = tl[i]
    BY ONLY <1>4, <1>5, <2>1, Joined
  <2> QED
    BY ONLY <1>5, <1>6, <2>2
<1>8. PICK u : u = FrameBytes(f)
  OBVIOUS
<1>9. /\ u \in Seq(Byte) /\ Len(u) = 7 + Len(f.body)
      /\ \A i \in 1 .. 7 : u[i] = h[i]
      /\ \A i \in 1 .. Len(f.body) : u[7 + i] = f.body[i]
  <2>1. h \in Seq(Byte) /\ f.body \in Seq(Byte) /\ u = h \o f.body
    BY ONLY <1>1, <1>4, <1>7, <1>8
  <2>2. /\ u \in Seq(Byte) /\ Len(u) = Len(h) + Len(f.body)
        /\ \A i \in 1 .. Len(h) : u[i] = h[i]
        /\ \A i \in 1 .. Len(f.body) : u[Len(h) + i] = f.body[i]
    BY ONLY <2>1, Joined
  <2> QED
    BY ONLY <1>7, <2>2
<1>10. /\ 256 * u[1] + u[2] = f.type
       /\ Word * (256 * u[3] + u[4]) + (256 * u[5] + u[6]) = Len(f.body)
  BY ONLY <1>2, <1>3, <1>7, <1>9, SMTT(30)
<1> QED
  BY ONLY <1>8, <1>9, <1>10

-----------------------------------------------------------------------------
(* What the first frames are in bytes, and that all begins with it.         *)
Bytes(i) == FrameBytes(Stream[i])

LEMMA BytesType ==
    ASSUME RequestsAssumption, NEW i \in DOMAIN Stream
    PROVE  Bytes(i) \in Seq(Byte) /\ Stream[i] \in Frames
           /\ Len(Stream[i].body) \div Word < Word - 1
BY FrameFields DEF RequestsAssumption, Bytes

Builds(g, n) == /\ g \in [0 .. n -> Seq(Byte)] /\ g[0] = <<>>
                /\ \A i \in 1 .. n : g[i] = g[i - 1] \o Bytes(i)

LEMMA SentBuilds ==
    ASSUME RequestsAssumption
    PROVE  Len(Stream) \in Nat /\ Builds(SentTo, Len(Stream))
<1> DEFINE N == Len(Stream)
           S == {n \in 0 .. N : \E g : Builds(g, n)}
<1>1. N \in Nat /\ DOMAIN Stream = 1 .. N
  BY DEF RequestsAssumption
<1>2. 0 \in S
  <2>1. Builds([i \in 0 .. 0 |-> <<>>], 0)
    BY EmptySeq DEF Builds
  <2> QED
    BY <1>1, <2>1
<1>3. ASSUME NEW n \in 0 .. N - 1, n \in S PROVE n + 1 \in S
  <2>1. PICK g : Builds(g, n)
    BY <1>3
  <2>2. n + 1 \in DOMAIN Stream /\ n + 1 \in 0 .. N
    BY <1>1
  <2>3. Bytes(n + 1) \in Seq(Byte)
    BY <2>2, BytesType
  <2> DEFINE h == [i \in 0 .. n + 1 |->
                      IF i <= n THEN g[i] ELSE g[n] \o Bytes(n + 1)]
  <2>4. h \in [0 .. n + 1 -> Seq(Byte)]
    BY <1>1, <2>1, <2>3 DEF Builds
  <2>5. h[0] = <<>>
    BY <1>1, <2>1 DEF Builds
  <2>6. ASSUME NEW i \in 1 .. n + 1 PROVE h[i] = h[i - 1] \o Bytes(i)
    <3>0. n \in Nat /\ i \in Nat /\ i - 1 \in 0 .. n /\ i \in 0 .. n + 1
      BY <1>1
    <3>1. CASE i <= n
      <4>1. h[i] = g[i] /\ h[i - 1] = g[i - 1] /\ i \in 1 .. n
        BY <3>0, <3>1
      <4> QED
        BY <2>1, <4>1 DEF Builds
    <3>2. CASE ~(i <= n)
      <4>1. i = n + 1 /\ i - 1 = n
        BY <3>0, <3>2
      <4>2. h[i] = g[n] \o Bytes(n + 1) /\ h[i - 1] = g[n]
        BY ONLY <3>0, <4>1
      <4> QED
        BY ONLY <4>1, <4>2
    <3> QED
      BY <3>1, <3>2
  <2>7. Builds(h, n + 1)
    BY <2>4, <2>5, <2>6 DEF Builds
  <2> QED
    BY <2>2, <2>7
<1>4. N \in S
  <2> HIDE DEF S
  <2>1. 0 .. N \subseteq S
    BY ONLY <1>1, <1>2, <1>3, UpTo
  <2> QED
    BY <1>1, <2>1
<1>5. PICK g : Builds(g, N)
  BY <1>4
<1> DEFINE Def(s) == s = [i \in 0 .. N |->
                IF i = 0 THEN <<>> ELSE s[i - 1] \o FrameBytes(Stream[i])]
<1>6. Def(g)
  <2>1. g = [i \in 0 .. N |-> g[i]]
    BY <1>5 DEF Builds
  <2>2. ASSUME NEW i \in 0 .. N
        PROVE  g[i] = IF i = 0 THEN <<>> ELSE g[i - 1] \o FrameBytes(Stream[i])
    <3>1. i = 0 \/ i \in 1 .. N
      BY <1>1
    <3> QED
      BY ONLY <1>5, <3>1 DEF Builds, Bytes
  <2> QED
    BY ONLY <2>1, <2>2, Zenon
<1>7. SentTo = CHOOSE s : Def(s)
  BY DEF SentTo
<1> HIDE DEF Def
<1>8. Def(SentTo)
  BY <1>6, <1>7, Zenon
<1>9. /\ DOMAIN SentTo = 0 .. N /\ SentTo[0] = <<>>
      /\ \A i \in 1 .. N : SentTo[i] = SentTo[i - 1] \o Bytes(i)
  <2>1. SentTo = [i \in 0 .. N |-> IF i = 0 THEN <<>>
                                   ELSE SentTo[i - 1] \o FrameBytes(Stream[i])]
    BY ONLY <1>8 DEF Def
  <2>2. /\ DOMAIN SentTo = 0 .. N
        /\ \A i \in 0 .. N : SentTo[i] = IF i = 0 THEN <<>>
                                ELSE SentTo[i - 1] \o FrameBytes(Stream[i])
    BY ONLY <2>1, Zenon
  <2>3. 0 \in 0 .. N /\ \A i \in 1 .. N : i \in 0 .. N /\ i # 0
    BY <1>1
  <2> QED
    BY ONLY <2>2, <2>3 DEF Bytes
<1> DEFINE U == {n \in 0 .. N : SentTo[n] \in Seq(Byte)}
<1>10. 0 \in U
  <2>1. <<>> \in Seq(Byte) /\ 0 \in 0 .. N
    BY ONLY <1>1, EmptySeq
  <2>2. SentTo[0] \in Seq(Byte)
    BY ONLY <1>9, <2>1
  <2> QED
    BY ONLY <2>1, <2>2
<1>11. ASSUME NEW n \in 0 .. N - 1, n \in U PROVE n + 1 \in U
  <2>1. n + 1 \in 1 .. N /\ (n + 1) - 1 = n
    BY <1>1
  <2>2. SentTo[n + 1] = SentTo[n] \o Bytes(n + 1)
    BY <1>9, <2>1
  <2>3. Bytes(n + 1) \in Seq(Byte)
    BY <1>1, <2>1, BytesType
  <2> QED
    <3>1. SentTo[n] \in Seq(Byte)
      BY ONLY <1>11
    <3>2. SentTo[n + 1] \in Seq(Byte)
      BY ONLY <2>2, <2>3, <3>1, ConcatProperties
    <3>3. n + 1 \in 0 .. N
      BY ONLY <1>1, <2>1
    <3> QED
      BY ONLY <3>2, <3>3
<1>12. 0 .. N \subseteq U
  <2> HIDE DEF U
  <2> QED
    BY ONLY <1>1, <1>10, <1>11, UpTo
<1>13. SentTo \in [0 .. N -> Seq(Byte)]
  <2>1. SentTo = [i \in 0 .. N |-> SentTo[i]]
    BY <1>8 DEF Def
  <2> QED
    BY <1>12, <2>1
<1> QED
  BY <1>1, <1>9, <1>13 DEF Builds

LEMMA SentPrefix ==
    ASSUME RequestsAssumption, NEW i \in 0 .. Len(Stream),
           NEW j \in i .. Len(Stream)
    PROVE  /\ Len(SentTo[i]) <= Len(SentTo[j])
           /\ \A k \in 1 .. Len(SentTo[i]) : SentTo[j][k] = SentTo[i][k]
<1> DEFINE N == Len(Stream)
           Begins(n) == /\ Len(SentTo[i]) <= Len(SentTo[n])
                        /\ \A k \in 1 .. Len(SentTo[i]) :
                              SentTo[n][k] = SentTo[i][k]
           S == {d \in 0 .. N - i : Begins(i + d)}
<1>1. /\ N \in Nat /\ DOMAIN Stream = 1 .. N /\ i \in 0 .. N
      /\ SentTo \in [0 .. N -> Seq(Byte)]
      /\ \A n \in 1 .. N : SentTo[n] = SentTo[n - 1] \o Bytes(n)
  BY SentBuilds, RequestsAssumption, SMTT(20) DEF Builds
<1>2. 0 \in S
  <2>1. Begins(i)
    BY <1>1
  <2>2. i + 0 = i /\ 0 \in 0 .. N - i
    BY <1>1
  <2> HIDE DEF Begins
  <2> QED
    BY <2>1, <2>2
<1>3. ASSUME NEW d \in 0 .. (N - i) - 1, d \in S PROVE d + 1 \in S
  <2>1. PICK n : n = i + d
    OBVIOUS
  <2>2. /\ n \in 0 .. N - 1 /\ n \in 0 .. N /\ n + 1 \in 1 .. N
        /\ (n + 1) - 1 = n /\ i + (d + 1) = n + 1 /\ d + 1 \in 0 .. N - i
    BY ONLY <1>1, <2>1, d \in 0 .. (N - i) - 1
  <2>3. /\ SentTo[n + 1] = SentTo[n] \o Bytes(n + 1)
        /\ SentTo[n] \in Seq(Byte) /\ SentTo[i] \in Seq(Byte)
    BY ONLY <1>1, <2>2
  <2>4. Bytes(n + 1) \in Seq(Byte)
    BY <1>1, <2>2, BytesType
  <2>5. PICK a, b, u, v : /\ a = SentTo[n] /\ b = Bytes(n + 1) /\ v = SentTo[i]
                          /\ u = SentTo[n + 1]
    OBVIOUS
  <2>6. a \in Seq(Byte) /\ b \in Seq(Byte) /\ v \in Seq(Byte) /\ u = a \o b
    BY ONLY <2>3, <2>4, <2>5
  <2>7. /\ Len(u) = Len(a) + Len(b)
        /\ \A k \in 1 .. Len(a) : u[k] = a[k]
    BY ONLY <2>6, Joined
  <2>8. Len(v) <= Len(a) /\ \A k \in 1 .. Len(v) : a[k] = v[k]
    <3>1. Begins(n)
      BY ONLY <1>3, <2>1
    <3> QED
      BY ONLY <2>5, <3>1
  <2>9. Len(v) <= Len(u) /\ \A k \in 1 .. Len(v) : u[k] = v[k]
    <3>1. Len(a) \in Nat /\ Len(b) \in Nat /\ Len(v) \in Nat
      BY ONLY <2>6
    <3> QED
      BY ONLY <2>7, <2>8, <3>1
  <2>10. Begins(i + (d + 1))
    BY ONLY <2>2, <2>5, <2>9
  <2> HIDE DEF Begins
  <2> QED
    BY ONLY <2>2, <2>10
<1>4. 0 .. N - i \subseteq S
  <2> HIDE DEF S
  <2>1. N - i \in Nat
    BY ONLY <1>1
  <2> QED
    BY ONLY <1>2, <1>3, <2>1, UpTo
<1>5. PICK d : d = j - i
  OBVIOUS
<1>6. d \in 0 .. N - i /\ i + d = j
  BY ONLY <1>1, <1>5, j \in i .. N
<1>7. Begins(i + d)
  BY ONLY <1>4, <1>6
<1> QED
  BY ONLY <1>6, <1>7

(* Behind the first frames comes the next one.                              *)
LEMMA NextFrame ==
    ASSUME RequestsAssumption, NEW o \in 0 .. Len(Stream), o # Len(Stream)
    PROVE  /\ o + 1 \in DOMAIN Stream /\ Bytes(o + 1) \in Seq(Byte)
           /\ SentTo[o] \in Seq(Byte) /\ Sent \in Seq(Byte)
           /\ Len(SentTo[o + 1]) = Len(SentTo[o]) + Len(Bytes(o + 1))
           /\ Len(SentTo[o + 1]) <= Len(Sent)
           /\ \A k \in 1 .. Len(Bytes(o + 1)) :
                 Sent[Len(SentTo[o]) + k] = Bytes(o + 1)[k]
<1> DEFINE N == Len(Stream)
<1>1. /\ N \in Nat /\ DOMAIN Stream = 1 .. N
      /\ SentTo \in [0 .. N -> Seq(Byte)]
      /\ \A n \in 1 .. N : SentTo[n] = SentTo[n - 1] \o Bytes(n)
  BY SentBuilds DEF Builds, RequestsAssumption
<1>2. /\ o + 1 \in 1 .. N /\ o + 1 \in 0 .. N /\ N \in o + 1 .. N
      /\ (o + 1) - 1 = o /\ N \in 0 .. N
  <2>1. N \in Nat
    BY ONLY <1>1
  <2>2. o \in 0 .. N /\ o # N
    OBVIOUS
  <2> HIDE DEF N
  <2> QED
    BY ONLY <2>1, <2>2
<1>3. PICK a, b, u, v : /\ a = SentTo[o] /\ b = Bytes(o + 1)
                        /\ u = SentTo[o + 1] /\ v = Sent
  OBVIOUS
<1>4. o + 1 \in DOMAIN Stream /\ b \in Seq(Byte)
  BY <1>1, <1>2, <1>3, BytesType
<1>5. a \in Seq(Byte) /\ v \in Seq(Byte) /\ u = a \o b
  BY ONLY <1>1, <1>2, <1>3, o \in 0 .. N DEF Sent
<1>6. /\ Len(u) = Len(a) + Len(b)
      /\ \A k \in 1 .. Len(b) : u[Len(a) + k] = b[k]
  BY ONLY <1>4, <1>5, Joined
<1>7. Len(u) <= Len(v) /\ \A k \in 1 .. Len(u) : v[k] = u[k]
  <2>1. /\ Len(SentTo[o + 1]) <= Len(SentTo[N])
        /\ \A k \in 1 .. Len(SentTo[o + 1]) : SentTo[N][k] = SentTo[o + 1][k]
    BY <1>2, SentPrefix
  <2> QED
    BY ONLY <1>3, <2>1 DEF Sent
<1>8. \A k \in 1 .. Len(b) : Len(a) + k \in 1 .. Len(u)
  BY ONLY <1>4, <1>5, <1>6
<1>9. \A k \in 1 .. Len(b) : v[Len(a) + k] = b[k]
  BY ONLY <1>6, <1>7, <1>8
<1> QED
  BY ONLY <1>3, <1>4, <1>5, <1>6, <1>7, <1>9

-----------------------------------------------------------------------------
(* What the buffer's memory holds after a Write.                            *)
LEMMA Cut ==
    ASSUME NEW S, NEW s \in Seq(S), NEW f \in Nat, NEW e \in f .. Len(s),
           NEW u, u = SubSeq(s, f + 1, e)
    PROVE  /\ u \in Seq(S) /\ Len(u) = e - f
           /\ \A k \in 1 .. e - f : u[k] = s[f + k]
<1>1. f \in Nat /\ e \in Nat /\ f <= e /\ f + 1 \in Int /\ e \in Int
      /\ \A i \in f + 1 .. e : i \in 1 .. Len(s)
  OBVIOUS
<1>2. \A i \in f + 1 .. e : s[i] \in S
  BY <1>1
<1>3. /\ u \in Seq(S) /\ Len(u) = IF f + 1 <= e THEN e - (f + 1) + 1 ELSE 0
      /\ \A k \in 1 .. e - (f + 1) + 1 : u[k] = s[(f + 1) + k - 1]
  BY ONLY <1>1, <1>2, u = SubSeq(s, f + 1, e), SubSeqProperties
<1>4. e - (f + 1) + 1 = e - f
      /\ (IF f + 1 <= e THEN e - (f + 1) + 1 ELSE 0) = e - f
      /\ \A k \in 1 .. e - f : (f + 1) + k - 1 = f + k
  BY ONLY <1>1
<1> QED
  BY ONLY <1>3, <1>4

LEMMA PutBytes ==
    ASSUME NEW a \in Seq(Byte), NEW d \in Seq(Byte), NEW i \in Nat,
           i + Len(d) <= Len(a), NEW u, u = Put(a, i, d)
    PROVE  /\ u \in Seq(Byte) /\ Len(u) = Len(a)
           /\ \A k \in 1 .. i : u[k] = a[k]
           /\ \A k \in 1 .. Len(d) : u[i + k] = d[k]
<1>1. /\ Len(a) \in Nat /\ Len(d) \in Nat /\ DOMAIN a = 1 .. Len(a)
      /\ \A k \in 1 .. Len(a) : a[k] \in Byte
      /\ \A k \in 1 .. Len(d) : d[k] \in Byte
  OBVIOUS
<1>2. u = [k \in 1 .. Len(a) |->
              IF k \in i + 1 .. i + Len(d) THEN d[k - i] ELSE a[k]]
  BY ONLY <1>1, u = Put(a, i, d) DEF Put
<1>3. \A k \in i + 1 .. i + Len(d) : k - i \in 1 .. Len(d)
  BY <1>1
<1>4. u \in [1 .. Len(a) -> Byte]
  BY ONLY <1>1, <1>2, <1>3
<1>5. u \in Seq(Byte) /\ Len(u) = Len(a)
  BY <1>1, <1>4
<1>6. ASSUME NEW k \in 1 .. i PROVE u[k] = a[k]
  <2>1. k \in 1 .. Len(a) /\ k \notin i + 1 .. i + Len(d)
    BY <1>1
  <2> QED
    BY ONLY <1>2, <2>1
<1>7. ASSUME NEW k \in 1 .. Len(d) PROVE u[i + k] = d[k]
  <2>1. /\ i + k \in 1 .. Len(a) /\ i + k \in i + 1 .. i + Len(d)
        /\ (i + k) - i = k
    BY <1>1
  <2> QED
    BY ONLY <1>2, <2>1
<1> QED
  BY <1>5, <1>6, <1>7

LEMMA Behind ==
    ASSUME NEW a \in Seq(Byte), NEW d \in Seq(Byte), NEW f \in Nat,
           NEW e \in Nat, f <= e, e + Len(d) <= Len(a)
    PROVE  SubSeq(Put(a, e, d), f + 1, e + Len(d)) = SubSeq(a, f + 1, e) \o d
<1>1. PICK u, v, w, x :
        /\ u = Put(a, e, d) /\ v = SubSeq(u, f + 1, e + Len(d))
        /\ w = SubSeq(a, f + 1, e) /\ x = w \o d
  OBVIOUS
<1>2. PICK n, m : n = Len(d) /\ m = Len(a)
  OBVIOUS
<1>3. /\ n \in Nat /\ m \in Nat /\ e \in f .. m
      /\ e + n \in f .. m
  BY <1>2
<1>4. /\ u \in Seq(Byte) /\ Len(u) = m
      /\ \A k \in 1 .. e : u[k] = a[k]
      /\ \A k \in 1 .. n : u[e + k] = d[k]
  <2>1. u = Put(a, e, d)
    BY ONLY <1>1
  <2>2. /\ u \in Seq(Byte) /\ Len(u) = Len(a)
        /\ \A k \in 1 .. e : u[k] = a[k]
        /\ \A k \in 1 .. Len(d) : u[e + k] = d[k]
    BY <2>1, PutBytes
  <2> QED
    BY ONLY <1>2, <2>2
<1>5. /\ v \in Seq(Byte) /\ Len(v) = (e + n) - f
      /\ \A k \in 1 .. (e + n) - f : v[k] = u[f + k]
  <2>1. PICK g : g = e + n
    OBVIOUS
  <2>2. v = SubSeq(u, f + 1, g) /\ g \in f .. Len(u) /\ u \in Seq(Byte)
    BY ONLY <1>1, <1>2, <1>3, <1>4, <2>1
  <2> QED
    BY ONLY <2>1, <2>2, f \in Nat, Cut
<1>6. /\ w \in Seq(Byte) /\ Len(w) = e - f
      /\ \A k \in 1 .. e - f : w[k] = a[f + k]
  <2>1. e \in f .. Len(a) /\ f \in Nat /\ a \in Seq(Byte)
    BY <1>2, <1>3
  <2> QED
    BY ONLY <1>1, <2>1, Cut
<1>7. /\ x \in Seq(Byte) /\ Len(x) = (e - f) + n
      /\ \A k \in 1 .. e - f : x[k] = w[k]
      /\ \A k \in 1 .. n : x[(e - f) + k] = d[k]
  <2>1. /\ x \in Seq(Byte) /\ Len(x) = Len(w) + n
        /\ \A k \in 1 .. Len(w) : x[k] = w[k]
        /\ \A k \in 1 .. n : x[Len(w) + k] = d[k]
    BY ONLY <1>2, <1>1, <1>6, d \in Seq(Byte), Joined
  <2> QED
    BY ONLY <1>6, <2>1
<1>8. ASSUME NEW k \in 1 .. (e + n) - f PROVE v[k] = x[k]
  <2>0. /\ f \in Nat /\ e \in Nat /\ n \in Nat /\ f <= e
        /\ k \in 1 .. (e + n) - f
    BY <1>3
  <2>1. CASE k <= e - f
    <3>1. k \in 1 .. e - f /\ f + k \in 1 .. e
      BY ONLY <2>0, <2>1
    <3> QED
      BY ONLY <1>4, <1>5, <1>6, <1>7, <2>0, <3>1
  <2>2. CASE ~(k <= e - f)
    <3>1. PICK j : j = k - (e - f)
      OBVIOUS
    <3>2. j \in 1 .. n /\ (e - f) + j = k /\ f + k = e + j
      BY ONLY <2>0, <2>2, <3>1
    <3> QED
      BY ONLY <1>4, <1>5, <1>7, <2>0, <3>2
  <2> QED
    BY ONLY <2>1, <2>2
<1>9. Len(v) = Len(x)
  BY ONLY <1>3, <1>5, <1>7, f \in Nat
<1>10. v = x
  <2>1. \A k \in 1 .. Len(v) : v[k] = x[k]
    BY ONLY <1>5, <1>8
  <2> QED
    BY ONLY <1>5, <1>7, <1>9, <2>1, SeqEqual
<1> QED
  BY ONLY <1>2, <1>1, <1>10

LEMMA FirstPart ==
    ASSUME NEW S, NEW s \in Seq(S), NEW t \in Seq(S)
    PROVE  SubSeq(s \o t, 1, Len(s)) = s
<1>1. PICK u, v : u = s \o t /\ v = SubSeq(u, 0 + 1, Len(s))
  OBVIOUS
<1>2. /\ u \in Seq(S) /\ Len(u) = Len(s) + Len(t)
      /\ \A k \in 1 .. Len(s) : u[k] = s[k]
  BY <1>1, Joined
<1>3. Len(s) \in 0 .. Len(u) /\ 0 \in Nat /\ Len(s) - 0 = Len(s) /\ 0 + 1 = 1
      /\ \A k \in 1 .. Len(s) : 0 + k = k
  BY <1>2
<1>4. /\ v \in Seq(S) /\ Len(v) = Len(s) - 0
      /\ \A k \in 1 .. Len(s) - 0 : v[k] = u[0 + k]
  BY ONLY <1>1, <1>2, <1>3, Cut
<1>5. Len(v) = Len(s) /\ \A k \in 1 .. Len(v) : v[k] = s[k]
  BY ONLY <1>2, <1>3, <1>4
<1>6. v = s
  BY ONLY <1>4, <1>5, s \in Seq(S), SeqEqual
<1> QED
  BY ONLY <1>1, <1>3, <1>6

BufferOK == /\ mem \in Seq(Seq(Byte)) /\ mem # <<>>
            /\ buf \in [off : Nat, end : Nat] /\ buf.off <= buf.end
            /\ buf.end <= Cap

LEMMA Buffer ==
    ASSUME BufferOK
    PROVE  /\ Len(mem) \in DOMAIN mem /\ DOMAIN mem = 1 .. Len(mem)
           /\ Newest \in Seq(Byte) /\ Newest = mem[Len(mem)]
           /\ Cap = Len(Newest) /\ Cap \in Nat
           /\ buf.off \in Nat /\ buf.end \in Nat
           /\ buf.off <= buf.end /\ buf.end <= Cap
           /\ BufLen \in Nat /\ BufLen = buf.end - buf.off
           /\ Slice(Len(mem), buf.off, buf.end)
                = SubSeq(Newest, buf.off + 1, buf.end)
           /\ Slice(Len(mem), buf.off, buf.end) \in Seq(Byte)
           /\ Len(Slice(Len(mem), buf.off, buf.end)) = BufLen
<1>1. Len(mem) \in DOMAIN mem /\ DOMAIN mem = 1 .. Len(mem)
  BY EmptySeq DEF BufferOK
<1>2. Newest \in Seq(Byte) /\ Newest = mem[Len(mem)]
  BY <1>1 DEF BufferOK, Newest
<1>3. Cap = Len(Newest) /\ Cap \in Nat
  BY <1>2 DEF Cap
<1>4. buf.off \in Nat /\ buf.end \in Nat /\ buf.off <= buf.end /\ buf.end <= Cap
  BY DEF BufferOK
<1>5. BufLen = buf.end - buf.off
  BY DEF BufLen
<1>6. BufLen \in Nat
  BY <1>4, <1>5
<1>7. Slice(Len(mem), buf.off, buf.end) = SubSeq(Newest, buf.off + 1, buf.end)
  BY <1>2 DEF Slice
<1>8. PICK u, f, e : /\ u = SubSeq(Newest, buf.off + 1, buf.end)
                     /\ f = buf.off /\ e = buf.end
  OBVIOUS
<1>9. f \in Nat /\ e \in f .. Len(Newest)
  BY <1>3, <1>4, <1>8
<1>10. u \in Seq(Byte) /\ Len(u) = e - f
  <2>1. u = SubSeq(Newest, f + 1, e)
    BY <1>8
  <2> QED
    BY ONLY <1>2, <1>9, <2>1, Cut
<1> QED
  BY ONLY <1>1, <1>2, <1>3, <1>4, <1>5, <1>6, <1>7, <1>8, <1>10

(* What a Write leaves: the buffer with the new bytes behind the rest, and  *)
(* as long as no array is used again, all memory that was behind it.        *)
Written(data) ==
    /\ mem' \in Seq(Seq(Byte)) /\ Len(mem') \in {Len(mem), Len(mem) + 1}
    /\ buf' \in [off : Nat, end : Nat] /\ buf'.off <= buf'.end
    /\ buf'.end <= Len(mem'[Len(mem')])
    /\ reused' \in {reused, TRUE}
    /\ \A i \in 1 .. Len(mem) : Len(mem'[i]) = Len(mem[i])
    /\ SubSeq(mem'[Len(mem')], buf'.off + 1, buf'.end)
         = Slice(Len(mem), buf.off, buf.end) \o data
    /\ ~ reused' =>
          /\ Len(mem') = Len(mem) => buf'.off = buf.off
          /\ \A i \in 1 .. Len(mem) : i # Len(mem) => mem'[i] = mem[i]
          /\ \A k \in 1 .. buf.off : mem'[Len(mem)][k] = mem[Len(mem)][k]

LEMMA Replaced ==
    ASSUME NEW S, NEW s \in Seq(S), NEW t, NEW e \in S, s # <<>>,
           t = [s EXCEPT ![Len(s)] = e]
    PROVE  /\ t \in Seq(S) /\ Len(t) = Len(s) /\ t[Len(s)] = e
           /\ \A i \in 1 .. Len(s) : i # Len(s) => t[i] = s[i]
<1>1. Len(s) \in 1 .. Len(s)
  BY EmptySeq
<1>2. /\ t \in Seq(S) /\ Len(t) = Len(s)
      /\ \A i \in 1 .. Len(s) : t[i] = IF i = Len(s) THEN e ELSE s[i]
  BY <1>1, ExceptSeq
<1> QED
  BY <1>1, <1>2

LEMMA Half ==
    ASSUME NEW c \in Nat, NEW x \in Nat, x <= c \div 2
    PROVE  x <= c
<1>1. PICK q, r : q = c \div 2 /\ r = c % 2
  OBVIOUS
<1>2. q \in Nat /\ r \in 0 .. 1 /\ 2 * q + r = c
  BY <1>1, Divided
<1> QED
  BY ONLY <1>1, <1>2, x \in Nat, x <= c \div 2

LEMMA Moved ==
    ASSUME NEW r \in Seq(Byte), NEW t \in Seq(Byte), NEW d \in Seq(Byte),
           Len(d) <= Len(t), NEW u, u = Put(r \o t, Len(r), d)
    PROVE  /\ u \in Seq(Byte) /\ Len(u) = Len(r) + Len(t)
           /\ SubSeq(u, 0 + 1, Len(r) + Len(d)) = r \o d
<1>1. PICK s, l : s = r \o t /\ l = Len(r)
  OBVIOUS
<1>2. s \in Seq(Byte) /\ Len(s) = Len(r) + Len(t)
  BY <1>1, Joined
<1>3. l \in Nat /\ l + Len(d) <= Len(s) /\ u = Put(s, l, d)
  BY <1>1, <1>2
<1>4. u \in Seq(Byte) /\ Len(u) = Len(s)
  BY ONLY <1>2, <1>3, d \in Seq(Byte), PutBytes
<1>5. SubSeq(s, 0 + 1, l) = r
  <2>1. SubSeq(s, 1, l) = r
    BY ONLY <1>1, r \in Seq(Byte), t \in Seq(Byte), FirstPart
  <2> QED
    BY <2>1
<1>6. 0 \in Nat /\ 0 <= l
  BY <1>3
<1>7. SubSeq(u, 0 + 1, l + Len(d)) = SubSeq(s, 0 + 1, l) \o d
  BY ONLY <1>2, <1>3, <1>6, d \in Seq(Byte), Behind
<1> QED
  BY ONLY <1>1, <1>2, <1>4, <1>5, <1>7

LEMMA WriteEffect ==
    ASSUME RequestsAssumption, BufferOK, reused \in BOOLEAN,
           NEW data \in Seq(Byte), Write(data)
    PROVE  Written(data)
<1>1. PICK a, c, off, end, rest, n :
        /\ a = Newest /\ c = Cap /\ off = buf.off /\ end = buf.end
        /\ rest = Slice(Len(mem), buf.off, buf.end) /\ n = Len(data)
  OBVIOUS
<1>2. /\ a \in Seq(Byte) /\ a = mem[Len(mem)] /\ c = Len(a)
      /\ c \in Nat /\ off \in Nat /\ end \in Nat /\ n \in Nat
      /\ off <= end /\ end <= c /\ BufLen = end - off /\ BufLen \in Nat
      /\ rest \in Seq(Byte) /\ Len(rest) = BufLen
      /\ rest = SubSeq(a, off + 1, end)
  BY <1>1, Buffer, SMTT(20)
<1>3. /\ Len(mem) \in 1 .. Len(mem) /\ mem \in Seq(Seq(Byte)) /\ mem # <<>>
      /\ Len(mem) \in Nat
  BY Buffer DEF BufferOK
<1>4. data \in Seq(Byte) /\ n = Len(data) /\ reused \in BOOLEAN
  BY <1>1
<1>5. CASE /\ end + n <= c
           /\ mem' = [mem EXCEPT ![Len(mem)] = Put(@, end, data)]
           /\ buf' = [buf EXCEPT !.end = @ + n]
           /\ UNCHANGED reused
  <2>1. PICK new : new = Put(a, end, data)
    OBVIOUS
  <2>2. /\ new \in Seq(Byte) /\ Len(new) = c
        /\ \A k \in 1 .. end : new[k] = a[k]
    BY ONLY <1>2, <1>4, <1>5, <2>1, PutBytes, SMTT(30)
  <2>3. mem' = [mem EXCEPT ![Len(mem)] = new]
    BY ONLY <1>2, <1>3, <1>5, <2>1
  <2>4. /\ mem' \in Seq(Seq(Byte)) /\ Len(mem') = Len(mem)
        /\ mem'[Len(mem)] = new
        /\ \A i \in 1 .. Len(mem) : i # Len(mem) => mem'[i] = mem[i]
    BY ONLY <1>3, <2>2, <2>3, Replaced
  <2>5. /\ buf' \in [off : Nat, end : Nat] /\ buf'.off = off
        /\ buf'.end = end + n
    <3>1. buf \in [off : Nat, end : Nat] /\ end + n \in Nat
      BY <1>2 DEF BufferOK
    <3> QED
      BY ONLY <1>1, <1>5, <3>1
  <2>6. SubSeq(new, off + 1, end + n) = rest \o data
    <3>1. /\ end + Len(data) <= Len(a) /\ a \in Seq(Byte) /\ off \in Nat
          /\ end \in Nat /\ off <= end /\ data \in Seq(Byte)
      BY ONLY <1>2, <1>4, <1>5
    <3>2. SubSeq(new, off + 1, end + Len(data))
            = SubSeq(a, off + 1, end) \o data
      BY ONLY <2>1, <3>1, Behind
    <3> QED
      BY ONLY <1>2, <1>4, <3>2
  <2>7. \A i \in 1 .. Len(mem) : Len(mem'[i]) = Len(mem[i])
    BY ONLY <1>2, <2>2, <2>4
  <2>8. buf'.off <= buf'.end /\ buf'.end <= Len(new)
    BY ONLY <1>2, <1>5, <2>2, <2>5, SMTT(30)
  <2>9. \A k \in 1 .. off : new[k] = a[k]
    BY ONLY <1>2, <2>2
  <2> QED
    BY ONLY <1>1, <1>2, <1>5, <2>4, <2>5, <2>6, <2>7, <2>8, <2>9 DEF Written
<1>6. CASE /\ (BufLen = 0 /\ n <= c) \/ (n + BufLen <= c \div 2)
           /\ mem' = [mem EXCEPT ![Len(mem)] =
                        Put(rest \o SubSeq(@, BufLen + 1, c), BufLen, data)]
           /\ buf' = [off |-> 0, end |-> BufLen + n]
           /\ reused' = TRUE
  <2>1. PICK l, tl, new : /\ l = BufLen /\ tl = SubSeq(a, l + 1, c)
                          /\ new = Put(rest \o tl, l, data)
    OBVIOUS
  <2>2. l \in Nat /\ l = Len(rest) /\ l <= c /\ l + n <= c
    <3>1. l \in Nat /\ l = Len(rest) /\ l <= c
      BY ONLY <1>2, <2>1
    <3>2. \/ l = 0 /\ n <= c
          \/ n + l <= c \div 2
      BY ONLY <1>6, <2>1
    <3>3. c \in Nat /\ n \in Nat
      BY ONLY <1>2
    <3>4. n + l <= c \div 2 => n + l <= c
      BY ONLY <3>1, <3>3, Half
    <3> QED
      BY ONLY <3>1, <3>2, <3>3, <3>4
  <2>3. tl \in Seq(Byte) /\ Len(tl) = c - l
    <3>1. l \in Nat /\ c \in l .. Len(a) /\ a \in Seq(Byte)
      BY ONLY <1>2, <2>2
    <3> QED
      BY ONLY <2>1, <3>1, Cut
  <2>4. rest \in Seq(Byte) /\ tl \in Seq(Byte) /\ data \in Seq(Byte)
    BY ONLY <1>2, <1>4, <2>3
  <2>5. Len(data) <= Len(tl) /\ new = Put(rest \o tl, Len(rest), data)
    BY ONLY <1>2, <1>4, <2>1, <2>2, <2>3
  <2>6. /\ new \in Seq(Byte) /\ Len(new) = c
        /\ SubSeq(new, 0 + 1, l + n) = rest \o data
    <3>1. /\ new \in Seq(Byte) /\ Len(new) = Len(rest) + Len(tl)
          /\ SubSeq(new, 0 + 1, Len(rest) + Len(data)) = rest \o data
      BY ONLY <2>4, <2>5, Moved, ZenonT(30)
    <3>2. Len(rest) = l /\ Len(data) = n
      BY ONLY <1>4, <2>2
    <3>3. l + (c - l) = c
      BY ONLY <1>2, <2>2
    <3>4. Len(rest) + Len(tl) = c
      BY ONLY <2>3, <3>2, <3>3
    <3> QED
      BY ONLY <3>1, <3>2, <3>4
  <2>7. mem' = [mem EXCEPT ![Len(mem)] = new]
    BY ONLY <1>2, <1>3, <1>6, <2>1
  <2>8. /\ mem' \in Seq(Seq(Byte)) /\ Len(mem') = Len(mem)
        /\ mem'[Len(mem)] = new
        /\ \A i \in 1 .. Len(mem) : i # Len(mem) => mem'[i] = mem[i]
    BY ONLY <1>3, <2>6, <2>7, Replaced
  <2>9. \A i \in 1 .. Len(mem) : Len(mem'[i]) = Len(mem[i])
    BY ONLY <1>2, <2>6, <2>8
  <2>10. /\ buf' \in [off : Nat, end : Nat] /\ buf'.off = 0
         /\ buf'.end = l + n /\ buf'.off <= buf'.end /\ buf'.end <= Len(new)
    <3>1. l + n \in Nat /\ 0 <= l + n /\ l + n <= Len(new) /\ 0 \in Nat
      <4>1. l \in Nat /\ n \in Nat /\ c \in Nat
        BY ONLY <1>2, <2>2
      <4> QED
        BY ONLY <2>2, <2>6, <4>1
    <3>2. buf' = [off |-> 0, end |-> l + n]
      BY ONLY <1>6, <2>1
    <3> QED
      BY ONLY <3>1, <3>2
  <2> QED
    BY ONLY <1>1, <1>6, <2>6, <2>8, <2>9, <2>10 DEF Written
<1>7. CASE /\ \E new : /\ new = IF c = 0 /\ n <= Small THEN Small ELSE 2 * c + n
                       /\ mem' = Append(mem, Put(rest \o Zeros(new - BufLen),
                                                 BufLen, data))
           /\ buf' = [off |-> 0, end |-> BufLen + n]
           /\ UNCHANGED reused
  <2>1. PICK new : /\ new = IF c = 0 /\ n <= Small THEN Small ELSE 2 * c + n
                   /\ mem' = Append(mem, Put(rest \o Zeros(new - BufLen),
                                             BufLen, data))
    BY ONLY <1>7
  <2>2. PICK l, tl, arr : /\ l = BufLen /\ tl = Zeros(new - l)
                          /\ arr = Put(rest \o tl, l, data)
    OBVIOUS
  <2>3. l \in Nat /\ l = Len(rest) /\ new \in Nat /\ l + n <= new
    <3>1. Small \in Nat
      BY DEF RequestsAssumption
    <3>2. l \in Nat /\ l = Len(rest) /\ l <= c
      BY ONLY <1>2, <2>2
    <3>3. CASE c = 0 /\ n <= Small
      BY ONLY <1>2, <2>1, <3>1, <3>2, <3>3
    <3>4. CASE ~(c = 0 /\ n <= Small)
      <4>1. new = 2 * c + n
        BY ONLY <2>1, <3>4
      <4> QED
        BY ONLY <1>2, <3>2, <4>1
    <3> QED
      BY ONLY <3>3, <3>4
  <2>4. tl \in Seq(Byte) /\ Len(tl) = new - l
    <3>1. PICK z : z = new - l
      OBVIOUS
    <3>2. z \in Nat
      BY ONLY <1>2, <2>3, <3>1
    <3>3. tl = [i \in 1 .. z |-> 0] /\ 0 \in Byte
      BY ONLY <2>2, <3>1 DEF Zeros, Byte
    <3> QED
      BY ONLY <3>1, <3>2, <3>3
  <2>5. rest \in Seq(Byte) /\ tl \in Seq(Byte) /\ data \in Seq(Byte)
    BY ONLY <1>2, <1>4, <2>4
  <2>6. Len(data) <= Len(tl) /\ arr = Put(rest \o tl, Len(rest), data)
    BY ONLY <1>2, <1>4, <2>2, <2>3, <2>4
  <2>7. /\ arr \in Seq(Byte) /\ Len(arr) = new
        /\ SubSeq(arr, 0 + 1, l + n) = rest \o data
    <3>1. /\ arr \in Seq(Byte) /\ Len(arr) = Len(rest) + Len(tl)
          /\ SubSeq(arr, 0 + 1, Len(rest) + Len(data)) = rest \o data
      BY ONLY <2>5, <2>6, Moved, ZenonT(30)
    <3>2. Len(rest) = l /\ Len(data) = n /\ Len(rest) + Len(tl) = new
      BY ONLY <1>2, <1>4, <2>3, <2>4
    <3> QED
      BY ONLY <3>1, <3>2
  <2>8. mem' = Append(mem, arr)
    BY ONLY <2>1, <2>2
  <2>9. /\ mem' \in Seq(Seq(Byte)) /\ Len(mem') = Len(mem) + 1
        /\ mem'[Len(mem')] = arr
        /\ \A i \in 1 .. Len(mem) : mem'[i] = mem[i]
    BY ONLY <1>3, <2>7, <2>8
  <2>10. /\ buf' \in [off : Nat, end : Nat] /\ buf'.off = 0
         /\ buf'.end = l + n /\ buf'.off <= buf'.end /\ buf'.end <= Len(arr)
    BY ONLY <1>2, <1>7, <2>2, <2>3, <2>7
  <2>11. Len(mem') # Len(mem)
    BY ONLY <1>3, <2>9
  <2>12. /\ \A i \in 1 .. Len(mem) : Len(mem'[i]) = Len(mem[i])
         /\ \A k \in 1 .. buf.off : mem'[Len(mem)][k] = mem[Len(mem)][k]
    BY ONLY <1>3, <2>9
  <2> QED
    BY ONLY <1>1, <1>7, <2>7, <2>9, <2>10, <2>11, <2>12 DEF Written
<1>8. \/ /\ end + n <= c
         /\ mem' = [mem EXCEPT ![Len(mem)] = Put(@, end, data)]
         /\ buf' = [buf EXCEPT !.end = @ + n]
         /\ UNCHANGED reused
      \/ /\ (BufLen = 0 /\ n <= c) \/ (n + BufLen <= c \div 2)
         /\ mem' = [mem EXCEPT ![Len(mem)] =
                      Put(rest \o SubSeq(@, BufLen + 1, c), BufLen, data)]
         /\ buf' = [off |-> 0, end |-> BufLen + n]
         /\ reused' = TRUE
      \/ /\ \E new : /\ new = IF c = 0 /\ n <= Small THEN Small ELSE 2 * c + n
                     /\ mem' = Append(mem, Put(rest \o Zeros(new - BufLen),
                                               BufLen, data))
         /\ buf' = [off |-> 0, end |-> BufLen + n]
         /\ UNCHANGED reused
  BY ONLY <1>1, Write(data) DEF Write
<1> QED
  BY ONLY <1>5, <1>6, <1>7, <1>8

-----------------------------------------------------------------------------
(* The types in three parts, and the objects of the jobs.                   *)
ReaderOK == /\ unread \in Seq(Byte) /\ BufferOK
            /\ unpacking \in BOOLEAN /\ misread \in BOOLEAN
            /\ reused \in BOOLEAN /\ panic \in BOOLEAN
            /\ opened \in Seq(Frames)
ObjectsOK == /\ req \in Seq(Objects)
             /\ \A r \in DOMAIN req : /\ req[r].array \in DOMAIN mem
                                      /\ req[r].to <= Len(mem[req[r].array])
             /\ pool \subseteq DOMAIN req
             /\ jobs \in Seq(DOMAIN req) /\ Len(jobs) <= WorkCap
             /\ writeChan \in Seq(DOMAIN req) /\ Len(writeChan) <= WriteCap
WorkersOK == /\ at \in [Workers -> {"idle", "auth", "forward", "put"}]
             /\ hand \in [Workers -> DOMAIN req \cup {NoReq}]
             /\ \A w \in Workers : at[w] # "idle" => hand[w] # NoReq
             /\ auth \in BOOLEAN /\ handled \in Seq(Frames)

LEMMA Parts == RequestsInv <=> ReaderOK /\ ObjectsOK /\ WorkersOK /\ OwnedOnce
BY DEF RequestsInv, RequestsTypeOK, ReaderOK, BufferOK, ObjectsOK, WorkersOK

LEMMA FirstTaken ==
    ASSUME NEW S, NEW s \in Seq(S), s # <<>>, NEW t, t = Tail(s)
    PROVE  /\ t \in Seq(S) /\ Len(t) = Len(s) - 1 /\ Head(s) \in S
           /\ Len(s) \in Nat \ {0} /\ Head(s) = s[1]
           /\ \A i \in 1 .. Len(t) : t[i] = s[i + 1]
           /\ Head(s) \in Range(s) /\ Range(t) \subseteq Range(s)
           /\ IsInjective(s) => IsInjective(t) /\ Head(s) \notin Range(t)
<1>1. /\ t \in Seq(S) /\ Len(t) = Len(s) - 1 /\ Head(s) \in S
      /\ \A i \in 1 .. Len(t) : t[i] = s[i + 1]
  BY HeadTailProperties
<1>2. Len(s) \in Nat \ {0} /\ Head(s) = s[1]
  BY EmptySeq
<1>3. DOMAIN s = 1 .. Len(s) /\ DOMAIN t = 1 .. Len(t)
  BY <1>1
<1>4. /\ 1 \in 1 .. Len(s)
      /\ \A i \in 1 .. Len(t) : i + 1 \in 1 .. Len(s) /\ i + 1 # 1
  BY <1>1, <1>2
<1>5. Head(s) \in Range(s)
  BY ONLY <1>2, <1>3, <1>4 DEF Range
<1>6. Range(t) \subseteq Range(s)
  BY ONLY <1>1, <1>3, <1>4 DEF Range
<1>7. ASSUME IsInjective(s) PROVE IsInjective(t)
  <2>1. ASSUME NEW i \in 1 .. Len(t), NEW j \in 1 .. Len(t), t[i] = t[j]
        PROVE  i = j
    <3>1. i + 1 = j + 1
      BY ONLY <1>1, <1>3, <1>4, <1>7, <2>1, SMTT(30) DEF IsInjective
    <3> QED
      BY <3>1
  <2> QED
    BY ONLY <1>3, <2>1 DEF IsInjective
<1>8. ASSUME IsInjective(s), Head(s) \in Range(t) PROVE FALSE
  <2>1. PICK i \in 1 .. Len(t) : t[i] = s[1]
    BY ONLY <1>2, <1>3, <1>8 DEF Range
  <2>2. i + 1 = 1
    BY ONLY <1>1, <1>3, <1>4, <1>8, <2>1 DEF IsInjective
  <2> QED
    BY <2>2
<1> QED
  BY ONLY <1>1, <1>2, <1>5, <1>6, <1>7, <1>8

LEMMA LastPut ==
    ASSUME NEW S, NEW s \in Seq(S), NEW e \in S, NEW t \in Seq(S),
           Len(t) = Len(s) + 1, t[Len(s) + 1] = e,
           \A i \in 1 .. Len(s) : t[i] = s[i]
    PROVE  /\ Range(t) = Range(s) \cup {e}
           /\ IsInjective(s) /\ e \notin Range(s) => IsInjective(t)
<1>1. DOMAIN s = 1 .. Len(s) /\ DOMAIN t = 1 .. Len(s) + 1 /\ Len(s) \in Nat
  OBVIOUS
<1>2. \A i : i \in 1 .. Len(s) + 1 <=> i \in 1 .. Len(s) \/ i = Len(s) + 1
  BY <1>1
<1>3. Range(t) = Range(s) \cup {e}
  BY <1>1, <1>2 DEF Range
<1>4. ASSUME IsInjective(s), e \notin Range(s) PROVE IsInjective(t)
  <2>1. \A i \in 1 .. Len(s) : s[i] # e
    BY <1>1, <1>4 DEF Range
  <2>2. ASSUME NEW i \in DOMAIN t, NEW j \in DOMAIN t, t[i] = t[j] PROVE i = j
    BY <1>1, <1>2, <1>4, <2>1, <2>2 DEF IsInjective
  <2> QED
    BY <2>2 DEF IsInjective
<1> QED
  BY <1>3, <1>4

LEMMA BodyType ==
    ASSUME ReaderOK, ObjectsOK, NEW r \in DOMAIN req
    PROVE  /\ req[r] \in Objects /\ req[r].type \in Uint16s
           /\ Body(r) \in Seq(Byte)
           /\ [type |-> req[r].type, body |-> Body(r)] \in Frames
<1>1. req[r] \in Objects
  BY DEF ObjectsOK
<1>2. PICK a, f, e : a = mem[req[r].array] /\ f = req[r].from /\ e = req[r].to
  OBVIOUS
<1>3. a \in Seq(Byte)
  BY <1>2 DEF ObjectsOK, ReaderOK, BufferOK
<1>4. f \in Nat /\ e \in Nat /\ e <= Len(a) /\ f + 1 \in Int /\ e \in Int
  BY <1>1, <1>2 DEF Objects, ObjectsOK
<1>5. \A i \in f + 1 .. e : a[i] \in Byte
  BY ONLY <1>3, <1>4
<1>6. SubSeq(a, f + 1, e) \in Seq(Byte)
  BY ONLY <1>4, <1>5, SubSeqProperties
<1>7. Body(r) \in Seq(Byte)
  BY ONLY <1>2, <1>6 DEF Body, Slice
<1>8. req[r].type \in Uint16s
  BY <1>1 DEF Objects
<1> QED
  BY ONLY <1>1, <1>7, <1>8 DEF Frames

LEMMA Hold ==
    ASSUME WorkersOK, NEW w \in Workers, at[w] # "idle"
    PROVE  hand[w] \in DOMAIN req /\ hand[w] \in Hands
<1>1. hand[w] \in DOMAIN req
  BY DEF WorkersOK
<1>2. hand[w] \in Hands
  BY DEF Hands
<1> QED
  BY <1>1, <1>2

-----------------------------------------------------------------------------
(* The reader's steps keep the types and the owners.                        *)
LEMMA ReadKeeps ==
    ASSUME RequestsAssumption, RequestsInv, NEW n \in Reads, Read(n)
    PROVE  RequestsInv'
<1>1. ReaderOK /\ ObjectsOK /\ WorkersOK /\ OwnedOnce
  BY Parts
<1>2. PICK data : data = SubSeq(unread, 1, n)
  OBVIOUS
<1>3. n \in Nat \ {0} /\ n <= Len(unread)
  BY DEF RequestsAssumption, Read
<1>4. data \in Seq(Byte)
  <2>1. unread \in Seq(Byte) /\ 0 \in Nat /\ n \in 0 .. Len(unread)
    BY <1>1, <1>3 DEF ReaderOK
  <2>2. data = SubSeq(unread, 0 + 1, n)
    BY <1>2
  <2> QED
    BY ONLY <2>1, <2>2, Cut
<1>5. unread' \in Seq(Byte)
  <2>1. /\ unread \in Seq(Byte) /\ n \in Nat
        /\ Len(unread) \in n .. Len(unread)
    BY <1>1, <1>3 DEF ReaderOK
  <2>2. unread' = SubSeq(unread, n + 1, Len(unread))
    BY DEF Read
  <2> QED
    BY ONLY <2>1, <2>2, Cut
<1>6. Written(data)
  <2>1. Write(data) /\ BufferOK /\ reused \in BOOLEAN
    BY <1>1, <1>2 DEF Read, ReaderOK
  <2> QED
    BY <1>4, <2>1, WriteEffect
<1>7. /\ unpacking' = TRUE
      /\ UNCHANGED <<workVars, req, pool, jobs, writeChan, panic, opened,
                     misread>>
  BY DEF Read
<1>8. ReaderOK'
  <2>1. BufferOK'
    <3>1. /\ mem' \in Seq(Seq(Byte)) /\ Len(mem') \in {Len(mem), Len(mem) + 1}
          /\ buf' \in [off : Nat, end : Nat] /\ buf'.off <= buf'.end
          /\ buf'.end <= Len(mem'[Len(mem')])
      BY ONLY <1>6 DEF Written
    <3>2. Len(mem) \in Nat \ {0}
      BY <1>1, EmptySeq DEF ReaderOK, BufferOK
    <3>3. mem' # <<>>
      BY ONLY <3>1, <3>2, EmptySeq
    <3> QED
      BY ONLY <3>1, <3>3 DEF BufferOK, Cap, Newest
  <2>2. reused' \in BOOLEAN
    BY <1>1, <1>6 DEF Written, ReaderOK
  <2> QED
    BY ONLY <1>1, <1>5, <1>7, <2>1, <2>2 DEF ReaderOK
<1>9. ObjectsOK'
  <2>1. /\ DOMAIN mem = 1 .. Len(mem) /\ DOMAIN mem' = 1 .. Len(mem')
        /\ Len(mem') \in {Len(mem), Len(mem) + 1} /\ Len(mem) \in Nat
    BY <1>1, <1>6 DEF ReaderOK, BufferOK, Written
  <2>2. \A i \in DOMAIN mem : i \in DOMAIN mem' /\ Len(mem'[i]) = Len(mem[i])
    <3>1. \A i \in 1 .. Len(mem) : Len(mem'[i]) = Len(mem[i])
      BY ONLY <1>6 DEF Written
    <3>2. \A j, l : j \in Nat /\ l \in {j, j + 1} => 1 .. j \subseteq 1 .. l
      OBVIOUS
    <3>3. 1 .. Len(mem) \subseteq 1 .. Len(mem')
      BY ONLY <2>1, <3>2
    <3> QED
      BY ONLY <2>1, <3>1, <3>3
  <2> QED
    BY ONLY <1>1, <1>7, <2>2 DEF ObjectsOK
<1>10. WorkersOK'
  BY ONLY <1>1, <1>7 DEF WorkersOK, workVars, NoReq
<1>11. OwnedOnce'
  BY ONLY <1>1, <1>7 DEF OwnedOnce, workVars, Hands
<1> QED
  BY ONLY <1>8, <1>9, <1>10, <1>11, Parts, PTL

(* What Unpack reads in the header.                                         *)
LEMMA Header ==
    ASSUME BufferOK, Ready, ~ OutOfRange
    PROVE  /\ \A i \in 1 .. 6 : Newest[buf.off + i] \in Byte
           /\ Uint16(buf.off)
                = 256 * Newest[buf.off + 1] + Newest[buf.off + 2]
           /\ BodyLen = Word * (256 * Newest[buf.off + 3]
                                  + Newest[buf.off + 4])
                          + (256 * Newest[buf.off + 5] + Newest[buf.off + 6])
           /\ Uint16(buf.off) \in Uint16s /\ BodyLen \in Nat
           /\ Next7 = buf.off + 7 + BodyLen /\ Next7 \in Nat /\ Next7 <= Cap
<1>1. PICK a, o : a = Newest /\ o = buf.off
  OBVIOUS
<1>2. /\ a \in Seq(Byte) /\ o \in Nat /\ Cap = Len(a) /\ Len(a) \in Nat
  BY <1>1, Buffer
<1>3. o + 6 <= Len(a)
  BY <1>1, <1>2 DEF OutOfRange, HeaderCut
<1>4. \A i \in 1 .. 6 : o + i \in 1 .. Len(a)
  BY ONLY <1>2, <1>3
<1>5. \A i \in 1 .. 6 : a[o + i] \in Byte
  BY ONLY <1>2, <1>4
<1>6. Uint16(o) = 256 * a[o + 1] + a[o + 2]
  BY ONLY <1>1 DEF Uint16
<1>7. BodyLen = Word * (256 * a[o + 3] + a[o + 4]) + (256 * a[o + 5] + a[o + 6])
  <2>1. /\ (o + 2) + 1 = o + 3 /\ (o + 2) + 2 = o + 4
        /\ ((o + 2) + 2) + 1 = o + 5 /\ ((o + 2) + 2) + 2 = o + 6
    BY ONLY <1>2
  <2>2. /\ Uint16(o + 2) = 256 * a[o + 3] + a[o + 4]
        /\ Uint16((o + 2) + 2) = 256 * a[o + 5] + a[o + 6]
    BY ONLY <1>1, <2>1 DEF Uint16
  <2> QED
    BY ONLY <1>1, <2>2 DEF BodyLen, Uint32
<1>8. \A i \in 1 .. 6 : a[o + i] \in 0 .. 255
  BY ONLY <1>5 DEF Byte
<1>9. PICK b1, b2, b3, b4, b5, b6 :
        /\ b1 = a[o + 1] /\ b2 = a[o + 2] /\ b3 = a[o + 3]
        /\ b4 = a[o + 4] /\ b5 = a[o + 5] /\ b6 = a[o + 6]
  OBVIOUS
<1>10. /\ b1 \in 0 .. 255 /\ b2 \in 0 .. 255 /\ b3 \in 0 .. 255
       /\ b4 \in 0 .. 255 /\ b5 \in 0 .. 255 /\ b6 \in 0 .. 255
  BY ONLY <1>8, <1>9
<1>11. Uint16(o) \in Uint16s
  <2>1. b1 \in Nat /\ b2 \in Nat /\ b1 <= 255 /\ b2 <= 255
    BY ONLY <1>10
  <2>2. 256 * b1 + b2 \in Nat /\ 256 * b1 + b2 < 256 * 256
    BY ONLY <2>1
  <2>3. \A x, y : x \in Nat /\ y \in Nat /\ x < y => x \in 0 .. y - 1
    OBVIOUS
  <2>4. Word = 256 * 256 /\ Word \in Nat
    BY DEF Word
  <2>5. 256 * b1 + b2 \in 0 .. Word - 1
    BY ONLY <2>2, <2>3, <2>4, Zenon
  <2> QED
    BY ONLY <1>6, <1>9, <2>5 DEF Uint16s
<1>12. BodyLen \in Nat
  <2>1. PICK h, l : h = 256 * b3 + b4 /\ l = 256 * b5 + b6
    OBVIOUS
  <2>2. h \in Nat /\ l \in Nat
    BY ONLY <1>10, <2>1
  <2>3. Word * h + l \in Nat
    BY ONLY <2>2 DEF Word
  <2> QED
    BY ONLY <1>7, <1>9, <2>1, <2>3
<1>13. Next7 = o + 7 + BodyLen
  BY ONLY <1>1 DEF Next7
<1>14. Next7 \in Nat
  BY ONLY <1>2, <1>12, <1>13
<1>15. Next7 <= Cap
  BY ONLY <1>2, <1>14, ~ OutOfRange DEF OutOfRange
<1> QED
  BY ONLY <1>1, <1>5, <1>6, <1>7, <1>11, <1>12, <1>13, <1>14, <1>15

(* Unpack makes a Request of the pool, or a new one, that of the frame.     *)
Made(r) == [type |-> Uint16(buf.off), len |-> BodyLen, array |-> Len(mem),
            from |-> buf.off + 7, to |-> Next7]

LEMMA UnpackMakes ==
    ASSUME ReaderOK, ObjectsOK, NEW r \in 1 .. Len(req) + 1, Unpack(r)
    PROVE  /\ Made(r) \in Objects /\ req' \in Seq(Objects)
           /\ Made(r).type = Uint16(buf.off) /\ Made(r).array = Len(mem)
           /\ Made(r).from = buf.off + 7 /\ Made(r).to = Next7
           /\ DOMAIN req' = DOMAIN req \cup {r} /\ req'[r] = Made(r)
           /\ \A q \in DOMAIN req : q # r => req'[q] = req[q]
<1>1. BufferOK /\ Ready /\ ~ OutOfRange
  BY DEF ReaderOK, Unpack
<1>2. /\ Uint16(buf.off) \in Uint16s /\ BodyLen \in Nat /\ Next7 \in Nat
  BY ONLY <1>1, Header
<1>3. buf.off \in Nat /\ Len(mem) \in Nat /\ buf.off + 7 \in Nat
  <2>1. buf.off \in Nat /\ Len(mem) \in DOMAIN mem /\ DOMAIN mem = 1 .. Len(mem)
    BY ONLY <1>1, Buffer
  <2> QED
    BY <1>1, <2>1 DEF BufferOK
<1>4. PICK new : new = Made(r)
  OBVIOUS
<1>5. /\ new \in Objects /\ new.type = Uint16(buf.off) /\ new.array = Len(mem)
      /\ new.from = buf.off + 7 /\ new.to = Next7
  BY ONLY <1>2, <1>3, <1>4 DEF Made, Objects
<1>6. req' = IF r \in DOMAIN req THEN [req EXCEPT ![r] = new]
             ELSE Append(req, new)
  BY <1>4 DEF Unpack, Made
<1>7. req \in Seq(Objects) /\ Len(req) \in Nat /\ DOMAIN req = 1 .. Len(req)
  BY DEF ObjectsOK
<1>8. CASE r \in DOMAIN req
  <2>1. r \in 1 .. Len(req) /\ req' = [req EXCEPT ![r] = new]
    BY ONLY <1>6, <1>7, <1>8
  <2>2. /\ req' \in Seq(Objects) /\ Len(req') = Len(req)
        /\ \A q \in 1 .. Len(req) : req'[q] = IF q = r THEN new ELSE req[q]
    BY ONLY <1>5, <1>7, <2>1, ExceptSeq
  <2>3. DOMAIN req' = DOMAIN req \cup {r}
    <3>1. DOMAIN req' = 1 .. Len(req')
      BY ONLY <2>2
    <3> QED
      BY ONLY <1>7, <1>8, <2>2, <3>1
  <2> QED
    BY ONLY <1>4, <1>5, <1>7, <1>8, <2>2, <2>3
<1>9. CASE r \notin DOMAIN req
  <2>0. \A l : l \in Nat /\ r \in 1 .. l + 1 /\ r \notin 1 .. l => r = l + 1
    OBVIOUS
  <2>1. r = Len(req) + 1 /\ req' = Append(req, new)
    BY ONLY <1>6, <1>7, <1>9, <2>0, r \in 1 .. Len(req) + 1
  <2>2. /\ req' \in Seq(Objects) /\ Len(req') = Len(req) + 1
        /\ req'[Len(req) + 1] = new
        /\ \A q \in 1 .. Len(req) : req'[q] = req[q]
    BY ONLY <1>5, <1>7, <2>1
  <2>3. DOMAIN req' = DOMAIN req \cup {r}
    <3>1. DOMAIN req' = 1 .. Len(req) + 1
      BY ONLY <2>2
    <3>2. \A q : q \in 1 .. Len(req) + 1
                    <=> q \in 1 .. Len(req) \/ q = Len(req) + 1
      BY ONLY <1>7
    <3> QED
      BY ONLY <1>7, <2>1, <3>1, <3>2
  <2> QED
    BY ONLY <1>4, <1>5, <1>7, <2>1, <2>2, <2>3
<1> QED
  BY ONLY <1>8, <1>9

LEMMA UnpackOpens ==
    ASSUME ReaderOK, NEW r, Unpack(r)
    PROVE  \E frame \in Frames :
               /\ opened' = Append(opened, frame)
               /\ frame.type = Uint16(buf.off)
               /\ frame.body = SubSeq(Newest, buf.off + 7 + 1, Next7)
               /\ frame.body \in Seq(Byte) /\ Len(frame.body) = BodyLen
               /\ \A i \in 1 .. BodyLen :
                     frame.body[i] = Newest[(buf.off + 7) + i]
<1>1. BufferOK /\ Ready /\ ~ OutOfRange
  BY DEF ReaderOK, Unpack
<1>2. PICK a, f, e, o : a = Newest /\ o = buf.off /\ f = o + 7 /\ e = Next7
  OBVIOUS
<1>3. /\ a \in Seq(Byte) /\ a = mem[Len(mem)] /\ o \in Nat
      /\ Cap = Len(a) /\ Len(a) \in Nat
  BY ONLY <1>1, <1>2, Buffer
<1>4. /\ Uint16(o) \in Uint16s /\ BodyLen \in Nat
      /\ e = o + 7 + BodyLen /\ e <= Cap
  BY ONLY <1>1, <1>2, Header
<1>5. f \in Nat /\ e \in f .. Len(a) /\ e - f = BodyLen
  BY ONLY <1>2, <1>3, <1>4
<1>6. PICK frame : frame = [type |-> Uint16(o), body |-> SubSeq(a, f + 1, e)]
  OBVIOUS
<1>7. /\ frame.type = Uint16(o) /\ frame.body = SubSeq(a, f + 1, e)
  BY ONLY <1>6
<1>8. /\ frame.body \in Seq(Byte) /\ Len(frame.body) = e - f
      /\ \A i \in 1 .. e - f : frame.body[i] = a[f + i]
  BY ONLY <1>3, <1>5, <1>7, Cut
<1>9. frame \in Frames
  BY ONLY <1>4, <1>6, <1>7, <1>8 DEF Frames
<1>10. opened' = Append(opened, frame)
  <2>1. opened' = Append(opened, [type |-> Uint16(buf.off), body |->
                                   Slice(Len(mem), buf.off + 7, Next7)])
    BY DEF Unpack
  <2> QED
    BY ONLY <1>2, <1>3, <1>6, <2>1 DEF Slice
<1> QED
  BY ONLY <1>2, <1>5, <1>7, <1>8, <1>9, <1>10

LEMMA NotInJobs ==
    ASSUME RequestsInv, NEW r, Unpack(r)
    PROVE  r \notin Range(jobs) /\ r \notin Hands
<1>1. ObjectsOK /\ WorkersOK /\ OwnedOnce
  BY Parts
<1>2. Get(r)
  BY DEF Unpack
<1>3. Range(jobs) \subseteq DOMAIN req
  <2>1. jobs \in Seq(DOMAIN req)
    BY ONLY <1>1 DEF ObjectsOK
  <2> QED
    BY ONLY <2>1 DEF Range
<1>4. Hands \subseteq DOMAIN req
  BY ONLY <1>1 DEF Hands, WorkersOK
<1>5. Range(jobs) \cap pool = {} /\ Hands \cap pool = {}
  BY ONLY <1>1 DEF OwnedOnce
<1>6. r \in pool \/ r \notin DOMAIN req
  <2>1. req \in Seq(Objects)
    BY ONLY <1>1 DEF ObjectsOK
  <2>2. Len(req) + 1 \notin DOMAIN req
    BY ONLY <2>1
  <2> QED
    BY ONLY <1>2, <2>2 DEF Get
<1> QED
  BY ONLY <1>3, <1>4, <1>5, <1>6

LEMMA UnpackKeeps ==
    ASSUME RequestsAssumption, RequestsInv,
           NEW r \in 1 .. Len(req) + 1, Unpack(r)
    PROVE  RequestsInv'
<1>1. ReaderOK /\ ObjectsOK /\ WorkersOK /\ OwnedOnce
  BY Parts
<1>2. /\ req' \in Seq(Objects) /\ DOMAIN req' = DOMAIN req \cup {r}
      /\ req'[r].array = Len(mem) /\ req'[r].to = Next7
      /\ \A q \in DOMAIN req : q # r => req'[q] = req[q]
  BY ONLY <1>1, r \in 1 .. Len(req) + 1, Unpack(r), UnpackMakes
<1>3. /\ Get(r) /\ Len(jobs) < WorkCap /\ pool' = pool \ {r}
      /\ jobs' = Append(jobs, r)
      /\ UNCHANGED <<workVars, unread, mem, unpacking, reused, writeChan,
                     panic>>
      /\ misread' = (misread \/ BufLen < 7 + BodyLen)
      /\ buf' = [buf EXCEPT !.off = IF Next7 < buf.end THEN Next7 ELSE buf.end]
  BY DEF Unpack
<1>4. BufferOK /\ Ready /\ ~ OutOfRange
  BY DEF Unpack, Parts, RequestsInv, RequestsTypeOK, BufferOK
<1>5. Next7 \in Nat /\ Next7 <= Cap
  BY ONLY <1>4, Header
<1>6. ReaderOK'
  <2>1. /\ buf' \in [off : Nat, end : Nat] /\ buf'.off <= buf'.end
        /\ buf'.end = buf.end
    <3>1. PICK o : o = IF Next7 < buf.end THEN Next7 ELSE buf.end
      OBVIOUS
    <3>2. buf.end \in Nat
      BY ONLY <1>4, Buffer
    <3>3. o \in Nat /\ o <= buf.end
      BY ONLY <1>5, <3>1, <3>2
    <3>4. buf' = [buf EXCEPT !.off = o] /\ buf \in [off : Nat, end : Nat]
      BY ONLY <1>3, <1>4, <3>1 DEF BufferOK
    <3> QED
      BY ONLY <3>2, <3>3, <3>4
  <2>2. BufferOK'
    BY ONLY <1>3, <1>4, <2>1 DEF BufferOK, Cap, Newest
  <2>3. opened' \in Seq(Frames)
    <3>1. PICK frame \in Frames : opened' = Append(opened, frame)
      BY ONLY <1>1, Unpack(r), UnpackOpens
    <3>2. opened \in Seq(Frames)
      BY ONLY <1>1 DEF ReaderOK
    <3> QED
      BY ONLY <3>1, <3>2
  <2>4. misread' \in BOOLEAN
    BY ONLY <1>3
  <2> QED
    BY ONLY <1>1, <1>3, <2>2, <2>3, <2>4 DEF ReaderOK
<1>7. r \notin Range(jobs) /\ r \notin Hands
  BY ONLY RequestsInv, Unpack(r), NotInJobs
<1>8. /\ jobs \in Seq(DOMAIN req') /\ writeChan \in Seq(DOMAIN req')
      /\ r \in DOMAIN req' /\ DOMAIN req \subseteq DOMAIN req'
  <2>1. DOMAIN req \subseteq DOMAIN req' /\ r \in DOMAIN req'
    BY ONLY <1>2
  <2>2. jobs \in Seq(DOMAIN req) /\ writeChan \in Seq(DOMAIN req)
    BY ONLY <1>1 DEF ObjectsOK
  <2> QED
    BY ONLY <2>1, <2>2, SeqMonotonic
<1>9. /\ jobs' \in Seq(DOMAIN req') /\ Len(jobs') = Len(jobs) + 1
      /\ Range(jobs') = Range(jobs) \cup {r}
      /\ IsInjective(jobs) => IsInjective(jobs')
  <2>1. /\ jobs' = Append(jobs, r) /\ r \notin Range(jobs)
        /\ jobs \in Seq(DOMAIN req') /\ r \in DOMAIN req'
    BY ONLY <1>3, <1>7, <1>8
  <2>2. /\ jobs' \in Seq(DOMAIN req') /\ Len(jobs') = Len(jobs) + 1
        /\ jobs'[Len(jobs) + 1] = r
        /\ \A i \in 1 .. Len(jobs) : jobs'[i] = jobs[i]
    BY ONLY <2>1
  <2>3. /\ Range(jobs') = Range(jobs) \cup {r}
        /\ IsInjective(jobs) /\ r \notin Range(jobs) => IsInjective(jobs')
    BY ONLY <1>8, <2>2, LastPut
  <2> QED
    BY ONLY <1>7, <2>2, <2>3
<1>10. ObjectsOK'
  <2>1. Len(jobs') <= WorkCap
    <3>1. WorkCap \in Nat /\ Len(jobs) \in Nat
      BY <1>8 DEF RequestsAssumption
    <3> QED
      BY ONLY <1>3, <1>9, <3>1
  <2>2. \A q \in DOMAIN req' : /\ req'[q].array \in DOMAIN mem'
                               /\ req'[q].to <= Len(mem'[req'[q].array])
    <3>1. Len(mem) \in DOMAIN mem /\ Cap = Len(mem[Len(mem)])
      BY ONLY <1>4, Buffer
    <3>2. \A q \in DOMAIN req : /\ req[q].array \in DOMAIN mem
                                /\ req[q].to <= Len(mem[req[q].array])
      BY ONLY <1>1 DEF ObjectsOK
    <3>3. mem' = mem
      BY ONLY <1>3
    <3> QED
      BY ONLY <1>2, <1>5, <3>1, <3>2, <3>3
  <2>3. pool' \subseteq DOMAIN req'
    BY ONLY <1>1, <1>2, <1>3 DEF ObjectsOK
  <2>4. writeChan' \in Seq(DOMAIN req') /\ Len(writeChan') <= WriteCap
    BY ONLY <1>1, <1>3, <1>8 DEF ObjectsOK
  <2> QED
    BY ONLY <1>2, <1>9, <2>1, <2>2, <2>3, <2>4 DEF ObjectsOK
<1>11. WorkersOK'
  BY ONLY <1>1, <1>2, <1>3 DEF WorkersOK, workVars, NoReq
<1>12. OwnedOnce'
  <2>1. Hands' = Hands
    BY ONLY <1>3 DEF Hands, workVars
  <2> QED
    BY ONLY <1>1, <1>3, <1>7, <1>9, <2>1 DEF OwnedOnce, workVars
<1> QED
  BY ONLY <1>6, <1>10, <1>11, <1>12, Parts, PTL

(* ... and so do those of the workers and of the writeLoop.                 *)
LEMMA TakeJob ==
    ASSUME RequestsInv, jobs # <<>>, jobs' = Tail(jobs)
    PROVE  /\ jobs' \in Seq(DOMAIN req) /\ Len(jobs') <= WorkCap
           /\ Head(jobs) \in DOMAIN req /\ Head(jobs) \in Range(jobs)
           /\ IsInjective(jobs') /\ Range(jobs') \subseteq Range(jobs)
           /\ Head(jobs) \notin Range(jobs')
<1>1. jobs \in Seq(DOMAIN req) /\ Len(jobs) <= WorkCap /\ IsInjective(jobs)
  BY DEF RequestsInv, RequestsTypeOK, OwnedOnce
<1>2. PICK D, s, t : D = DOMAIN req /\ s = jobs /\ t = jobs'
  OBVIOUS
<1>3. s \in Seq(D) /\ s # <<>> /\ t = Tail(s)
  BY ONLY <1>1, <1>2, jobs # <<>>, jobs' = Tail(jobs)
<1>4. /\ t \in Seq(D) /\ Len(t) = Len(s) - 1 /\ Head(s) \in D
      /\ Head(s) \in Range(s) /\ Range(t) \subseteq Range(s)
      /\ IsInjective(s) => IsInjective(t) /\ Head(s) \notin Range(t)
  BY ONLY <1>3, FirstTaken
<1>5. Len(t) <= Len(s)
  BY ONLY <1>3, <1>4
<1>6. Len(jobs') <= WorkCap
  <2>1. Len(t) \in Int /\ Len(s) \in Int
    BY ONLY <1>3, <1>4
  <2>2. WorkCap \in Nat
    BY RequestsAssumption DEF RequestsAssumption
  <2> QED
    BY ONLY <1>1, <1>2, <1>5, <2>1, <2>2
<1> QED
  BY ONLY <1>1, <1>2, <1>4, <1>6

LEMMA RefuseKeeps ==
    ASSUME RequestsInv, NEW w \in Workers, Refuse(w)
    PROVE  RequestsInv'
<1>1. ReaderOK /\ ObjectsOK /\ WorkersOK /\ OwnedOnce
  BY Parts
<1>2. jobs # <<>> /\ jobs' = Tail(jobs)
      /\ UNCHANGED <<bufVars, workVars, req, pool, writeChan, panic, wire>>
  BY DEF Refuse
<1>3. /\ jobs' \in Seq(DOMAIN req) /\ Len(jobs') <= WorkCap
      /\ IsInjective(jobs') /\ Range(jobs') \subseteq Range(jobs)
  BY ONLY <1>2, RequestsInv, TakeJob
<1>4. ReaderOK'
  BY ONLY <1>1, <1>2 DEF ReaderOK, BufferOK, Cap, Newest, bufVars
<1>5. ObjectsOK'
  BY ONLY <1>1, <1>2, <1>3 DEF ObjectsOK, bufVars
<1>6. WorkersOK'
  BY ONLY <1>1, <1>2 DEF WorkersOK, workVars, NoReq
<1>7. OwnedOnce'
  <2>1. Hands' = Hands
    BY ONLY <1>2 DEF Hands, workVars
  <2> QED
    BY ONLY <1>1, <1>2, <1>3, <2>1 DEF OwnedOnce, workVars
<1> QED
  BY ONLY <1>4, <1>5, <1>6, <1>7, Parts, PTL

LEMMA StartJobKeeps ==
    ASSUME RequestsInv, NEW w \in Workers, StartJob(w)
    PROVE  RequestsInv'
<1>1. ReaderOK /\ ObjectsOK /\ WorkersOK /\ OwnedOnce
  BY Parts
<1>2. PICK r, type : r = Head(jobs) /\ type = req[r].type
  OBVIOUS
<1>3. /\ at[w] = "idle" /\ jobs # <<>> /\ jobs' = Tail(jobs)
      /\ UNCHANGED <<bufVars, auth, req, pool, writeChan, panic, wire>>
      /\ hand' = [hand EXCEPT ![w] = r]
      /\ at' = [at EXCEPT ![w] = Handler(type)]
      /\ handled' \in {handled,
                       Append(handled, [type |-> type, body |-> Body(r)])}
  BY <1>2 DEF StartJob
<1>4. /\ jobs' \in Seq(DOMAIN req) /\ Len(jobs') <= WorkCap
      /\ r \in DOMAIN req /\ r \in Range(jobs) /\ r \notin Range(jobs')
      /\ IsInjective(jobs') /\ Range(jobs') \subseteq Range(jobs)
  BY ONLY <1>2, <1>3, RequestsInv, TakeJob
<1>5. ReaderOK'
  BY ONLY <1>1, <1>3 DEF ReaderOK, BufferOK, Cap, Newest, bufVars
<1>6. ObjectsOK'
  BY ONLY <1>1, <1>3, <1>4 DEF ObjectsOK, bufVars
<1>7. Handler(type) \in {"auth", "forward", "put"}
  BY ONLY DEF Handler
<1>8. r # NoReq
  BY ONLY <1>1, <1>4 DEF ObjectsOK, NoReq
<1>9. WorkersOK'
  <2>1. /\ at' \in [Workers -> {"idle", "auth", "forward", "put"}]
        /\ hand' \in [Workers -> DOMAIN req \cup {NoReq}]
    BY ONLY <1>1, <1>3, <1>4, <1>7, w \in Workers DEF WorkersOK
  <2>2. ASSUME NEW v \in Workers, at'[v] # "idle" PROVE hand'[v] # NoReq
    <3>1. CASE v = w
      BY ONLY <1>1, <1>3, <1>8, <3>1, w \in Workers DEF WorkersOK
    <3>2. CASE v # w
      BY ONLY <1>1, <1>3, <2>2, <3>2, v \in Workers DEF WorkersOK
    <3> QED
      BY ONLY <3>1, <3>2
  <2>3. handled' \in Seq(Frames)
    <3>1. [type |-> type, body |-> Body(r)] \in Frames
      BY ONLY <1>1, <1>2, <1>4, BodyType
    <3>2. PICK e : e = [type |-> type, body |-> Body(r)]
      OBVIOUS
    <3>3. /\ handled \in Seq(Frames) /\ e \in Frames
          /\ handled' \in {handled, Append(handled, e)}
      BY ONLY <1>1, <1>3, <3>1, <3>2 DEF WorkersOK
    <3> QED
      BY ONLY <3>3
  <2> QED
    BY ONLY <1>1, <1>3, <2>1, <2>2, <2>3 DEF WorkersOK, NoReq
<1>10. OwnedOnce'
  <2>1. Hands' = Hands \cup {r}
    <3>1. ASSUME NEW v \in Workers, v # w
          PROVE  at'[v] = at[v] /\ hand'[v] = hand[v]
      BY ONLY <1>1, <1>3, <3>1 DEF WorkersOK
    <3>2. at'[w] # "idle" /\ hand'[w] = r
      BY ONLY <1>1, <1>3, <1>7, w \in Workers DEF WorkersOK
    <3> QED
      BY ONLY <1>3, <3>1, <3>2, w \in Workers DEF Hands
  <2>2. r \notin pool /\ r \notin Hands
    BY ONLY <1>1, <1>4 DEF OwnedOnce
  <2>3. ASSUME NEW u \in Workers, NEW v \in Workers, u # v,
               at'[u] # "idle", at'[v] # "idle"
        PROVE  hand'[u] # hand'[v]
    <3>1. ASSUME NEW x \in Workers, x # w
          PROVE  at'[x] = at[x] /\ hand'[x] = hand[x]
      BY ONLY <1>1, <1>3, <3>1 DEF WorkersOK
    <3>2. hand'[w] = r
      BY ONLY <1>1, <1>3, w \in Workers DEF WorkersOK
    <3>3. ASSUME NEW x \in Workers, x # w, at'[x] # "idle" PROVE hand'[x] # r
      <4>1. hand[x] \in Hands
        BY ONLY <3>1, <3>3 DEF Hands
      <4> QED
        BY ONLY <2>2, <3>1, <3>3, <4>1
    <3>4. CASE u = w
      BY ONLY <2>3, <3>2, <3>3, <3>4
    <3>5. CASE v = w
      BY ONLY <2>3, <3>2, <3>3, <3>5
    <3>6. CASE u # w /\ v # w
      BY ONLY <1>1, <2>3, <3>1, <3>6 DEF OwnedOnce
    <3> QED
      BY ONLY <3>4, <3>5, <3>6
  <2> QED
    BY ONLY <1>1, <1>3, <1>4, <2>1, <2>2, <2>3 DEF OwnedOnce
<1> QED
  BY ONLY <1>5, <1>6, <1>9, <1>10, Parts, PTL

(* A worker at the same request in another place.                           *)
LEMMA MoveKeeps ==
    ASSUME RequestsInv, NEW w \in Workers,
           NEW to \in {"auth", "forward", "put"},
           at[w] # "idle", at' = [at EXCEPT ![w] = to], auth' \in BOOLEAN,
           UNCHANGED <<bufVars, hand, handled, req, pool, jobs, panic>>,
           writeChan' \in Seq(DOMAIN req) /\ Len(writeChan') <= WriteCap
    PROVE  RequestsInv'
<1>1. ReaderOK /\ ObjectsOK /\ WorkersOK /\ OwnedOnce
  BY Parts
<1>2. /\ at' \in [Workers -> {"idle", "auth", "forward", "put"}]
      /\ \A v \in Workers : at'[v] # "idle" <=> at[v] # "idle"
  BY <1>1 DEF WorkersOK
<1>3. ReaderOK'
  BY <1>1 DEF ReaderOK, BufferOK, Cap, Newest, bufVars
<1>4. ObjectsOK'
  BY <1>1 DEF ObjectsOK, bufVars
<1>5. WorkersOK'
  BY <1>1, <1>2 DEF WorkersOK, NoReq
<1>6. OwnedOnce'
  <2>1. Hands' = Hands
    BY <1>2 DEF Hands
  <2> QED
    BY <1>1, <1>2, <2>1 DEF OwnedOnce
<1> QED
  BY ONLY <1>3, <1>4, <1>5, <1>6, Parts, PTL

LEMMA AuthenticateKeeps ==
    ASSUME RequestsInv, NEW w \in Workers, Authenticate(w)
    PROVE  RequestsInv'
<1>1. /\ at[w] # "idle" /\ at' = [at EXCEPT ![w] = "put"] /\ auth' \in BOOLEAN
      /\ UNCHANGED <<bufVars, hand, handled, req, pool, jobs, panic, writeChan>>
  BY DEF Authenticate
<1>2. writeChan' \in Seq(DOMAIN req) /\ Len(writeChan') <= WriteCap
  BY <1>1 DEF RequestsInv, RequestsTypeOK
<1> QED
  BY ONLY <1>1, <1>2, RequestsInv, w \in Workers, MoveKeeps

LEMMA ForwardKeeps ==
    ASSUME RequestsInv, NEW w \in Workers, Forward(w)
    PROVE  RequestsInv'
<1>1. /\ at[w] # "idle" /\ at' = [at EXCEPT ![w] = "put"] /\ auth' = auth
      /\ UNCHANGED <<bufVars, hand, handled, req, pool, jobs, panic>>
      /\ writeChan' = IF Len(writeChan) < WriteCap
                      THEN Append(writeChan, hand[w]) ELSE writeChan
  BY DEF Forward
<1>2. /\ auth \in BOOLEAN /\ hand[w] \in DOMAIN req
      /\ writeChan \in Seq(DOMAIN req) /\ Len(writeChan) <= WriteCap
  BY <1>1 DEF RequestsInv, RequestsTypeOK
<1>3. writeChan' \in Seq(DOMAIN req) /\ Len(writeChan') <= WriteCap
  <2>1. CASE Len(writeChan) < WriteCap
    <3>1. writeChan' = Append(writeChan, hand[w])
      BY ONLY <1>1, <2>1
    <3>2. writeChan' \in Seq(DOMAIN req) /\ Len(writeChan') = Len(writeChan) + 1
      BY ONLY <1>2, <3>1
    <3>3. WriteCap \in Nat /\ Len(writeChan) \in Nat
      BY <1>2, RequestsAssumption DEF RequestsAssumption
    <3> QED
      BY ONLY <2>1, <3>2, <3>3
  <2>2. CASE ~(Len(writeChan) < WriteCap)
    BY ONLY <1>1, <1>2, <2>2
  <2> QED
    BY ONLY <2>1, <2>2
<1>4. auth' \in BOOLEAN
  BY ONLY <1>1, <1>2
<1> QED
  BY ONLY <1>1, <1>3, <1>4, RequestsInv, w \in Workers, MoveKeeps

LEMMA PutBackKeeps ==
    ASSUME RequestsInv, NEW w \in Workers, PutBack(w)
    PROVE  RequestsInv'
<1>1. ReaderOK /\ ObjectsOK /\ WorkersOK /\ OwnedOnce
  BY Parts
<1>2. /\ at[w] = "put" /\ pool' = pool \cup {hand[w]}
      /\ at' = [at EXCEPT ![w] = "idle"] /\ hand' = [hand EXCEPT ![w] = NoReq]
      /\ UNCHANGED <<bufVars, auth, handled, req, jobs, writeChan, panic>>
  BY DEF PutBack
<1>3. hand[w] \in DOMAIN req /\ hand[w] \in Hands
  BY <1>1, <1>2, Hold
<1>4. /\ at' \in [Workers -> {"idle", "auth", "forward", "put"}]
      /\ hand' \in [Workers -> DOMAIN req \cup {NoReq}]
      /\ at'[w] = "idle"
      /\ \A v \in Workers : v # w => at'[v] = at[v] /\ hand'[v] = hand[v]
  BY ONLY <1>1, <1>2, w \in Workers DEF WorkersOK
<1>5. ReaderOK'
  BY ONLY <1>1, <1>2 DEF ReaderOK, BufferOK, Cap, Newest, bufVars
<1>6. ObjectsOK'
  BY ONLY <1>1, <1>2, <1>3 DEF ObjectsOK, bufVars
<1>7. WorkersOK'
  BY ONLY <1>1, <1>2, <1>4 DEF WorkersOK, NoReq
<1>8. OwnedOnce'
  <2>1. Hands' \subseteq Hands
    BY ONLY <1>4 DEF Hands
  <2>2. hand[w] \notin Hands'
    <3>1. ASSUME NEW v \in Workers, at'[v] # "idle" PROVE hand'[v] # hand[w]
      <4>1. v # w
        BY ONLY <1>4, <3>1
      <4>2. at[v] # "idle" /\ at[w] # "idle" /\ hand'[v] = hand[v]
        BY ONLY <1>2, <1>4, <3>1, <4>1
      <4> QED
        BY ONLY <1>1, <4>1, <4>2, v \in Workers, w \in Workers DEF OwnedOnce
    <3> QED
      BY ONLY <3>1 DEF Hands
  <2>3. Range(jobs) \cap Hands = {} /\ Hands \cap pool = {}
        /\ Range(jobs) \cap pool = {} /\ IsInjective(jobs) /\ jobs' = jobs
    BY ONLY <1>1, <1>2 DEF OwnedOnce
  <2>4. \A u, v \in Workers :
          u # v /\ at'[u] # "idle" /\ at'[v] # "idle" => hand'[u] # hand'[v]
    BY ONLY <1>1, <1>4 DEF OwnedOnce
  <2> QED
    BY ONLY <1>2, <1>3, <2>1, <2>2, <2>3, <2>4 DEF OwnedOnce
<1> QED
  BY ONLY <1>5, <1>6, <1>7, <1>8, Parts, PTL

LEMMA WriteLoopKeeps ==
    ASSUME RequestsInv, WriteLoop
    PROVE  RequestsInv'
<1>1. ReaderOK /\ ObjectsOK /\ WorkersOK /\ OwnedOnce
  BY Parts
<1>2. writeChan # <<>> /\ writeChan' = Tail(writeChan)
      /\ UNCHANGED <<bufVars, workVars, req, pool, jobs, panic>>
  BY DEF WriteLoop
<1>3. writeChan' \in Seq(DOMAIN req) /\ Len(writeChan') <= WriteCap
  <2>1. writeChan \in Seq(DOMAIN req) /\ Len(writeChan) <= WriteCap
        /\ WriteCap \in Nat
    BY <1>1, RequestsAssumption DEF ObjectsOK, RequestsAssumption
  <2>2. /\ writeChan' \in Seq(DOMAIN req)
        /\ Len(writeChan') = Len(writeChan) - 1
        /\ Len(writeChan) \in Nat
    BY ONLY <1>2, <2>1, HeadTailProperties
  <2> QED
    BY ONLY <2>1, <2>2
<1>4. ReaderOK'
  BY ONLY <1>1, <1>2 DEF ReaderOK, BufferOK, Cap, Newest, bufVars
<1>5. ObjectsOK'
  BY ONLY <1>1, <1>2, <1>3 DEF ObjectsOK, bufVars
<1>6. WorkersOK'
  BY ONLY <1>1, <1>2 DEF WorkersOK, workVars, NoReq
<1>7. OwnedOnce'
  BY ONLY <1>1, <1>2 DEF OwnedOnce, workVars, Hands
<1> QED
  BY ONLY <1>4, <1>5, <1>6, <1>7, Parts, PTL

LEMMA SentTyped ==
    ASSUME RequestsAssumption
    PROVE  Sent \in Seq(Byte) /\ Len(Stream) \in Nat
           /\ SentTo \in [0 .. Len(Stream) -> Seq(Byte)]
<1>1. Len(Stream) \in Nat /\ SentTo \in [0 .. Len(Stream) -> Seq(Byte)]
  BY SentBuilds DEF Builds
<1>2. Len(Stream) \in 0 .. Len(Stream)
  BY <1>1
<1> QED
  BY <1>1, <1>2 DEF Sent

LEMMA OwnersInit == RequestsInit => RequestsInv
<1> SUFFICES ASSUME RequestsInit PROVE RequestsInv
  OBVIOUS
<1>1. ReaderOK
  <2>1. Sent \in Seq(Byte)
    BY RequestsAssumption, SentTyped
  <2>2. << <<>> >> \in Seq(Seq(Byte)) /\ << <<>> >> # <<>>
        /\ Len(<< <<>> >>) = 1 /\ << <<>> >>[1] = <<>>
    BY EmptySeq
  <2>3. mem \in Seq(Seq(Byte)) /\ mem # <<>> /\ Cap = 0
    BY <2>2, EmptySeq DEF RequestsInit, Cap, Newest
  <2>4. buf \in [off : Nat, end : Nat] /\ buf.off = 0 /\ buf.end = 0
    BY DEF RequestsInit
  <2>5. BufferOK
    BY ONLY <2>3, <2>4 DEF BufferOK
  <2>6. opened \in Seq(Frames)
    BY EmptySeq DEF RequestsInit
  <2> QED
    BY <2>1, <2>5, <2>6 DEF RequestsInit, ReaderOK
<1>2. ObjectsOK
  <2>1. req \in Seq(Objects) /\ DOMAIN req = {}
    BY EmptySeq DEF RequestsInit
  <2>2. /\ jobs \in Seq(DOMAIN req) /\ Len(jobs) = 0
        /\ writeChan \in Seq(DOMAIN req) /\ Len(writeChan) = 0
    BY EmptySeq DEF RequestsInit
  <2>3. WorkCap \in Nat /\ WriteCap \in Nat
    BY RequestsAssumption DEF RequestsAssumption
  <2>4. pool = {}
    BY DEF RequestsInit
  <2>5. 0 <= WorkCap /\ 0 <= WriteCap
    BY ONLY <2>3
  <2> QED
    BY ONLY <2>1, <2>2, <2>4, <2>5 DEF ObjectsOK
<1>3. WorkersOK
  BY EmptySeq DEF RequestsInit, WorkersOK
<1>4. OwnedOnce
  <2>1. Range(jobs) = {} /\ IsInjective(jobs)
    BY DEF RequestsInit, Range, IsInjective
  <2>2. Hands = {} /\ \A w \in Workers : at[w] = "idle"
    BY DEF RequestsInit, Hands
  <2> QED
    BY <2>1, <2>2 DEF OwnedOnce
<1> QED
  BY <1>1, <1>2, <1>3, <1>4, Parts

LEMMA OwnersKept == RequestsInv /\ [RequestsNext]_requestsVars => RequestsInv'
<1> SUFFICES ASSUME RequestsInv, [RequestsNext]_requestsVars PROVE RequestsInv'
  OBVIOUS
<1>1. ASSUME NEW n \in Reads, Read(n) PROVE RequestsInv'
  BY <1>1, RequestsAssumption, ReadKeeps
<1>2. ASSUME NEW r \in 1 .. Len(req) + 1, Unpack(r) PROVE RequestsInv'
  BY <1>2, RequestsAssumption, UnpackKeeps
<1>3. ASSUME UnpackBreak PROVE RequestsInv'
  <2>1. ReaderOK /\ ObjectsOK /\ WorkersOK /\ OwnedOnce
    BY Parts
  <2>2. unpacking' = FALSE
        /\ UNCHANGED <<workVars, unread, mem, buf, opened, misread, reused, req,
                       pool, jobs, writeChan, panic, wire>>
    BY ONLY <1>3 DEF UnpackBreak
  <2>3. ReaderOK'
    BY ONLY <2>1, <2>2 DEF ReaderOK, BufferOK, Cap, Newest
  <2>4. ObjectsOK'
    BY ONLY <2>1, <2>2 DEF ObjectsOK
  <2>5. WorkersOK'
    BY ONLY <2>1, <2>2 DEF WorkersOK, workVars, NoReq
  <2>6. OwnedOnce'
    BY ONLY <2>1, <2>2 DEF OwnedOnce, workVars, Hands
  <2> QED
    BY ONLY <2>3, <2>4, <2>5, <2>6, Parts, PTL
<1>4. ASSUME UnpackPanic PROVE RequestsInv'
  <2>1. ReaderOK /\ ObjectsOK /\ WorkersOK /\ OwnedOnce
    BY Parts
  <2>2. panic' = TRUE
        /\ UNCHANGED <<bufVars, workVars, req, pool, jobs, writeChan>>
    BY ONLY <1>4 DEF UnpackPanic
  <2>3. ReaderOK'
    BY ONLY <2>1, <2>2 DEF ReaderOK, BufferOK, Cap, Newest, bufVars
  <2>4. ObjectsOK'
    BY ONLY <2>1, <2>2 DEF ObjectsOK, bufVars
  <2>5. WorkersOK'
    BY ONLY <2>1, <2>2 DEF WorkersOK, workVars, NoReq
  <2>6. OwnedOnce'
    BY ONLY <2>1, <2>2 DEF OwnedOnce, workVars, Hands
  <2> QED
    BY ONLY <2>3, <2>4, <2>5, <2>6, Parts, PTL
<1>5. ASSUME UNCHANGED requestsVars PROVE RequestsInv'
  BY <1>5 DEF requestsVars, RequestsInv, RequestsTypeOK, OwnedOnce, workVars,
              bufVars, Cap, Newest, Hands, NoReq
<1>6. ASSUME Reader PROVE RequestsInv'
  BY <1>1, <1>2, <1>3, <1>4, <1>6 DEF Reader
<1>7. ASSUME NEW w \in Workers, Worker(w) PROVE RequestsInv'
  BY <1>7, RefuseKeeps, StartJobKeeps, AuthenticateKeeps, ForwardKeeps,
     PutBackKeeps DEF Worker
<1>8. ASSUME WriteLoop PROVE RequestsInv'
  BY <1>8, WriteLoopKeeps
<1> QED
  BY <1>5, <1>6, <1>7, <1>8 DEF RequestsNext

(* For every stream of frames, however it is cut, and any number of         *)
(* workers: a Request whose job is under way belongs to that job alone.     *)
THEOREM RequestsCorrect == RequestsSpec => []RequestsInv
BY OwnersInit, OwnersKept, PTL DEF RequestsSpec

-----------------------------------------------------------------------------
(* A sequence without its first elements.                                   *)
LEMMA DropOfJoined ==
    ASSUME NEW S, NEW s \in Seq(S), NEW t \in Seq(S), NEW n \in 0 .. Len(s)
    PROVE  SubSeq(s, n + 1, Len(s)) \o t
             = SubSeq(s \o t, n + 1, Len(s) + Len(t))
<1>1. PICK u, l, m, v, x, y : /\ u = s \o t /\ l = Len(s) /\ m = Len(t)
                              /\ v = SubSeq(s, n + 1, l) /\ x = v \o t
                              /\ y = SubSeq(u, n + 1, l + m)
  OBVIOUS
<1>2. l \in Nat /\ m \in Nat /\ n \in 0 .. l /\ n \in Nat /\ l \in n .. l
      /\ l + m \in n .. l + m
  BY <1>1
<1>3. /\ u \in Seq(S) /\ Len(u) = l + m
      /\ \A i \in 1 .. l : u[i] = s[i]
      /\ \A i \in 1 .. m : u[l + i] = t[i]
  <2>1. u = s \o t /\ s \in Seq(S) /\ t \in Seq(S)
    BY ONLY <1>1, s \in Seq(S), t \in Seq(S)
  <2>2. /\ u \in Seq(S) /\ Len(u) = Len(s) + Len(t)
        /\ \A i \in 1 .. Len(s) : u[i] = s[i]
        /\ \A i \in 1 .. Len(t) : u[Len(s) + i] = t[i]
    BY ONLY <2>1, Joined
  <2> QED
    BY ONLY <1>1, <2>2
<1>4. /\ v \in Seq(S) /\ Len(v) = l - n
      /\ \A i \in 1 .. l - n : v[i] = s[n + i]
  <2>1. v = SubSeq(s, n + 1, l) /\ n \in Nat /\ l \in n .. Len(s)
    BY ONLY <1>1, <1>2
  <2> QED
    BY ONLY <2>1, s \in Seq(S), Cut
<1>5. /\ y \in Seq(S) /\ Len(y) = (l + m) - n
      /\ \A i \in 1 .. (l + m) - n : y[i] = u[n + i]
  <2>1. PICK g : g = l + m
    OBVIOUS
  <2>2. /\ y = SubSeq(u, n + 1, g) /\ n \in Nat /\ g \in n .. Len(u)
        /\ u \in Seq(S)
    BY ONLY <1>1, <1>2, <1>3, <2>1
  <2> QED
    BY ONLY <2>1, <2>2, Cut
<1>6. /\ x \in Seq(S) /\ Len(x) = (l - n) + m
      /\ \A i \in 1 .. l - n : x[i] = v[i]
      /\ \A i \in 1 .. m : x[(l - n) + i] = t[i]
  <2>1. x = v \o t /\ v \in Seq(S) /\ t \in Seq(S)
    BY ONLY <1>1, <1>4, t \in Seq(S)
  <2>2. /\ x \in Seq(S) /\ Len(x) = Len(v) + Len(t)
        /\ \A k \in 1 .. Len(v) : x[k] = v[k]
        /\ \A k \in 1 .. Len(t) : x[Len(v) + k] = t[k]
    BY ONLY <2>1, Joined
  <2>3. Len(v) = l - n /\ Len(t) = m
    BY ONLY <1>1, <1>4
  <2> QED
    BY ONLY <2>2, <2>3
<1>7. ASSUME NEW k \in 1 .. (l + m) - n PROVE x[k] = y[k]
  <2>1. CASE k <= l - n
    <3>1. k \in 1 .. l - n /\ n + k \in 1 .. l
      BY ONLY <1>2, <2>1, k \in 1 .. (l + m) - n
    <3> QED
      BY ONLY <1>3, <1>4, <1>5, <1>6, <3>1, k \in 1 .. (l + m) - n
  <2>2. CASE ~(k <= l - n)
    <3>1. PICK j : j = k - (l - n)
      OBVIOUS
    <3>2. j \in 1 .. m /\ (l - n) + j = k /\ n + k = l + j
      BY ONLY <1>2, <2>2, <3>1, k \in 1 .. (l + m) - n
    <3> QED
      BY ONLY <1>3, <1>5, <1>6, <3>2, k \in 1 .. (l + m) - n
  <2> QED
    BY ONLY <2>1, <2>2
<1>8. Len(x) = Len(y) /\ Len(x) = (l + m) - n
  BY ONLY <1>2, <1>5, <1>6
<1>9. x = y
  <2>1. \A k \in 1 .. Len(x) : x[k] = y[k]
    BY ONLY <1>7, <1>8
  <2> QED
    BY ONLY <1>5, <1>6, <1>8, <2>1, SeqEqual
<1> QED
  BY ONLY <1>1, <1>9

LEMMA DropOfDrop ==
    ASSUME NEW S, NEW s \in Seq(S), NEW f \in Nat, NEW e \in f .. Len(s),
           NEW n \in 0 .. e - f
    PROVE  SubSeq(SubSeq(s, f + 1, e), n + 1, e - f)
             = SubSeq(s, (f + n) + 1, e)
<1>1. PICK u, v, x, g : /\ u = SubSeq(s, f + 1, e) /\ g = f + n
                        /\ v = SubSeq(u, n + 1, e - f)
                        /\ x = SubSeq(s, g + 1, e)
  OBVIOUS
<1>2. /\ n \in Nat /\ e \in Nat /\ g \in Nat /\ e \in f .. Len(s) /\ f \in Nat
      /\ e - f \in n .. e - f /\ e \in g .. Len(s) /\ e - g = (e - f) - n
  BY <1>1
<1>3. /\ u \in Seq(S) /\ Len(u) = e - f
      /\ \A k \in 1 .. e - f : u[k] = s[f + k]
  BY ONLY <1>1, <1>2, s \in Seq(S), Cut
<1>4. /\ v \in Seq(S) /\ Len(v) = (e - f) - n
      /\ \A k \in 1 .. (e - f) - n : v[k] = u[n + k]
  BY ONLY <1>1, <1>2, <1>3, Cut
<1>5. /\ x \in Seq(S) /\ Len(x) = e - g
      /\ \A k \in 1 .. e - g : x[k] = s[g + k]
  BY ONLY <1>1, <1>2, s \in Seq(S), Cut
<1>6. ASSUME NEW k \in 1 .. (e - f) - n PROVE v[k] = x[k]
  <2>1. n + k \in 1 .. e - f /\ k \in 1 .. e - g /\ f + (n + k) = g + k
    BY ONLY <1>1, <1>2, k \in 1 .. (e - f) - n
  <2> QED
    BY ONLY <1>3, <1>4, <1>5, <2>1, k \in 1 .. (e - f) - n
<1>7. v = x
  <2>1. Len(v) = Len(x) /\ \A k \in 1 .. Len(v) : v[k] = x[k]
    BY ONLY <1>2, <1>4, <1>5, <1>6
  <2> QED
    BY ONLY <1>4, <1>5, <2>1, SeqEqual
<1> QED
  BY ONLY <1>1, <1>7

LEMMA Prefix ==
    ASSUME NEW S, NEW s \in Seq(S), NEW t \in Seq(S)
    PROVE  IsPrefix(s, t) <=> /\ Len(s) <= Len(t)
                              /\ \A i \in 1 .. Len(s) : s[i] = t[i]
<1>1. Len(s) \in Nat /\ Len(t) \in Nat
  OBVIOUS
<1> SUFFICES ASSUME Len(s) <= Len(t)
             PROVE  SubSeq(s, 1, Len(s)) = SubSeq(t, 1, Len(s))
                      <=> \A i \in 1 .. Len(s) : s[i] = t[i]
  BY DEF IsPrefix
<1>2. SubSeq(s, 1, Len(s)) = s
  BY SubSeqFull
<1>3. PICK l, u : l = Len(s) /\ u = SubSeq(t, 0 + 1, l)
  OBVIOUS
<1>4. 0 \in Nat /\ l \in 0 .. Len(t) /\ l - 0 = l /\ \A k \in 1 .. l : 0 + k = k
  BY <1>1, <1>3
<1>5. /\ u \in Seq(S) /\ Len(u) = l /\ \A k \in 1 .. l : u[k] = t[k]
  <2>1. /\ u \in Seq(S) /\ Len(u) = l - 0
        /\ \A k \in 1 .. l - 0 : u[k] = t[0 + k]
    BY ONLY <1>3, <1>4, t \in Seq(S), Cut
  <2> QED
    BY ONLY <1>4, <2>1
<1>6. u = SubSeq(t, 1, Len(s))
  BY <1>3
<1>7. ASSUME \A i \in 1 .. Len(s) : s[i] = t[i] PROVE s = u
  <2>1. Len(s) = Len(u) /\ \A k \in 1 .. Len(s) : s[k] = u[k]
    BY ONLY <1>3, <1>5, <1>7
  <2> QED
    BY ONLY <1>5, <2>1, s \in Seq(S), SeqEqual
<1>8. ASSUME s = u PROVE \A i \in 1 .. Len(s) : s[i] = t[i]
  BY ONLY <1>3, <1>5, <1>8
<1> QED
  BY ONLY <1>2, <1>6, <1>7, <1>8

(* Where the frames opened are those sent, the next bytes are those of the  *)
(* next frame.                                                              *)
LEMMA Arrived ==
    ASSUME RequestsAssumption, NEW o \in 0 .. Len(Stream),
           NEW s \in Seq(Byte), Len(s) > 0,
           Len(s) <= Len(Sent) - Len(SentTo[o]),
           \A k \in 1 .. Len(s) : s[k] = Sent[Len(SentTo[o]) + k]
    PROVE  /\ o # Len(Stream)
           /\ Len(SentTo[o]) \in Nat
           /\ Len(Bytes(o + 1)) \in 0 .. Len(Sent) - Len(SentTo[o])
           /\ \A k \in 1 .. Len(s) :
                 k <= Len(Bytes(o + 1)) => s[k] = Bytes(o + 1)[k]
<1>1. PICK p, a : p = Len(SentTo[o]) /\ a = Sent
  OBVIOUS
<1>2. a \in Seq(Byte) /\ SentTo[o] \in Seq(Byte) /\ p \in Nat /\ Len(a) \in Nat
  BY <1>1, SentTyped
<1>3. Len(a) = Len(SentTo[Len(Stream)])
  BY <1>1 DEF Sent
<1>4. p <= Len(a)
  <2>1. Len(Stream) \in o .. Len(Stream)
    BY SentTyped
  <2>2. Len(SentTo[o]) <= Len(SentTo[Len(Stream)])
    BY <2>1, SentPrefix
  <2> QED
    BY ONLY <1>1, <1>3, <2>2
<1>5. Len(s) \in Nat
  OBVIOUS
<1>6. Len(s) <= Len(a) - p /\ \A k \in 1 .. Len(s) : s[k] = a[p + k]
  BY <1>1
<1>7. o # Len(Stream)
  <2>1. o = Len(Stream) => p = Len(a)
    BY ONLY <1>1, <1>3
  <2> QED
    BY ONLY <1>2, <1>5, <1>6, <2>1, Len(s) > 0
<1>8. PICK b : b = Bytes(o + 1)
  OBVIOUS
<1>9. /\ b \in Seq(Byte) /\ p + Len(b) <= Len(a)
       /\ \A k \in 1 .. Len(b) : a[p + k] = b[k]
  BY <1>1, <1>7, <1>8, NextFrame
<1>10. ASSUME NEW k \in 1 .. Len(s), k <= Len(b) PROVE s[k] = b[k]
  <2>1. Len(b) \in Nat
    BY ONLY <1>9
  <2>2. k \in 1 .. Len(b)
    BY ONLY <1>5, <1>10, <2>1
  <2> QED
    BY ONLY <1>6, <1>9, <1>10, <2>2
<1>11. Len(b) \in 0 .. Len(a) - p
  <2>1. Len(b) \in Nat
    BY ONLY <1>9
  <2> QED
    BY ONLY <1>2, <1>9, <2>1
<1> QED
  BY ONLY <1>1, <1>2, <1>7, <1>8, <1>10, <1>11

LEMMA InStepInit == RequestsInit => InStep
<1> SUFFICES ASSUME RequestsInit PROVE InStep
  OBVIOUS
<1>1. Stream \in Seq(Frames) /\ opened \in Seq(Frames) /\ Len(opened) = 0
  BY RequestsAssumption, EmptySeq DEF RequestsInit, RequestsAssumption
<1>2. IsPrefix(opened, Stream)
  <2>1. /\ Len(opened) <= Len(Stream)
        /\ \A i \in 1 .. Len(opened) : opened[i] = Stream[i]
    BY <1>1
  <2> QED
    BY ONLY <1>1, <2>1, Prefix
<1>3. Rest = Sent
  <2>1. SentTo[0] = <<>> /\ Sent \in Seq(Byte)
    BY RequestsAssumption, SentBuilds, SentTyped DEF Builds
  <2>2. Len(SentTo[0]) + 1 = 1
    BY ONLY <2>1, EmptySeq
  <2> QED
    BY ONLY <1>1, <2>1, <2>2, SubSeqFull DEF Rest
<1>4. Slice(Len(mem), buf.off, buf.end) = <<>>
  <2>1. buf.off = 0 /\ buf.end = 0
    BY DEF RequestsInit
  <2>2. 0 + 1 \in Int /\ 0 \in Int /\ 0 < 0 + 1
    OBVIOUS
  <2> QED
    BY ONLY <2>1, <2>2, SubSeqEmpty DEF Slice
<1>5. <<>> \o Sent = Sent
  BY RequestsAssumption, SentTyped, ConcatEmptySeq
<1> QED
  BY <1>2, <1>3, <1>4, <1>5 DEF RequestsInit, InStep

LEMMA ReadInStep ==
    ASSUME RequestsInv, InStep, NEW n \in Reads, Read(n)
    PROVE  InStep'
<1> SUFFICES ASSUME ~ misread' PROVE InStep'
  BY DEF InStep
<1>1. ReaderOK
  BY Parts
<1>2. PICK data, un, s : /\ data = SubSeq(unread, 1, n) /\ un = unread
                         /\ s = Slice(Len(mem), buf.off, buf.end)
  OBVIOUS
<1>3. n \in Nat \ {0} /\ n <= Len(un) /\ un \in Seq(Byte)
  BY <1>1, <1>2, RequestsAssumption DEF RequestsAssumption, Read, ReaderOK
<1>4. data \in Seq(Byte)
  <2>1. 0 \in Nat /\ n \in 0 .. Len(un)
    BY ONLY <1>3
  <2>2. data = SubSeq(un, 0 + 1, n)
    BY ONLY <1>2
  <2> QED
    BY ONLY <1>3, <2>1, <2>2, Cut
<1>5. /\ unread' = SubSeq(un, n + 1, Len(un))
      /\ misread' = misread /\ opened' = opened
  BY <1>2 DEF Read
<1>6. unread' \in Seq(Byte)
  <2>1. n \in Nat /\ Len(un) \in n .. Len(un)
    BY ONLY <1>3
  <2> QED
    BY ONLY <1>3, <1>5, <2>1, Cut
<1>7. data \o unread' = un
  <2>1. /\ 1 \in 1 .. Len(un) + 1 /\ n \in 1 - 1 .. Len(un)
        /\ Len(un) \in n .. Len(un)
    BY ONLY <1>3
  <2>2. SubSeq(un, 1, n) \o SubSeq(un, n + 1, Len(un)) = SubSeq(un, 1, Len(un))
    BY ONLY <1>3, <2>1, ConcatAdjacentSubSeq
  <2>3. SubSeq(un, 1, Len(un)) = un
    BY ONLY <1>3, SubSeqFull
  <2> QED
    BY ONLY <1>2, <1>5, <2>2, <2>3
<1>8. Slice(Len(mem), buf.off, buf.end)' = s \o data
  <2>1. Written(data)
    <3>1. Write(data) /\ BufferOK /\ reused \in BOOLEAN
      BY <1>1, <1>2 DEF Read, ReaderOK
    <3> QED
      BY <1>4, <3>1, RequestsAssumption, WriteEffect
  <2> QED
    BY ONLY <1>2, <2>1 DEF Written, Slice
<1>9. (s \o data) \o unread' = s \o un
  <2>1. s \in Seq(Byte)
    BY <1>1, <1>2, Buffer DEF ReaderOK
  <2>2. PICK v : v = unread'
    OBVIOUS
  <2>3. (s \o data) \o v = s \o (data \o v)
    BY ONLY <1>4, <1>6, <2>1, <2>2, ConcatAssociative, SMTT(20)
  <2> QED
    BY ONLY <1>7, <2>2, <2>3
<1>10. IsPrefix(opened, Stream) /\ s \o un = Rest
  BY <1>2, <1>5 DEF InStep
<1>11. Rest' = Rest
  BY ONLY <1>5 DEF Rest
<1> QED
  BY ONLY <1>5, <1>8, <1>9, <1>10, <1>11 DEF InStep

LEMMA SentWithin ==
    ASSUME RequestsAssumption, NEW o \in 0 .. Len(Stream)
    PROVE  Sent \in Seq(Byte) /\ Len(SentTo[o]) \in 0 .. Len(Sent)
<1>1. /\ Sent \in Seq(Byte) /\ Len(Stream) \in Nat
      /\ SentTo \in [0 .. Len(Stream) -> Seq(Byte)]
  BY SentTyped
<1>2. Len(Stream) \in o .. Len(Stream)
  BY <1>1
<1>3. Len(SentTo[o]) <= Len(SentTo[Len(Stream)])
  BY <1>2, SentPrefix
<1>4. Len(SentTo[o]) \in Nat /\ Len(Sent) \in Nat
  BY <1>1
<1> QED
  BY ONLY <1>1, <1>3, <1>4 DEF Sent

(* A frame that is all there is opened as it was sent.                      *)
LEMMA OpensNext ==
    ASSUME RequestsInv, InStep, ~ misread, BufLen >= 7 + BodyLen,
           NEW r, Unpack(r)
    PROVE  /\ Len(opened) + 1 \in DOMAIN Stream
           /\ opened' = Append(opened, Stream[Len(opened) + 1])
           /\ Len(Bytes(Len(opened) + 1)) = 7 + BodyLen
<1>1. ReaderOK /\ BufferOK /\ Ready /\ ~ OutOfRange
  BY Parts DEF ReaderOK, Unpack
<1>2. PICK o, s, t, off, a :
        /\ o = Len(opened) /\ s = Slice(Len(mem), buf.off, buf.end)
        /\ t = unread /\ off = buf.off /\ a = Newest
  OBVIOUS
<1>3. opened \in Seq(Frames) /\ Stream \in Seq(Frames) /\ t \in Seq(Byte)
  BY <1>1, <1>2, RequestsAssumption DEF ReaderOK, RequestsAssumption
<1>4. o \in 0 .. Len(Stream)
  <2>1. IsPrefix(opened, Stream)
    BY DEF InStep
  <2>2. Len(opened) <= Len(Stream)
    BY ONLY <1>3, <2>1, Prefix
  <2> QED
    BY ONLY <1>2, <1>3, <2>2
<1>5. /\ s \in Seq(Byte) /\ Len(s) = BufLen /\ BufLen \in Nat
      /\ a \in Seq(Byte) /\ off \in Nat /\ off <= buf.end /\ buf.end <= Len(a)
      /\ s = SubSeq(a, off + 1, buf.end) /\ BufLen = buf.end - off
      /\ buf.end \in Nat
  BY ONLY <1>1, <1>2, Buffer
<1>6. \A k \in 1 .. BufLen : s[k] = a[off + k]
  <2>1. off \in Nat /\ buf.end \in off .. Len(a)
    BY ONLY <1>5
  <2>2. \A k \in 1 .. buf.end - off : s[k] = a[off + k]
    BY ONLY <1>5, <2>1, Cut
  <2> QED
    BY ONLY <1>5, <2>2
<1>7. /\ \A i \in 1 .. 6 : a[off + i] \in Byte
      /\ Uint16(off) = 256 * a[off + 1] + a[off + 2]
      /\ BodyLen = Word * (256 * a[off + 3] + a[off + 4])
                     + (256 * a[off + 5] + a[off + 6])
      /\ BodyLen \in Nat
  BY ONLY <1>1, <1>2, Header
<1>8. PICK b : b = Bytes(o + 1)
  OBVIOUS
<1>9. o # Len(Stream) /\ \A k \in 1 .. Len(s) : k <= Len(b) => s[k] = b[k]
  <2>1. PICK u, c, p : u = s \o t /\ c = Sent /\ p = Len(SentTo[o])
    OBVIOUS
  <2>2. u = SubSeq(c, p + 1, Len(c))
    BY <1>2, <2>1 DEF InStep, Rest
  <2>3. Len(u) = Len(s) + Len(t) /\ \A k \in 1 .. Len(s) : u[k] = s[k]
    <3>1. u = s \o t /\ s \in Seq(Byte) /\ t \in Seq(Byte)
      BY ONLY <1>3, <1>5, <2>1
    <3> QED
      BY ONLY <3>1, Joined
  <2>4. c \in Seq(Byte) /\ p \in 0 .. Len(c)
    BY ONLY <1>4, <2>1, RequestsAssumption, SentWithin
  <2>5. /\ Len(u) = Len(c) - p
        /\ \A k \in 1 .. Len(c) - p : u[k] = c[p + k]
    <3>1. p \in Nat /\ Len(c) \in p .. Len(c)
      BY ONLY <2>4
    <3> QED
      BY ONLY <2>2, <2>4, <3>1, Cut
  <2>6. Len(s) \in Nat /\ Len(t) \in Nat
    BY ONLY <1>3, <1>5
  <2>7. Len(s) > 0
    BY ONLY <1>5, <1>7, BufLen >= 7 + BodyLen
  <2>8. Len(s) <= Len(c) - p /\ \A k \in 1 .. Len(s) : k \in 1 .. Len(c) - p
    BY ONLY <2>3, <2>5, <2>6
  <2>9. \A k \in 1 .. Len(s) : s[k] = c[p + k]
    BY ONLY <2>3, <2>5, <2>8
  <2>10. s \in Seq(Byte)
    BY ONLY <1>5
  <2> QED
    BY ONLY <1>4, <1>8, <2>1, <2>7, <2>8, <2>9, <2>10,
            RequestsAssumption, Arrived
<1>10. o + 1 \in DOMAIN Stream
  BY ONLY <1>4, <1>9, RequestsAssumption, NextFrame
<1>11. PICK f : f = Stream[o + 1]
  OBVIOUS
<1>12. f \in Frames /\ Len(f.body) \div Word < Word - 1 /\ b = FrameBytes(f)
  BY ONLY <1>8, <1>10, <1>11, RequestsAssumption, BytesType DEF Bytes
<1>13. /\ b \in Seq(Byte) /\ Len(b) = 7 + Len(f.body)
       /\ 256 * b[1] + b[2] = f.type
       /\ Word * (256 * b[3] + b[4]) + (256 * b[5] + b[6]) = Len(f.body)
       /\ \A i \in 1 .. Len(f.body) : b[7 + i] = f.body[i]
  BY ONLY <1>12, FrameFields, SMTT(60)
<1>14. Len(f.body) \in Nat /\ f.body \in Seq(Byte)
  BY ONLY <1>12 DEF Frames
<1>15. PICK n, m, q : n = BufLen /\ m = BodyLen /\ q = Len(b)
  OBVIOUS
<1>16. n \in Nat /\ m \in Nat /\ n >= 7 + m /\ q \in Nat /\ q >= 7
  <2>1. BufLen \in Nat /\ BodyLen \in Nat
    BY ONLY <1>5, <1>7
  <2>2. Len(b) = 7 + Len(f.body)
    BY ONLY <1>13
  <2> QED
    BY ONLY <1>15, <1>14, <2>1, <2>2, BufLen >= 7 + BodyLen
<1>17. \A i \in 1 .. 6 : a[off + i] = b[i]
  <2>1. \A i \in 1 .. 6 : i \in 1 .. BufLen /\ i <= Len(b)
    BY ONLY <1>15, <1>16
  <2> QED
    BY ONLY <1>5, <1>6, <1>9, <2>1
<1>18. /\ a[off + 1] = b[1] /\ a[off + 2] = b[2] /\ a[off + 3] = b[3]
       /\ a[off + 4] = b[4] /\ a[off + 5] = b[5] /\ a[off + 6] = b[6]
  BY ONLY <1>17
<1>19. Uint16(off) = f.type /\ BodyLen = Len(f.body)
  BY ONLY <1>7, <1>13, <1>18
<1>20. PICK frame \in Frames :
         /\ opened' = Append(opened, frame)
         /\ frame.type = Uint16(buf.off)
         /\ frame.body \in Seq(Byte) /\ Len(frame.body) = BodyLen
         /\ \A i \in 1 .. BodyLen : frame.body[i] = Newest[(buf.off + 7) + i]
  BY <1>1, UnpackOpens
<1>21. ASSUME NEW i \in 1 .. BodyLen PROVE frame.body[i] = f.body[i]
  <2>1. /\ 7 + i \in 1 .. BufLen /\ 7 + i <= Len(b)
        /\ (off + 7) + i = off + (7 + i) /\ i \in 1 .. Len(f.body)
    <3>1. i \in 1 .. m /\ off \in Nat /\ q = 7 + m /\ Len(f.body) = m
      BY ONLY <1>15, <1>5, <1>13, <1>19, i \in 1 .. BodyLen
    <3>2. 7 + i \in 1 .. n /\ 7 + i <= q /\ (off + 7) + i = off + (7 + i)
      BY ONLY <1>16, <3>1
    <3> QED
      BY ONLY <1>15, <3>1, <3>2
  <2>2. a[off + (7 + i)] = b[7 + i]
    BY ONLY <1>5, <1>6, <1>9, <2>1
  <2>3. frame.body[i] = a[off + (7 + i)]
    BY ONLY <1>2, <1>20, <2>1, i \in 1 .. BodyLen
  <2> QED
    BY ONLY <1>13, <2>1, <2>2, <2>3
<1>22. frame.body = f.body
  <2>1. /\ Len(frame.body) = Len(f.body)
        /\ \A i \in 1 .. Len(frame.body) : frame.body[i] = f.body[i]
    BY ONLY <1>19, <1>20, <1>21
  <2> QED
    BY ONLY <1>14, <1>20, <2>1, SeqEqual
<1>23. frame = f
  <2>1. frame.type = f.type
    BY ONLY <1>2, <1>19, <1>20
  <2> QED
    BY ONLY <1>12, <1>22, <2>1, frame \in Frames DEF Frames
<1> QED
  BY ONLY <1>2, <1>8, <1>10, <1>11, <1>13, <1>19, <1>20, <1>23

LEMMA UnpackInStep ==
    ASSUME RequestsInv, InStep, NEW r, Unpack(r)
    PROVE  InStep'
<1> SUFFICES ASSUME ~ misread' PROVE InStep'
  BY DEF InStep
<1>1. /\ ~ misread /\ ~(BufLen < 7 + BodyLen)
      /\ UNCHANGED <<unread, mem>>
      /\ buf' = [buf EXCEPT !.off = IF Next7 < buf.end THEN Next7 ELSE buf.end]
  BY DEF Unpack
<1>2. ReaderOK /\ BufferOK /\ Ready /\ ~ OutOfRange
  BY Parts DEF ReaderOK, Unpack
<1>3. PICK o, s, t, off, end, a, p, b :
        /\ o = Len(opened) /\ s = Slice(Len(mem), buf.off, buf.end)
        /\ t = unread /\ off = buf.off /\ end = buf.end /\ a = Newest
        /\ p = Len(SentTo[o]) /\ b = Bytes(o + 1)
  OBVIOUS
<1>4. /\ s \in Seq(Byte) /\ Len(s) = end - off
      /\ a \in Seq(Byte) /\ off \in Nat /\ end \in Nat /\ off <= end
      /\ end <= Len(a) /\ s = SubSeq(a, off + 1, end) /\ BufLen = end - off
      /\ a = mem[Len(mem)]
  BY ONLY <1>2, <1>3, Buffer
<1>5. BodyLen \in Nat /\ Next7 = off + 7 + BodyLen
  BY ONLY <1>2, <1>3, Header
<1>6. BufLen >= 7 + BodyLen
  BY ONLY <1>1, <1>4, <1>5
<1>7. /\ o + 1 \in DOMAIN Stream /\ opened' = Append(opened, Stream[o + 1])
      /\ Len(b) = 7 + BodyLen
  BY ONLY <1>1, <1>3, <1>6, RequestsInv, InStep, Unpack(r), OpensNext
<1>8. opened \in Seq(Frames) /\ Stream \in Seq(Frames) /\ t \in Seq(Byte)
  BY <1>2, <1>3, RequestsAssumption DEF ReaderOK, RequestsAssumption
<1>9. IsPrefix(opened, Stream) /\ s \o t = SubSeq(Sent, p + 1, Len(Sent))
  BY <1>1, <1>3 DEF InStep, Rest
<1>10. /\ Len(opened) <= Len(Stream)
       /\ \A i \in 1 .. Len(opened) : opened[i] = Stream[i]
  BY ONLY <1>8, <1>9, Prefix
<1>11. /\ o \in 0 .. Len(Stream) /\ o # Len(Stream)
       /\ o + 1 \in 1 .. Len(Stream)
       /\ Len(Stream) \in Nat
  BY ONLY <1>3, <1>7, <1>8, <1>10
<1>12. /\ opened' \in Seq(Frames) /\ Len(opened') = o + 1
       /\ opened'[o + 1] = Stream[o + 1]
       /\ \A i \in 1 .. o : opened'[i] = opened[i]
  BY ONLY <1>3, <1>7, <1>8
<1>13. IsPrefix(opened', Stream)
  <2>1. ASSUME NEW i \in 1 .. o + 1 PROVE opened'[i] = Stream[i]
    <3>1. i = o + 1 \/ i \in 1 .. o
      BY ONLY <1>11, i \in 1 .. o + 1
    <3> QED
      BY ONLY <1>3, <1>10, <1>12, <3>1
  <2>2. /\ Len(opened') <= Len(Stream)
        /\ \A i \in 1 .. Len(opened') : opened'[i] = Stream[i]
    BY ONLY <1>11, <1>12, <2>1
  <2> QED
    BY ONLY <1>8, <1>12, <2>2, Prefix
<1>14. /\ Len(SentTo[o + 1]) = p + Len(b) /\ p + Len(b) <= Len(Sent)
       /\ Sent \in Seq(Byte) /\ p \in Nat /\ b \in Seq(Byte)
  <2>1. /\ b \in Seq(Byte) /\ SentTo[o] \in Seq(Byte) /\ Sent \in Seq(Byte)
        /\ Len(SentTo[o + 1]) = p + Len(b) /\ Len(SentTo[o + 1]) <= Len(Sent)
    BY ONLY <1>3, <1>11, RequestsAssumption, NextFrame
  <2>2. p \in Nat
    BY ONLY <1>3, <2>1
  <2> QED
    BY ONLY <2>1, <2>2
<1>15. Rest' = SubSeq(Sent, (p + Len(b)) + 1, Len(Sent))
  BY ONLY <1>12, <1>14 DEF Rest
<1>16. buf'.off = off + Len(b) /\ buf'.end = end
  <2>1. Next7 <= end /\ off + Len(b) = Next7
    BY ONLY <1>4, <1>5, <1>6, <1>7
  <2>2. PICK x : x = IF Next7 < end THEN Next7 ELSE end
    OBVIOUS
  <2>3. x = Next7
    BY ONLY <1>4, <1>5, <2>1, <2>2
  <2>4. buf' = [buf EXCEPT !.off = x] /\ buf \in [off : Nat, end : Nat]
    BY ONLY <1>1, <1>2, <1>3, <2>2 DEF BufferOK
  <2> QED
    BY ONLY <1>3, <2>1, <2>3, <2>4
<1>17. PICK n, l : n = Len(b) /\ l = Len(Sent)
  OBVIOUS
<1>18. /\ n \in Nat /\ l \in Nat /\ n \in 0 .. Len(s) /\ n \in 0 .. end - off
       /\ n \in 0 .. l - p /\ l \in p .. l
  BY ONLY <1>4, <1>6, <1>7, <1>14, <1>17
<1>19. Slice(Len(mem), buf.off, buf.end)' = SubSeq(s, n + 1, Len(s))
  <2>1. Slice(Len(mem), buf.off, buf.end)' = SubSeq(a, (off + n) + 1, end)
    BY ONLY <1>1, <1>4, <1>16, <1>17 DEF Slice
  <2>2. end \in off .. Len(a)
    BY ONLY <1>4
  <2>3. SubSeq(SubSeq(a, off + 1, end), n + 1, end - off)
          = SubSeq(a, (off + n) + 1, end)
    BY ONLY <1>4, <1>18, <2>2, DropOfDrop
  <2> QED
    BY ONLY <1>4, <2>1, <2>3
<1>20. PICK u : u = s \o t
  OBVIOUS
<1>21. Len(u) = Len(s) + Len(t) /\ Len(u) = l - p
  <2>1. u = SubSeq(Sent, p + 1, l)
    BY ONLY <1>9, <1>17, <1>20
  <2>2. l \in p .. Len(Sent)
    BY ONLY <1>17, <1>18
  <2>3. Len(u) = l - p
    BY ONLY <1>14, <2>1, <2>2, Cut
  <2>4. Len(u) = Len(s) + Len(t)
    <3>1. s \in Seq(Byte) /\ t \in Seq(Byte) /\ u = s \o t
      BY ONLY <1>4, <1>8, <1>20
    <3> QED
      BY ONLY <3>1, Joined
  <2> QED
    BY ONLY <2>3, <2>4
<1>22. SubSeq(s, n + 1, Len(s)) \o t = SubSeq(u, n + 1, l - p)
  <2>1. SubSeq(s, n + 1, Len(s)) \o t = SubSeq(s \o t, n + 1, Len(s) + Len(t))
    BY ONLY <1>4, <1>8, <1>18, DropOfJoined
  <2> QED
    BY ONLY <1>20, <1>21, <2>1
<1>23. SubSeq(u, n + 1, l - p) = SubSeq(Sent, (p + n) + 1, l)
  <2>1. l \in p .. Len(Sent)
    BY ONLY <1>17, <1>18
  <2>2. SubSeq(SubSeq(Sent, p + 1, l), n + 1, l - p)
          = SubSeq(Sent, (p + n) + 1, l)
    BY ONLY <1>14, <1>18, <2>1, DropOfDrop
  <2>3. u = SubSeq(Sent, p + 1, l)
    BY ONLY <1>9, <1>17, <1>20
  <2> QED
    BY ONLY <2>2, <2>3
<1>24. Slice(Len(mem), buf.off, buf.end)' \o t = Rest'
  BY ONLY <1>15, <1>17, <1>19, <1>22, <1>23
<1>25. unread' = t
  BY ONLY <1>1, <1>3
<1> QED
  BY ONLY <1>13, <1>24, <1>25 DEF InStep

LEMMA InStepKept ==
    RequestsInv /\ InStep /\ [RequestsNext]_requestsVars => InStep'
<1> SUFFICES ASSUME RequestsInv, InStep, [RequestsNext]_requestsVars
             PROVE  InStep'
  OBVIOUS
<1>1. ASSUME NEW n \in Reads, Read(n) PROVE InStep'
  BY <1>1, ReadInStep
<1>2. ASSUME NEW r \in 1 .. Len(req) + 1, Unpack(r) PROVE InStep'
  BY <1>2, UnpackInStep
<1>3. ASSUME UNCHANGED <<unread, mem, buf, opened, misread>> PROVE InStep'
  BY <1>3 DEF InStep, Slice, Rest
<1>4. ASSUME UnpackBreak PROVE InStep'
  BY <1>3, <1>4 DEF UnpackBreak
<1>5. ASSUME UNCHANGED bufVars PROVE InStep'
  BY <1>3, <1>5 DEF bufVars
<1>6. ASSUME UnpackPanic PROVE InStep'
  BY <1>5, <1>6 DEF UnpackPanic
<1>7. ASSUME NEW w \in Workers, Worker(w) PROVE InStep'
  BY <1>5, <1>7 DEF Worker, Refuse, StartJob, Authenticate, Forward, PutBack
<1>8. ASSUME WriteLoop PROVE InStep'
  BY <1>5, <1>8 DEF WriteLoop
<1>9. ASSUME UNCHANGED requestsVars PROVE InStep'
  BY <1>5, <1>9 DEF requestsVars
<1>10. ASSUME Reader PROVE InStep'
  BY <1>1, <1>2, <1>4, <1>6, <1>10 DEF Reader
<1> QED
  BY <1>7, <1>8, <1>9, <1>10 DEF RequestsNext

(* However the network cuts the stream, until unpack takes a frame whose    *)
(* last bytes are missing it finds the frames that were sent, in order, and *)
(* no byte of the rest is lost.                                             *)
THEOREM FramesInStep == RequestsSpec => []InStep
BY OwnersInit, OwnersKept, InStepInit, InStepKept, PTL DEF RequestsSpec

-----------------------------------------------------------------------------
(* The jobs that wait are the last frames opened.                           *)
LEMMA SameCut ==
    ASSUME NEW S, NEW s \in Seq(S), NEW t \in Seq(S), NEW f \in Nat,
           NEW e \in Nat, e <= Len(s), e <= Len(t),
           \A k \in 1 .. e : s[k] = t[k]
    PROVE  SubSeq(s, f + 1, e) = SubSeq(t, f + 1, e)
<1>1. CASE f <= e
  <2>1. PICK u, v : u = SubSeq(s, f + 1, e) /\ v = SubSeq(t, f + 1, e)
    OBVIOUS
  <2>2. e \in f .. Len(s) /\ e \in f .. Len(t)
    BY <1>1
  <2>3. /\ u \in Seq(S) /\ Len(u) = e - f
        /\ \A k \in 1 .. e - f : u[k] = s[f + k]
    BY ONLY <2>1, <2>2, s \in Seq(S), f \in Nat, Cut
  <2>4. /\ v \in Seq(S) /\ Len(v) = e - f
        /\ \A k \in 1 .. e - f : v[k] = t[f + k]
    BY ONLY <2>1, <2>2, t \in Seq(S), f \in Nat, Cut
  <2>5. \A k \in 1 .. e - f : f + k \in 1 .. e
    BY ONLY <1>1, f \in Nat, e \in Nat
  <2>6. \A k \in 1 .. Len(u) : u[k] = v[k]
    BY ONLY <2>3, <2>4, <2>5, \A k \in 1 .. e : s[k] = t[k]
  <2>7. u = v
    BY ONLY <2>3, <2>4, <2>6, SeqEqual
  <2> QED
    BY ONLY <2>1, <2>7
<1>2. CASE ~(f <= e)
  <2>1. f + 1 \in Int /\ e \in Int /\ e < f + 1
    BY <1>2
  <2> QED
    BY ONLY <2>1, SubSeqEmpty
<1> QED
  BY <1>1, <1>2

LEMMA JobsKept ==
    ASSUME RequestsInv
    PROVE  /\ jobs \in Seq(DOMAIN req) /\ DOMAIN jobs = 1 .. Len(jobs)
           /\ Len(jobs) \in Nat /\ opened \in Seq(Frames) /\ Len(opened) \in Nat
           /\ \A i \in 1 .. Len(jobs) : jobs[i] \in DOMAIN req
                                        /\ jobs[i] \in Range(jobs)
<1>1. jobs \in Seq(DOMAIN req) /\ opened \in Seq(Frames)
  BY DEF RequestsInv, RequestsTypeOK
<1>2. DOMAIN jobs = 1 .. Len(jobs) /\ Len(jobs) \in Nat /\ Len(opened) \in Nat
      /\ \A i \in 1 .. Len(jobs) : jobs[i] \in DOMAIN req
  BY <1>1
<1> QED
  BY <1>1, <1>2 DEF Range

Waiting(i, q) ==
    /\ [type |-> req[q].type, body |-> Body(q)] = opened[Old + i]
    /\ req[q].array = Len(mem) => req[q].to <= buf.off
AllWaiting ==
    Old >= 0 /\ \A i \in DOMAIN jobs : \A q : q = jobs[i] => Waiting(i, q)

LEMMA JobsWaiting == JobsAsOpened <=> AllWaiting
BY DEF JobsAsOpened, AllWaiting, Waiting

LEMMA ReadHandled ==
    ASSUME RequestsInv, HandledInStep, NEW n \in Reads, Read(n)
    PROVE  HandledInStep'
<1> SUFFICES ASSUME ~ misread', ~ reused' PROVE HandledInStep'
  BY DEF HandledInStep
<1>1. ReaderOK /\ ObjectsOK
  BY Parts
<1>2. PICK data : data = SubSeq(unread, 1, n)
  OBVIOUS
<1>3. data \in Seq(Byte)
  <2>1. n \in Nat \ {0} /\ n <= Len(unread) /\ unread \in Seq(Byte)
    BY <1>1, RequestsAssumption DEF RequestsAssumption, Read, ReaderOK
  <2>2. 0 \in Nat /\ n \in 0 .. Len(unread) /\ data = SubSeq(unread, 0 + 1, n)
    BY <1>2, <2>1
  <2> QED
    BY ONLY <2>1, <2>2, Cut
<1>4. Written(data)
  <2>1. Write(data) /\ BufferOK /\ reused \in BOOLEAN
    BY <1>1, <1>2 DEF Read, ReaderOK
  <2> QED
    BY <1>3, <2>1, RequestsAssumption, WriteEffect
<1>5. UNCHANGED <<req, jobs, opened, handled, misread>>
  BY DEF Read, workVars
<1>6. /\ mem' \in Seq(Seq(Byte)) /\ Len(mem') \in {Len(mem), Len(mem) + 1}
      /\ \A i \in 1 .. Len(mem) : Len(mem'[i]) = Len(mem[i])
      /\ Len(mem') = Len(mem) => buf'.off = buf.off
      /\ \A i \in 1 .. Len(mem) : i # Len(mem) => mem'[i] = mem[i]
      /\ \A k \in 1 .. buf.off : mem'[Len(mem)][k] = mem[Len(mem)][k]
      /\ ~ reused
  <2>1. reused' \in {reused, TRUE} /\ reused \in BOOLEAN
    BY ONLY <1>1, <1>4 DEF Written, ReaderOK
  <2>2. ~ reused
    BY ONLY <2>1, ~ reused'
  <2> QED
    BY ONLY <1>4, <2>2, ~ reused' DEF Written
<1>7. /\ mem \in Seq(Seq(Byte)) /\ DOMAIN mem = 1 .. Len(mem)
      /\ Len(mem) \in Nat
      /\ DOMAIN mem' = 1 .. Len(mem')
  BY <1>1, <1>6 DEF ReaderOK, BufferOK
<1>8. HandledAsSent /\ HandledOnce /\ JobsAsOpened
  BY <1>5, <1>6 DEF HandledInStep
<1>9. ASSUME NEW i \in DOMAIN jobs, NEW r, r = jobs[i]
      PROVE  Waiting(i, r)'
  <2>1. PICK q, f, e, j : /\ q = req[r] /\ j = q.array
                          /\ f = q.from /\ e = q.to
    OBVIOUS
  <2>2. r \in DOMAIN req
    BY <1>9, JobsKept
  <2>3. q \in Objects /\ j \in DOMAIN mem /\ e <= Len(mem[j])
    BY <1>1, <2>1, <2>2 DEF ObjectsOK
  <2>4. f \in Nat /\ e \in Nat
    BY ONLY <2>1, <2>3 DEF Objects
  <2>5. /\ [type |-> q.type, body |-> Body(r)] = opened[Old + i]
        /\ j = Len(mem) => e <= buf.off
    BY ONLY <1>8, <1>9, <2>1, JobsWaiting DEF AllWaiting, Waiting
  <2>6. j \in 1 .. Len(mem) /\ j \in 1 .. Len(mem')
    <3>1. \A x, y : x \in Nat /\ y \in {x, x + 1} => 1 .. x \subseteq 1 .. y
      OBVIOUS
    <3> QED
      BY ONLY <1>6, <1>7, <2>3, <3>1
  <2>7. SubSeq(mem'[j], f + 1, e) = SubSeq(mem[j], f + 1, e)
    <3>1. CASE j # Len(mem)
      BY ONLY <1>6, <2>6, <3>1
    <3>2. CASE j = Len(mem)
      <4>1. PICK x, y : x = mem'[j] /\ y = mem[j]
        OBVIOUS
      <4>2. x \in Seq(Byte) /\ y \in Seq(Byte) /\ Len(x) = Len(y)
        <5>1. Len(mem'[j]) = Len(mem[j])
          BY ONLY <1>6, <2>6
        <5>2. mem'[j] \in Seq(Byte)
          BY ONLY <1>6, <2>6, ElementOfSeq
        <5>3. mem[j] \in Seq(Byte)
          BY ONLY <1>7, <2>6, ElementOfSeq
        <5> QED
          BY ONLY <4>1, <5>1, <5>2, <5>3
      <4>3. buf.off \in Nat
        BY <1>1, Buffer DEF ReaderOK
      <4>4. e <= Len(y) /\ \A k \in 1 .. e : k \in 1 .. buf.off
        BY ONLY <2>3, <2>4, <2>5, <3>2, <4>1, <4>3
      <4>5. \A k \in 1 .. e : x[k] = y[k]
        BY ONLY <1>6, <3>2, <4>1, <4>4
      <4>6. e <= Len(x)
        BY ONLY <4>2, <4>4
      <4>7. SubSeq(x, f + 1, e) = SubSeq(y, f + 1, e)
        BY ONLY <2>4, <4>2, <4>4, <4>5, <4>6, SameCut
      <4> QED
        BY ONLY <4>1, <4>7
    <3> QED
      BY ONLY <3>1, <3>2
  <2>8. Body(r)' = Body(r)
    BY ONLY <1>5, <2>1, <2>7 DEF Body, Slice
  <2>9. j = Len(mem') => e <= buf'.off
    <3>1. j = Len(mem') => Len(mem') = Len(mem)
      <4>1. \A x, y, z : x \in Nat /\ y \in {x, x + 1} /\ z \in 1 .. x
                            /\ z = y => y = x
        OBVIOUS
      <4> QED
        BY ONLY <1>6, <1>7, <2>6, <4>1
    <3> QED
      BY ONLY <1>6, <2>5, <3>1
  <2>10. Old' = Old
    BY ONLY <1>5 DEF Old
  <2> QED
    BY ONLY <1>5, <2>1, <2>5, <2>8, <2>9, <2>10 DEF Waiting
<1>10. Old' = Old /\ HandledAsSent' /\ HandledOnce'
  BY ONLY <1>5, <1>8 DEF Old, HandledAsSent, HandledOnce
<1>11. JobsAsOpened'
  <2>1. AllWaiting'
    BY ONLY <1>5, <1>8, <1>9, <1>10, JobsWaiting DEF AllWaiting
  <2> QED
    BY ONLY <2>1, JobsWaiting, PTL
<1> QED
  BY ONLY <1>10, <1>11 DEF HandledInStep

LEMMA UnpackHandled ==
    ASSUME RequestsInv, HandledInStep, NEW r \in 1 .. Len(req) + 1, Unpack(r)
    PROVE  HandledInStep'
<1> SUFFICES ASSUME ~ misread', ~ reused' PROVE HandledInStep'
  BY DEF HandledInStep
<1>1. ReaderOK /\ ObjectsOK /\ WorkersOK /\ OwnedOnce
  BY Parts
<1>2. /\ ~ misread /\ ~ reused /\ ~(BufLen < 7 + BodyLen)
      /\ jobs' = Append(jobs, r) /\ UNCHANGED <<mem, handled>>
      /\ buf' = [buf EXCEPT !.off = IF Next7 < buf.end THEN Next7 ELSE buf.end]
  BY DEF Unpack, workVars
<1>3. HandledAsSent /\ HandledOnce /\ JobsAsOpened
  BY <1>2 DEF HandledInStep
<1>4. /\ req' \in Seq(Objects) /\ req'[r] = Made(r)
      /\ Made(r).type = Uint16(buf.off) /\ Made(r).array = Len(mem)
      /\ Made(r).from = buf.off + 7 /\ Made(r).to = Next7
      /\ \A q \in DOMAIN req : q # r => req'[q] = req[q]
  BY ONLY <1>1, r \in 1 .. Len(req) + 1, Unpack(r), UnpackMakes
<1>5. PICK frame \in Frames :
         /\ opened' = Append(opened, frame)
         /\ frame.type = Uint16(buf.off)
         /\ frame.body = SubSeq(Newest, buf.off + 7 + 1, Next7)
  BY ONLY <1>1, Unpack(r), UnpackOpens
<1>6. PICK m, n, o : m = Len(jobs) /\ n = Len(opened) /\ o = Old
  OBVIOUS
<1>7. m \in Nat /\ n \in Nat /\ o = n - m /\ o >= 0
  BY ONLY <1>3, <1>6, RequestsInv, JobsKept DEF JobsAsOpened, Old
<1>8. /\ Len(opened') = n + 1 /\ opened'[n + 1] = frame
      /\ \A i \in 1 .. n : opened'[i] = opened[i]
  <2>1. opened \in Seq(Frames)
    BY ONLY RequestsInv, JobsKept
  <2> QED
    BY ONLY <1>5, <1>6, <2>1
<1>9. /\ Len(jobs') = m + 1 /\ jobs'[m + 1] = r /\ DOMAIN jobs' = 1 .. m + 1
      /\ \A i \in 1 .. m : jobs'[i] = jobs[i]
  <2>1. jobs \in Seq(DOMAIN req)
    BY ONLY RequestsInv, JobsKept
  <2> QED
    BY ONLY <1>2, <1>6, <2>1
<1>10. Old' = o
  <2>1. Old' = (n + 1) - (m + 1)
    BY ONLY <1>8, <1>9 DEF Old
  <2> QED
    BY ONLY <1>7, <2>1
<1>11. HandledAsSent'
  BY ONLY <1>2, <1>3 DEF HandledAsSent
<1>12. HandledOnce'
  <2>1. \A i \in 1 .. o : opened'[i] = opened[i]
    <3>1. \A i \in 1 .. o : i \in 1 .. n
      BY ONLY <1>7
    <3> QED
      BY ONLY <1>8, <3>1
  <2> QED
    BY ONLY <1>2, <1>3, <1>6, <1>10, <2>1 DEF HandledOnce
<1>13. /\ buf.off \in Nat /\ buf.end \in Nat /\ BufLen = buf.end - buf.off
       /\ buf.off <= buf.end /\ Newest = mem[Len(mem)]
       /\ buf \in [off : Nat, end : Nat]
  <2>1. BufferOK
    BY <1>1 DEF ReaderOK
  <2> QED
    BY ONLY <2>1, Buffer DEF BufferOK
<1>14. BodyLen \in Nat /\ Next7 = buf.off + 7 + BodyLen /\ Next7 \in Nat
  <2>1. BufferOK /\ Ready /\ ~ OutOfRange
    BY <1>1 DEF ReaderOK, Unpack
  <2> QED
    BY ONLY <2>1, Header
<1>15. buf'.off = Next7 /\ buf.off <= Next7
  <2>1. PICK x : x = IF Next7 < buf.end THEN Next7 ELSE buf.end
    OBVIOUS
  <2>2. x = Next7 /\ buf.off <= Next7
    BY ONLY <1>2, <1>13, <1>14, <2>1
  <2>3. buf' = [buf EXCEPT !.off = x]
    BY ONLY <1>2, <2>1
  <2> QED
    BY ONLY <1>13, <2>2, <2>3
<1>16. ASSUME NEW i \in 1 .. m, NEW q, q = jobs'[i] PROVE Waiting(i, q)'
  <2>1. q = jobs[i]
    BY ONLY <1>9, <1>16
  <2>2. q \in DOMAIN req /\ q \in Range(jobs) /\ i \in DOMAIN jobs
    BY ONLY <1>6, <1>16, <2>1, RequestsInv, JobsKept
  <2>3. q # r
    BY ONLY <1>1, <2>2, RequestsInv, Unpack(r), NotInJobs
  <2>4. req'[q] = req[q] /\ Body(q)' = Body(q)
    BY ONLY <1>2, <1>4, <2>2, <2>3 DEF Body, Slice
  <2>5. /\ [type |-> req[q].type, body |-> Body(q)] = opened[o + i]
        /\ req[q].array = Len(mem) => req[q].to <= buf.off
    BY ONLY <1>3, <1>6, <2>1, <2>2, JobsWaiting DEF AllWaiting, Waiting
  <2>6. opened'[o + i] = opened[o + i]
    <3>1. o + i \in 1 .. n
      BY ONLY <1>7, <1>16
    <3> QED
      BY ONLY <1>8, <3>1
  <2>7. req[q].array = Len(mem) => req[q].to <= Next7
    <3>1. req[q].to \in Nat
      <4>1. req[q] \in Objects
        BY ONLY <1>1, <2>2 DEF ObjectsOK
      <4> QED
        BY ONLY <4>1 DEF Objects
    <3> QED
      BY ONLY <1>13, <1>14, <1>15, <2>5, <3>1, SMTT(20)
  <2> QED
    BY ONLY <1>2, <1>10, <1>15, <2>4, <2>5, <2>6, <2>7 DEF Waiting
<1>17. Waiting(m + 1, r)'
  <2>1. o + (m + 1) = n + 1
    BY ONLY <1>7
  <2>2. Body(r)' = frame.body
    BY ONLY <1>2, <1>4, <1>5, <1>13 DEF Body, Slice
  <2>3. frame = [type |-> frame.type, body |-> frame.body]
    BY ONLY frame \in Frames DEF Frames
  <2>4. req'[r].type = frame.type
    BY ONLY <1>4, <1>5
  <2>5. opened'[o + (m + 1)] = frame
    BY ONLY <1>8, <2>1
  <2>6. req'[r].to <= buf'.off
    BY ONLY <1>4, <1>14, <1>15
  <2> QED
    BY ONLY <1>10, <2>2, <2>3, <2>4, <2>5, <2>6 DEF Waiting
<1>18. JobsAsOpened'
  <2>1. \A i \in 1 .. m + 1 : i \in 1 .. m \/ i = m + 1
    BY ONLY <1>7
  <2>2. ASSUME NEW i \in DOMAIN jobs', NEW q, q = jobs'[i]
        PROVE  Waiting(i, q)'
    <3>1. CASE i \in 1 .. m
      BY ONLY <1>16, <2>2, <3>1
    <3>2. CASE i = m + 1
      BY ONLY <1>9, <1>17, <2>2, <3>2
    <3> QED
      BY ONLY <1>9, <2>1, <2>2, <3>1, <3>2
  <2>3. AllWaiting'
    BY ONLY <1>7, <1>10, <2>2 DEF AllWaiting
  <2> QED
    BY ONLY <2>3, JobsWaiting, PTL
<1> QED
  BY ONLY <1>11, <1>12, <1>18 DEF HandledInStep

(* The first of the jobs is the oldest frame that is not handled yet.       *)
LEMMA FirstJob ==
    ASSUME RequestsInv, JobsAsOpened, jobs # <<>>
    PROVE  /\ Head(jobs) = jobs[1] /\ 1 \in DOMAIN jobs
           /\ Old + 1 \in 1 .. Len(opened) /\ Old \in Nat
           /\ Len(Tail(jobs)) = Len(jobs) - 1
           /\ DOMAIN Tail(jobs) = 1 .. Len(jobs) - 1
           /\ \A i \in 1 .. Len(jobs) - 1 :
                 i + 1 \in DOMAIN jobs /\ Tail(jobs)[i] = jobs[i + 1]
           /\ [type |-> req[Head(jobs)].type, body |-> Body(Head(jobs))]
                = opened[Old + 1]
<1>1. jobs \in Seq(DOMAIN req) /\ DOMAIN jobs = 1 .. Len(jobs)
      /\ Len(jobs) \in Nat /\ Len(opened) \in Nat
  BY JobsKept
<1>2. PICK D, s, t : D = DOMAIN req /\ s = jobs /\ t = Tail(s)
  OBVIOUS
<1>3. /\ t \in Seq(D) /\ Len(t) = Len(s) - 1 /\ Len(s) \in Nat \ {0}
      /\ Head(s) = s[1] /\ \A i \in 1 .. Len(t) : t[i] = s[i + 1]
  <2>1. s \in Seq(D) /\ s # <<>> /\ t = Tail(s)
    BY ONLY <1>1, <1>2, jobs # <<>>
  <2> QED
    BY ONLY <2>1, FirstTaken
<1>4. DOMAIN t = 1 .. Len(s) - 1
  BY ONLY <1>3
<1>5. \A i \in 1 .. Len(s) - 1 : i + 1 \in 1 .. Len(s)
  BY ONLY <1>3
<1>6. 1 \in 1 .. Len(s)
  BY ONLY <1>3
<1>7. Old >= 0 /\ Old = Len(opened) - Len(jobs)
  BY DEF JobsAsOpened, Old
<1>8. Old + 1 \in 1 .. Len(opened) /\ Old \in Nat
  <2>1. Len(jobs) \in Nat \ {0}
    BY ONLY <1>2, <1>3
  <2> QED
    BY ONLY <1>1, <1>7, <2>1
<1>9. Waiting(1, Head(jobs))
  BY <1>1, <1>2, <1>3, <1>6, JobsWaiting DEF AllWaiting
<1> QED
  BY ONLY <1>1, <1>2, <1>3, <1>4, <1>5, <1>6, <1>8, <1>9 DEF Waiting

LEMMA RestWaits ==
    ASSUME RequestsInv, JobsAsOpened, jobs # <<>>, jobs' = Tail(jobs),
           UNCHANGED <<mem, buf, opened, req>>
    PROVE  JobsAsOpened' /\ Old' = Old + 1
<1>1. /\ Old + 1 \in 1 .. Len(opened) /\ Old \in Nat
      /\ Len(jobs') = Len(jobs) - 1 /\ DOMAIN jobs' = 1 .. Len(jobs) - 1
      /\ \A i \in 1 .. Len(jobs) - 1 :
            i + 1 \in DOMAIN jobs /\ jobs'[i] = jobs[i + 1]
  BY FirstJob
<1>2. Len(jobs) \in Nat /\ Len(opened) \in Nat
  BY JobsKept
<1>3. Old' = Old + 1
  <2>1. Old' = Len(opened) - (Len(jobs) - 1) /\ Old = Len(opened) - Len(jobs)
    BY <1>1 DEF Old
  <2> QED
    BY ONLY <1>2, <2>1
<1>4. ASSUME NEW i \in DOMAIN jobs', NEW q, q = jobs'[i] PROVE Waiting(i, q)'
  <2>1. i + 1 \in DOMAIN jobs /\ q = jobs[i + 1] /\ i \in Nat
    BY ONLY <1>1, <1>2, <1>4
  <2>2. Waiting(i + 1, q)
    BY <2>1, JobsWaiting DEF AllWaiting
  <2>3. Old' + i = Old + (i + 1)
    BY ONLY <1>1, <1>3, <2>1
  <2> QED
    BY <2>2, <2>3 DEF Waiting, Body, Slice
<1>5. AllWaiting'
  <2>1. Old' >= 0
    BY ONLY <1>1, <1>3
  <2> QED
    BY ONLY <1>4, <2>1 DEF AllWaiting
<1>6. JobsAsOpened'
  BY ONLY <1>5, JobsWaiting, PTL
<1> QED
  BY ONLY <1>3, <1>6

LEMMA RefuseHandled ==
    ASSUME RequestsInv, HandledInStep, NEW w \in Workers, Refuse(w)
    PROVE  HandledInStep'
<1> SUFFICES ASSUME ~ misread', ~ reused' PROVE HandledInStep'
  BY DEF HandledInStep
<1>1. /\ jobs # <<>> /\ jobs' = Tail(jobs)
      /\ UNCHANGED <<mem, buf, opened, misread, reused, handled, req>>
  BY DEF Refuse, bufVars, workVars
<1>2. HandledAsSent /\ HandledOnce /\ JobsAsOpened
  BY <1>1 DEF HandledInStep
<1>3. JobsAsOpened' /\ Old' = Old + 1
  BY ONLY <1>1, <1>2, RequestsInv, RestWaits
<1>4. Old \in Nat
  BY ONLY <1>1, <1>2, RequestsInv, FirstJob
<1>5. \A i \in 1 .. Old : i \in 1 .. Old + 1
  BY ONLY <1>4
<1>6. HandledAsSent' /\ HandledOnce'
  BY ONLY <1>1, <1>2, <1>3, <1>5 DEF HandledAsSent, HandledOnce
<1> QED
  BY ONLY <1>3, <1>6 DEF HandledInStep

LEMMA StartJobHandled ==
    ASSUME RequestsInv, InStep, HandledInStep, NEW w \in Workers, StartJob(w)
    PROVE  HandledInStep'
<1> SUFFICES ASSUME ~ misread', ~ reused' PROVE HandledInStep'
  BY DEF HandledInStep
<1>1. PICK e : e = [type |-> req[Head(jobs)].type, body |-> Body(Head(jobs))]
  OBVIOUS
<1>2. /\ jobs # <<>> /\ jobs' = Tail(jobs)
      /\ UNCHANGED <<mem, buf, opened, misread, reused, req>>
      /\ handled' \in {handled, Append(handled, e)}
  BY <1>1 DEF StartJob, bufVars
<1>3. HandledAsSent /\ HandledOnce /\ JobsAsOpened /\ ~ misread
  BY <1>2 DEF HandledInStep
<1>4. JobsAsOpened' /\ Old' = Old + 1
  BY ONLY <1>2, <1>3, RequestsInv, RestWaits
<1>5. PICK o : o = Old
  OBVIOUS
<1>6. o \in Nat /\ o + 1 \in 1 .. Len(opened) /\ e = opened[o + 1]
  BY ONLY <1>1, <1>2, <1>3, <1>5, RequestsInv, FirstJob
<1>7. /\ opened \in Seq(Frames) /\ Stream \in Seq(Frames)
      /\ handled \in Seq(Frames) /\ IsInjective(Stream)
  BY RequestsAssumption DEF RequestsInv, RequestsTypeOK, RequestsAssumption
<1>8. /\ Len(opened) <= Len(Stream)
      /\ \A i \in 1 .. Len(opened) : opened[i] = Stream[i]
  <2>1. IsPrefix(opened, Stream)
    BY <1>3 DEF InStep
  <2> QED
    BY ONLY <1>7, <2>1, Prefix
<1>9. /\ DOMAIN Stream = 1 .. Len(Stream)
      /\ \A i \in 1 .. Len(opened) : i \in 1 .. Len(Stream)
  BY ONLY <1>7, <1>8
<1>10. \A i \in 1 .. o : i \in 1 .. Len(opened) /\ i # o + 1
  BY ONLY <1>6, <1>7
<1>11. e \in Range(Stream) /\ e \in Frames
  <2>1. e \in Range(Stream)
    BY ONLY <1>6, <1>8, <1>9 DEF Range
  <2> QED
    BY ONLY <1>6, <1>7, <2>1
<1>12. e \notin Range(handled)
  <2>1. ASSUME NEW i \in 1 .. o PROVE opened[i] # e
    <3>1. Stream[i] # Stream[o + 1]
      BY ONLY <1>6, <1>7, <1>9, <1>10, i \in 1 .. o DEF IsInjective
    <3> QED
      BY ONLY <1>6, <1>8, <1>10, <3>1, i \in 1 .. o
  <2> QED
    BY ONLY <1>3, <1>5, <2>1 DEF HandledOnce
<1>13. /\ Range(handled') \subseteq Range(handled) \cup {e}
       /\ IsInjective(handled')
  <2>1. CASE handled' = handled
    BY ONLY <1>3, <2>1 DEF HandledAsSent
  <2>2. CASE handled' = Append(handled, e)
    <3>1. /\ handled' \in Seq(Frames) /\ Len(handled') = Len(handled) + 1
          /\ handled'[Len(handled) + 1] = e
          /\ \A i \in 1 .. Len(handled) : handled'[i] = handled[i]
      BY ONLY <1>7, <1>11, <2>2
    <3>2. /\ Range(handled') = Range(handled) \cup {e}
          /\ IsInjective(handled) /\ e \notin Range(handled)
                => IsInjective(handled')
      <4>1. PICK s, t : s = handled /\ t = handled'
        OBVIOUS
      <4>2. /\ s \in Seq(Frames) /\ e \in Frames /\ t \in Seq(Frames)
            /\ Len(t) = Len(s) + 1 /\ t[Len(s) + 1] = e
            /\ \A i \in 1 .. Len(s) : t[i] = s[i]
        BY ONLY <1>7, <1>11, <3>1, <4>1
      <4>3. /\ Range(t) = Range(s) \cup {e}
            /\ IsInjective(s) /\ e \notin Range(s) => IsInjective(t)
        BY ONLY <4>2, LastPut
      <4> QED
        BY ONLY <4>1, <4>3
    <3> QED
      BY ONLY <1>3, <1>12, <3>2 DEF HandledAsSent
  <2> QED
    BY ONLY <1>2, <2>1, <2>2
<1>14. HandledAsSent'
  BY ONLY <1>3, <1>11, <1>13 DEF HandledAsSent
<1>15. HandledOnce'
  <2>1. Range(handled) \subseteq {opened[i] : i \in 1 .. o}
    BY ONLY <1>3, <1>5 DEF HandledOnce
  <2>2. o + 1 \in 1 .. o + 1 /\ \A i \in 1 .. o : i \in 1 .. o + 1
    BY ONLY <1>6
  <2>3. Range(handled') \subseteq {opened[i] : i \in 1 .. o + 1}
    BY ONLY <1>6, <1>13, <2>1, <2>2
  <2> QED
    BY ONLY <1>2, <1>4, <1>5, <2>3 DEF HandledOnce
<1> QED
  BY ONLY <1>4, <1>14, <1>15 DEF HandledInStep

LEMMA HandledInit == RequestsInit => HandledInStep
<1> SUFFICES ASSUME RequestsInit PROVE HandledInStep
  OBVIOUS
<1>1. jobs = <<>> /\ opened = <<>> /\ handled = <<>>
  BY DEF RequestsInit
<1>2. IsInjective(handled) /\ Range(handled) = {}
  BY <1>1 DEF IsInjective, Range
<1>3. Old = 0 /\ DOMAIN jobs = {}
  BY <1>1, EmptySeq DEF Old
<1> QED
  BY <1>2, <1>3 DEF HandledInStep, HandledAsSent, HandledOnce, JobsAsOpened

LEMMA HandledKept ==
    RequestsInv /\ InStep /\ HandledInStep /\ [RequestsNext]_requestsVars
        => HandledInStep'
<1> SUFFICES ASSUME RequestsInv, InStep, HandledInStep,
                    [RequestsNext]_requestsVars
             PROVE  HandledInStep'
  OBVIOUS
<1>1. ASSUME NEW n \in Reads, Read(n) PROVE HandledInStep'
  BY <1>1, ReadHandled
<1>2. ASSUME NEW r \in 1 .. Len(req) + 1, Unpack(r) PROVE HandledInStep'
  BY <1>2, UnpackHandled
<1>3. ASSUME UNCHANGED <<mem, buf, opened, misread, reused, handled, req, jobs>>
      PROVE  HandledInStep'
  BY <1>3 DEF HandledInStep, HandledAsSent, HandledOnce, JobsAsOpened, Old,
              Body, Slice
<1>4. ASSUME UnpackBreak PROVE HandledInStep'
  BY <1>3, <1>4 DEF UnpackBreak, workVars
<1>5. ASSUME UnpackPanic PROVE HandledInStep'
  BY <1>3, <1>5 DEF UnpackPanic, bufVars, workVars
<1>6. ASSUME Reader PROVE HandledInStep'
  BY <1>1, <1>2, <1>4, <1>5, <1>6 DEF Reader
<1>7. ASSUME NEW w \in Workers, Worker(w) PROVE HandledInStep'
  <2>1. CASE Refuse(w)
    BY <2>1, RefuseHandled
  <2>2. CASE StartJob(w)
    BY <2>2, StartJobHandled
  <2>3. CASE Authenticate(w) \/ Forward(w) \/ PutBack(w)
    BY <1>3, <2>3 DEF Authenticate, Forward, PutBack, bufVars
  <2> QED
    BY <1>7, <2>1, <2>2, <2>3 DEF Worker
<1>8. ASSUME WriteLoop PROVE HandledInStep'
  BY <1>3, <1>8 DEF WriteLoop, bufVars, workVars
<1>9. ASSUME UNCHANGED requestsVars PROVE HandledInStep'
  BY <1>3, <1>9 DEF requestsVars, bufVars, workVars
<1> QED
  BY <1>6, <1>7, <1>8, <1>9 DEF RequestsNext

(* Until an array of the buffer is used again, every handler reads one of   *)
(* the frames sent, whichever worker has it and however many wait, and no   *)
(* frame is handled twice.                                                  *)
THEOREM HandledOnceInStep == RequestsSpec => []HandledInStep
<1>1. RequestsSpec => [](RequestsInv /\ InStep)
  BY RequestsCorrect, FramesInStep, PTL
<1> QED
  BY <1>1, HandledInit, HandledKept, PTL DEF RequestsSpec

(* ... and the three of them under the fairness that the run adds.      *)
COROLLARY FairRequestsCorrect ==
    FairRequests => [](RequestsInv /\ InStep /\ HandledInStep)
BY RequestsCorrect, FramesInStep, HandledOnceInStep, PTL DEF FairRequests

-----------------------------------------------------------------------------
(* Parents and children in the array, the times of its elements, and what   *)
(* is true of every index.                                                  *)
Under(p, k) == k = 2 * p + 1 \/ k = 2 * p + 2
Key(h, k) == h.timeout[At(h, k)]
Indexed(h) ==
    /\ \A k \in 0 .. Len(h.arr) - 1 : h.index[At(h, k)] = k
    /\ \A m \in Msgs \ Range(h.arr) : h.index[m] = -1

(* g has the elements of h, in another order below n.                       *)
Reordered(h, g, n) ==
    /\ g \in Heaps /\ Len(g.arr) = Len(h.arr) /\ g.timeout = h.timeout
    /\ Range(g.arr) = Range(h.arr) /\ Indexed(g)
    /\ \A k \in n .. Len(h.arr) - 1 : At(g, k) = At(h, k)

LEMMA HeapFields ==
    ASSUME NEW h \in Heaps
    PROVE  /\ h.arr \in Seq(Msgs) /\ Len(h.arr) \in Nat
           /\ h.index \in [Msgs -> Int] /\ h.timeout \in [Msgs -> Times]
           /\ Range(h.arr) \subseteq Msgs
           /\ \A k \in 0 .. Len(h.arr) - 1 :
                 At(h, k) \in Msgs /\ At(h, k) \in Range(h.arr)
           /\ \A m \in Range(h.arr) :
                 \E k \in 0 .. Len(h.arr) - 1 : At(h, k) = m
<1>1. /\ h.arr \in Seq(Msgs) /\ Len(h.arr) \in Nat
      /\ h.index \in [Msgs -> Int] /\ h.timeout \in [Msgs -> Times]
  BY DEF Heaps
<1>2. DOMAIN h.arr = 1 .. Len(h.arr)
      /\ \A i \in 1 .. Len(h.arr) : h.arr[i] \in Msgs
  BY <1>1
<1>3. Range(h.arr) = {h.arr[i] : i \in 1 .. Len(h.arr)}
  BY <1>2 DEF Range
<1>4. ASSUME NEW k \in 0 .. Len(h.arr) - 1
      PROVE  At(h, k) \in Msgs /\ At(h, k) \in Range(h.arr)
  <2>1. k + 1 \in 1 .. Len(h.arr)
    BY <1>1
  <2> QED
    BY <1>2, <1>3, <2>1 DEF At
<1>5. ASSUME NEW m \in Range(h.arr)
      PROVE  \E k \in 0 .. Len(h.arr) - 1 : At(h, k) = m
  <2>1. PICK i \in 1 .. Len(h.arr) : h.arr[i] = m
    BY <1>3
  <2>2. i - 1 \in 0 .. Len(h.arr) - 1 /\ (i - 1) + 1 = i
    BY <1>1
  <2>3. At(h, i - 1) = m
    BY <2>1, <2>2 DEF At
  <2> QED
    BY <2>2, <2>3
<1> QED
  BY <1>1, <1>2, <1>3, <1>4, <1>5

(* What Swap does to each field.                                            *)
Swapped(h, s, i, j) ==
    /\ s \in Heaps /\ Len(s.arr) = Len(h.arr)
    /\ s.timeout = h.timeout
    /\ At(s, i) = At(h, j) /\ At(s, j) = At(h, i)
    /\ \A k \in 0 .. Len(h.arr) - 1 : k # i /\ k # j => At(s, k) = At(h, k)
    /\ s.index = [h.index EXCEPT ![At(h, j)] = i, ![At(h, i)] = j]

LEMMA SwapFields ==
    ASSUME NEW h \in Heaps, Indexed(h), NEW i \in 0 .. Len(h.arr) - 1,
           NEW j \in 0 .. Len(h.arr) - 1
    PROVE  Swapped(h, Swap(h, i, j), i, j)
<1>0. PICK s : s = Swap(h, i, j)
  OBVIOUS
<1> DEFINE a == h.arr
           b == [a EXCEPT ![i + 1] = At(h, j), ![j + 1] = At(h, i)]
           x == [h.index EXCEPT ![At(h, j)] = i, ![At(h, i)] = j]
<1>1. /\ a \in Seq(Msgs) /\ Len(a) \in Nat
      /\ h.index \in [Msgs -> Int] /\ h.timeout \in [Msgs -> Times]
      /\ At(h, i) \in Msgs /\ At(h, j) \in Msgs
  BY HeapFields
<1>2. s.arr = b /\ s.index = x /\ s.timeout = h.timeout
      /\ s = [h EXCEPT !.arr = b, !.index = x]
  BY <1>0 DEF Swap, Heaps
<1>3. i + 1 \in 1 .. Len(a) /\ j + 1 \in 1 .. Len(a)
  BY <1>1
<1>4. b \in Seq(Msgs) /\ Len(b) = Len(a)
  BY <1>1, <1>3
<1>5. \A k \in 1 .. Len(a) : b[k] = IF k = j + 1 THEN At(h, i)
                                    ELSE IF k = i + 1 THEN At(h, j) ELSE a[k]
  <2>1. DOMAIN a = 1 .. Len(a)
    BY <1>1
  <2> HIDE DEF a
  <2> QED
    BY ONLY <1>3, <2>1
<1>6. x \in [Msgs -> Int]
  BY ONLY <1>1, SMTT(30)
<1>7. s \in Heaps
  <2> HIDE DEF b, x
  <2> QED
    BY <1>1, <1>2, <1>4, <1>6 DEF Heaps
<1>8. \A k \in 0 .. Len(a) - 1 : k + 1 \in 1 .. Len(a)
  BY <1>1
<1>9. \A k \in 0 .. Len(a) - 1 : At(s, k) = IF k + 1 = j + 1 THEN At(h, i)
                             ELSE IF k + 1 = i + 1 THEN At(h, j) ELSE At(h, k)
  <2> HIDE DEF b, x
  <2> QED
    BY <1>2, <1>5, <1>8 DEF At
<1>10. /\ At(s, j) = At(h, i)
       /\ At(s, i) = At(h, j)
       /\ \A k \in 0 .. Len(a) - 1 : k # i /\ k # j => At(s, k) = At(h, k)
  <2> HIDE DEF a
  <2>1. Len(a) \in Nat /\ i \in 0 .. Len(a) - 1 /\ j \in 0 .. Len(a) - 1
    BY <1>1 DEF a
  <2>2. i + 1 = j + 1 => i = j
    BY ONLY <2>1
  <2>3. \A k \in 0 .. Len(a) - 1 : k # i /\ k # j => k + 1 # i + 1 /\ k + 1 # j + 1
    BY ONLY <2>1
  <2> QED
    BY ONLY <1>9, <2>1, <2>2, <2>3, Zenon
<1>11. Swapped(h, s, i, j)
  BY <1>2, <1>4, <1>7, <1>10 DEF Swapped
<1> QED
  BY <1>0, <1>11

LEMMA SwapReorders ==
    ASSUME NEW h \in Heaps, Indexed(h), NEW n \in 0 .. Len(h.arr),
           NEW i \in 0 .. n - 1, NEW j \in 0 .. n - 1
    PROVE  Reordered(h, Swap(h, i, j), n)
<1>1. PICK s : s = Swap(h, i, j)
  OBVIOUS
<1>2. PICK l : l = Len(h.arr)
  OBVIOUS
<1>3. l \in Nat /\ n \in 0 .. l /\ i \in 0 .. l - 1 /\ j \in 0 .. l - 1
  BY <1>2, HeapFields
<1>4. /\ s \in Heaps /\ Len(s.arr) = l /\ s.timeout = h.timeout
      /\ At(s, i) = At(h, j) /\ At(s, j) = At(h, i)
      /\ \A k \in 0 .. l - 1 : k # i /\ k # j => At(s, k) = At(h, k)
      /\ s.index = [h.index EXCEPT ![At(h, j)] = i, ![At(h, i)] = j]
  <2>1. i \in 0 .. Len(h.arr) - 1 /\ j \in 0 .. Len(h.arr) - 1
    BY ONLY <1>2, <1>3
  <2>2. Swapped(h, s, i, j)
    BY ONLY <1>1, <2>1, h \in Heaps, Indexed(h), SwapFields
  <2> QED
    BY ONLY <1>2, <2>2 DEF Swapped
<1>5. /\ \A k \in 0 .. l - 1 : h.index[At(h, k)] = k /\ At(h, k) \in Msgs
      /\ h.index \in [Msgs -> Int]
  BY <1>2, HeapFields DEF Indexed
<1>6. \A k \in 0 .. l - 1 : s.index[At(s, k)] = k
  <2> TAKE k \in 0 .. l - 1
  <2>1. CASE k = j
    BY <1>3, <1>4, <1>5, <2>1
  <2>2. CASE k # j /\ k = i
    BY <1>3, <1>4, <1>5, <2>2
  <2>3. CASE k # j /\ k # i
    <3>1. At(s, k) = At(h, k) /\ At(h, k) # At(h, i) /\ At(h, k) # At(h, j)
      BY <1>3, <1>4, <1>5, <2>3
    <3> QED
      BY <1>4, <1>5, <3>1
  <2> QED
    BY <2>1, <2>2, <2>3
<1>7. Range(s.arr) = Range(h.arr)
  <2>1. ASSUME NEW m \in Range(s.arr) PROVE m \in Range(h.arr)
    <3>1. PICK k \in 0 .. l - 1 : At(s, k) = m
      BY <1>4, HeapFields
    <3>2. At(s, k) = At(h, i) \/ At(s, k) = At(h, j) \/ At(s, k) = At(h, k)
      BY <1>4, <3>1
    <3> QED
      BY <1>2, <1>3, <3>1, <3>2, HeapFields
  <2>2. ASSUME NEW m \in Range(h.arr) PROVE m \in Range(s.arr)
    <3>1. PICK k \in 0 .. l - 1 : At(h, k) = m
      BY <1>2, HeapFields
    <3>2. At(h, k) = At(s, i) \/ At(h, k) = At(s, j) \/ At(h, k) = At(s, k)
      BY <1>4, <3>1
    <3>3. \A q \in 0 .. l - 1 : At(s, q) \in Range(s.arr)
      BY <1>4, HeapFields
    <3> QED
      BY <1>3, <3>1, <3>2, <3>3
  <2> QED
    BY <2>1, <2>2
<1>8. \A m \in Msgs \ Range(s.arr) : s.index[m] = -1
  <2> TAKE m \in Msgs \ Range(s.arr)
  <2>1. h.index[m] = -1
    BY <1>7 DEF Indexed
  <2>2. m # At(h, i) /\ m # At(h, j)
    BY <1>2, <1>3, <1>7, HeapFields
  <2> QED
    BY <1>4, <1>5, <2>1, <2>2
<1>9. ASSUME NEW k \in n .. l - 1 PROVE At(s, k) = At(h, k)
  <2>1. k \in 0 .. l - 1 /\ k # i /\ k # j
    BY <1>3
  <2> QED
    BY <1>4, <2>1
<1> QED
  BY <1>1, <1>2, <1>4, <1>6, <1>7, <1>8, <1>9 DEF Reordered, Indexed

LEMMA ReorderedTwice ==
    ASSUME NEW h, NEW g, NEW f, NEW n, Reordered(h, g, n), Reordered(g, f, n)
    PROVE  Reordered(h, f, n)
BY DEF Reordered

(* The parent of an element.                                                *)
LEMMA Parent ==
    ASSUME NEW k \in Nat \ {0}
    PROVE  /\ (k - 1) \div 2 \in Nat /\ (k - 1) \div 2 < k
           /\ Under((k - 1) \div 2, k)
           /\ \A p \in Nat : Under(p, k) => p = (k - 1) \div 2
<1>1. PICK q : q = (k - 1) \div 2
  OBVIOUS
<1>2. k - 1 \in Nat
  OBVIOUS
<1>3. q \in Nat /\ (2 * q = k - 1 \/ 2 * q + 1 = k - 1)
  BY <1>1, <1>2, SMT
<1>4. q < k /\ Under(q, k)
  BY <1>3 DEF Under
<1>5. ASSUME NEW p \in Nat, Under(p, k) PROVE p = q
  BY <1>3, <1>5 DEF Under
<1> QED
  BY <1>1, <1>3, <1>4, <1>5

(* The order of a heap's first n elements, but for one element i, and that  *)
(* the children of i come after its parent.                                 *)
Order(h, n) ==
    \A p, k \in 0 .. n - 1 : Under(p, k) => Key(h, p) <= Key(h, k)
Bridged(h, n, i) ==
    \A p, k \in 0 .. n - 1 :
       Under(p, i) /\ Under(i, k) => Key(h, p) <= Key(h, k)
Around(h, n, i) ==
    /\ \A p, k \in 0 .. n - 1 :
          Under(p, k) /\ p # i /\ k # i => Key(h, p) <= Key(h, k)
    /\ Bridged(h, n, i)
Above(h, n, i) ==
    /\ \A p, k \in 0 .. n - 1 :
          Under(p, k) /\ k # i => Key(h, p) <= Key(h, k)
    /\ Bridged(h, n, i)
Below(h, n, i) ==
    /\ \A p, k \in 0 .. n - 1 :
          Under(p, k) /\ p # i => Key(h, p) <= Key(h, k)
    /\ Bridged(h, n, i)

LEMMA OrderParts ==
    ASSUME NEW h, NEW n, NEW i
    PROVE  /\ Above(h, n, i) => Around(h, n, i)
           /\ Below(h, n, i) => Around(h, n, i)
           /\ Order(h, n) /\ Bridged(h, n, i) => Above(h, n, i)
BY DEF Order, Above, Below, Around

(* The times of two elements that Swap exchanges, and of the others.        *)
LEMMA SwapKeys ==
    ASSUME NEW h \in Heaps, Indexed(h), Times \subseteq Int,
           NEW n \in 0 .. Len(h.arr), NEW i \in 0 .. n - 1,
           NEW j \in 0 .. n - 1, NEW s, s = Swap(h, i, j)
    PROVE  /\ n \in Nat /\ \A k \in 0 .. n - 1 : Key(h, k) \in Int
           /\ Key(s, i) = Key(h, j) /\ Key(s, j) = Key(h, i)
           /\ \A k \in 0 .. n - 1 : k # i /\ k # j => Key(s, k) = Key(h, k)
<1>1. /\ Len(h.arr) \in Nat /\ h.timeout \in [Msgs -> Times]
      /\ \A k \in 0 .. Len(h.arr) - 1 : At(h, k) \in Msgs
  BY HeapFields
<1>2. n \in Nat /\ i \in 0 .. Len(h.arr) - 1 /\ j \in 0 .. Len(h.arr) - 1
      /\ \A k \in 0 .. n - 1 : k \in 0 .. Len(h.arr) - 1
  BY <1>1
<1>3. Swapped(h, s, i, j)
  BY ONLY <1>2, h \in Heaps, Indexed(h), s = Swap(h, i, j), SwapFields
<1>4. \A k \in 0 .. n - 1 : Key(h, k) \in Int
  BY <1>1, <1>2 DEF Key
<1> QED
  BY <1>2, <1>3, <1>4 DEF Key, Swapped

(* One step up: i is not later than its parent p, and they are exchanged.   *)
LEMMA StepUp ==
    ASSUME NEW h \in Heaps, Indexed(h), Times \subseteq Int,
           NEW n \in 0 .. Len(h.arr), NEW i \in 0 .. n - 1,
           NEW p \in 0 .. n - 1, Under(p, i), Above(h, n, i),
           Key(h, i) <= Key(h, p), NEW s, s = Swap(h, p, i)
    PROVE  Above(s, n, p)
<1>1. /\ n \in Nat /\ i \in Nat /\ p \in Nat
      /\ \A k \in 0 .. n - 1 : k \in Nat /\ Key(h, k) \in Int
      /\ Key(s, i) = Key(h, p) /\ Key(s, p) = Key(h, i)
      /\ \A k \in 0 .. n - 1 : k # i /\ k # p => Key(s, k) = Key(h, k)
  BY SwapKeys
<1>2. p < i
  BY <1>1 DEF Under
<1>3. ASSUME NEW q \in 0 .. n - 1, Under(q, i) PROVE q = p
  BY <1>1, <1>3 DEF Under
<1>4. ASSUME NEW q \in 0 .. n - 1, NEW k \in 0 .. n - 1, Under(q, k), k # p
      PROVE  Key(s, q) <= Key(s, k)
  <2>0. q < k /\ q \in Nat /\ k \in Nat
    BY <1>1, <1>4 DEF Under
  <2>1. CASE k = i
    <3>1. q = p
      BY <1>3, <1>4, <2>1
    <3> QED
      BY <1>1, <2>1, <3>1
  <2>2. CASE k # i /\ q = i
    <3>1. Key(h, p) <= Key(h, k)
      BY <1>4, <2>2 DEF Above, Bridged
    <3> QED
      BY <1>1, <1>4, <2>2, <3>1
  <2>3. CASE k # i /\ q = p
    <3>1. Key(h, p) <= Key(h, k)
      BY <1>4, <2>3 DEF Above
    <3> QED
      BY <1>1, <1>4, <2>3, <3>1
  <2>4. CASE k # i /\ q # i /\ q # p
    <3>1. Key(h, q) <= Key(h, k)
      BY <1>4, <2>4 DEF Above
    <3> QED
      BY <1>1, <1>4, <2>4, <3>1
  <2> QED
    BY <2>1, <2>2, <2>3, <2>4
<1>5. ASSUME NEW q \in 0 .. n - 1, NEW k \in 0 .. n - 1, Under(q, p), Under(p, k)
      PROVE  Key(s, q) <= Key(s, k)
  <2>1. q < p /\ q \in Nat /\ p < k /\ k \in Nat
    BY <1>1, <1>5 DEF Under
  <2>2. Key(s, q) = Key(h, q) /\ Key(h, q) <= Key(h, p)
    BY <1>1, <1>2, <1>5, <2>1 DEF Above
  <2>3. CASE k = i
    BY <1>1, <2>2, <2>3
  <2>4. CASE k # i
    <3>1. Key(h, p) <= Key(h, k)
      BY <1>5, <2>4 DEF Above
    <3>2. Key(s, k) = Key(h, k)
      BY <1>1, <2>1, <2>4
    <3> QED
      BY <1>1, <2>2, <3>1, <3>2
  <2> QED
    BY <2>3, <2>4
<1> QED
  BY <1>4, <1>5 DEF Above, Bridged

(* ... and when it goes no further, all is in order.                        *)
LEMMA StopUp ==
    ASSUME NEW h \in Heaps, Times \subseteq Int,
           NEW n \in 0 .. Len(h.arr), NEW i \in 0 .. n - 1, Above(h, n, i),
           \A p \in 0 .. n - 1 : Under(p, i) => Key(h, p) <= Key(h, i)
    PROVE  Order(h, n)
BY DEF Above, Order

(* One step down: the child c of i that comes first is not later than i.    *)
LEMMA StepDown ==
    ASSUME NEW h \in Heaps, Indexed(h), Times \subseteq Int,
           NEW n \in 0 .. Len(h.arr), NEW i \in 0 .. n - 1,
           NEW c \in 0 .. n - 1, Under(i, c), Around(h, n, i),
           Key(h, c) <= Key(h, i), NEW s, s = Swap(h, i, c),
           \A k \in 0 .. n - 1 : Under(i, k) => Key(h, c) <= Key(h, k)
    PROVE  Below(s, n, c)
<1>1. /\ n \in Nat /\ i \in Nat /\ c \in Nat
      /\ \A k \in 0 .. n - 1 : k \in Nat /\ Key(h, k) \in Int
      /\ Key(s, i) = Key(h, c) /\ Key(s, c) = Key(h, i)
      /\ \A k \in 0 .. n - 1 : k # i /\ k # c => Key(s, k) = Key(h, k)
  BY SwapKeys
<1>2. i < c
  BY <1>1 DEF Under
<1>3. ASSUME NEW q \in 0 .. n - 1, Under(q, c) PROVE q = i
  BY <1>1, <1>3 DEF Under
<1>4. ASSUME NEW q \in 0 .. n - 1, NEW k \in 0 .. n - 1, Under(q, k), q # c
      PROVE  Key(s, q) <= Key(s, k)
  <2>0. q < k /\ q \in Nat /\ k \in Nat
    BY <1>1, <1>4 DEF Under
  <2>1. CASE k = c
    <3>1. q = i
      BY <1>3, <1>4, <2>1
    <3> QED
      BY <1>1, <2>1, <3>1
  <2>2. CASE k # c /\ q = i
    <3>1. Key(h, c) <= Key(h, k)
      BY <1>4, <2>2
    <3>2. Key(s, k) = Key(h, k)
      BY <1>1, <2>0, <2>2
    <3> QED
      BY <1>1, <2>2, <3>1, <3>2
  <2>3. CASE k = i
    <3>1. Key(h, q) <= Key(h, c)
      BY <1>4, <2>3 DEF Around, Bridged
    <3>2. Key(s, q) = Key(h, q)
      BY <1>1, <1>4, <2>0, <2>3
    <3> QED
      BY <1>1, <2>3, <3>1, <3>2
  <2>4. CASE k # c /\ k # i /\ q # i
    <3>1. Key(h, q) <= Key(h, k)
      BY <1>4, <2>4 DEF Around
    <3> QED
      BY <1>1, <1>4, <2>4, <3>1
  <2> QED
    BY <2>1, <2>2, <2>3, <2>4
<1>5. ASSUME NEW q \in 0 .. n - 1, NEW k \in 0 .. n - 1, Under(q, c), Under(c, k)
      PROVE  Key(s, q) <= Key(s, k)
  <2>1. q = i /\ c < k /\ k \in Nat
    BY <1>1, <1>3, <1>5 DEF Under
  <2>2. Key(h, c) <= Key(h, k)
    BY <1>1, <1>2, <1>5, <2>1 DEF Around
  <2>3. Key(s, k) = Key(h, k)
    BY <1>1, <1>2, <2>1
  <2> QED
    BY <1>1, <2>1, <2>2, <2>3
<1> QED
  BY <1>4, <1>5 DEF Below, Bridged

LEMMA StopDown ==
    ASSUME NEW h \in Heaps, Times \subseteq Int,
           NEW n \in 0 .. Len(h.arr), NEW i \in 0 .. n - 1,
           \A k \in 0 .. n - 1 : Under(i, k) => Key(h, i) <= Key(h, k)
    PROVE  /\ Around(h, n, i) => Above(h, n, i)
           /\ Below(h, n, i) => Order(h, n)
BY DEF Around, Above, Below, Order

(* Child finds the child that comes first.                                  *)
LEMMA FirstChild ==
    ASSUME NEW h \in Heaps, Times \subseteq Int,
           NEW n \in 0 .. Len(h.arr), NEW i \in 0 .. n - 1, 2 * i + 1 < n,
           NEW c, c = Child(h, i, n)
    PROVE  /\ c \in i + 1 .. n - 1 /\ Under(i, c)
           /\ \A k \in 0 .. n - 1 : Under(i, k) => Key(h, c) <= Key(h, k)
<1>1. /\ Len(h.arr) \in Nat /\ h.timeout \in [Msgs -> Times]
      /\ \A k \in 0 .. Len(h.arr) - 1 : At(h, k) \in Msgs
  BY HeapFields
<1>2. n \in Nat /\ i \in Nat
      /\ \A k \in 0 .. n - 1 : k \in 0 .. Len(h.arr) - 1
  BY <1>1
<1>3. \A k \in 0 .. n - 1 : Key(h, k) \in Int
  BY <1>1, <1>2 DEF Key
<1>4. PICK l : l = 2 * i + 1
  OBVIOUS
<1>5. l \in 0 .. n - 1 /\ l \in i + 1 .. n - 1 /\ l + 1 \in i + 1 .. n
  BY <1>2, <1>4
<1>6. c = IF l + 1 < n /\ Key(h, l + 1) <= Key(h, l) THEN l + 1 ELSE l
  BY <1>4 DEF Child, Less, Key
<1>7. \A k : Under(i, k) <=> k = l \/ k = l + 1
  BY <1>2, <1>4 DEF Under
<1>8. CASE l + 1 < n /\ Key(h, l + 1) <= Key(h, l)
  <2>1. c = l + 1 /\ l + 1 \in 0 .. n - 1 /\ l + 1 \in i + 1 .. n - 1
    BY <1>2, <1>5, <1>6, <1>8
  <2>2. Key(h, l + 1) \in Int
    BY <1>3, <2>1
  <2> QED
    BY <1>7, <1>8, <2>1, <2>2
<1>9. CASE ~(l + 1 < n /\ Key(h, l + 1) <= Key(h, l))
  <2>1. c = l /\ Key(h, l) \in Int
    BY <1>3, <1>5, <1>6, <1>9
  <2>2. ASSUME NEW k \in 0 .. n - 1, Under(i, k) PROVE Key(h, l) <= Key(h, k)
    <3>1. k = l \/ (k = l + 1 /\ l + 1 < n)
      BY <1>2, <1>5, <1>7, <2>2
    <3>2. Key(h, k) \in Int
      BY <1>3
    <3> QED
      BY <1>9, <2>1, <3>1, <3>2
  <2> QED
    BY <1>5, <1>7, <2>1, <2>2
<1> QED
  BY <1>8, <1>9

(* What holds of an element if it holds of all of lesser rank, holds of all.*)
LEMMA ByRank ==
    ASSUME NEW D, NEW r \in [D -> Nat], NEW S,
           \A i \in D : (\A j \in D : r[j] < r[i] => j \in S) => i \in S
    PROVE  D \subseteq S
<1> SUFFICES ASSUME NEW d \in D, d \notin S
             PROVE  FALSE
  OBVIOUS
<1> DEFINE R == {r[i] : i \in D \ S}
<1>1. R \in SUBSET Nat /\ R # {}
  OBVIOUS
<1>2. PICK m \in R : \A q \in R : m <= q
  <2> HIDE DEF R
  <2> QED
    BY <1>1, Least
<1>3. PICK i \in D \ S : r[i] = m
  BY <1>2
<1>4. ASSUME NEW j \in D, r[j] < r[i] PROVE j \in S
  <2>1. r[j] \in Nat /\ r[i] \in Nat
    OBVIOUS
  <2>2. j \notin S => m <= r[j]
    BY <1>2
  <2> QED
    BY <1>3, <1>4, <2>1, <2>2
<1> QED
  BY <1>3, <1>4

(***************************************************************************)
(* A loop over D \X H that goes on from i and h while go[i][h] holds, to an  *)
(* element of lesser rank, is a function.                                   *)
(***************************************************************************)
Leads(D, H, r, go, nx) ==
    \A i \in D : \A h \in H :
       go[i][h] => nx[i][h] \in D /\ r[nx[i][h]] < r[i]
Loops(u, D, H, go, nx, to) ==
    u = [i \in D |-> [h \in H |-> IF go[i][h] THEN u[nx[i][h]][to[i][h]] ELSE h]]

LEMMA LoopEnds ==
    ASSUME NEW D, NEW H, NEW N \in Nat, NEW r \in [D -> 0 .. N],
           NEW go, NEW nx, NEW to, Leads(D, H, r, go, nx)
    PROVE  \E u : Loops(u, D, H, go, nx, to)
<1> DEFINE E(k) == {i \in D : r[i] < k}
           S == {k \in 0 .. N + 1 : \E u : Loops(u, E(k), H, go, nx, to)}
<1>1. 0 \in S
  <2>1. \A i \in D : r[i] \in Nat /\ ~(r[i] < 0)
    OBVIOUS
  <2>2. E(0) = {}
    BY <2>1
  <2>3. Loops([i \in {} |-> 0], {}, H, go, nx, to)
    BY DEF Loops
  <2>4. 0 \in 0 .. N + 1
    OBVIOUS
  <2> QED
    BY <2>2, <2>3, <2>4
<1>2. ASSUME NEW k \in 0 .. (N + 1) - 1, k \in S PROVE k + 1 \in S
  <2>1. PICK g : Loops(g, E(k), H, go, nx, to)
    BY <1>2
  <2> DEFINE f == [i \in E(k + 1) |-> IF i \in E(k) THEN g[i]
                     ELSE [h \in H |-> IF go[i][h] THEN g[nx[i][h]][to[i][h]]
                                       ELSE h]]
             once(v, i) == [h \in H |-> IF go[i][h] THEN v[nx[i][h]][to[i][h]]
                                        ELSE h]
  <2>2. k \in Nat /\ k + 1 \in 0 .. N + 1 /\ \A i \in D : r[i] \in Nat
    BY <1>2
  <2>3. \A i \in E(k + 1) : f[i] = once(g, i)
    <3>1. \A i \in E(k) : g[i] = once(g, i)
      BY <2>1 DEF Loops
    <3> QED
      BY <3>1
  <2>4. E(k) \subseteq E(k + 1)
    BY <2>2
  <2>5. ASSUME NEW i \in E(k + 1), NEW h \in H, go[i][h]
        PROVE  f[nx[i][h]] = g[nx[i][h]]
    <3>1. nx[i][h] \in D /\ r[nx[i][h]] < r[i] /\ i \in D /\ r[i] < k + 1
      BY <2>5 DEF Leads
    <3>2. r[nx[i][h]] < k
      BY <2>2, <3>1
    <3>3. nx[i][h] \in E(k)
      BY <3>1, <3>2
    <3> QED
      BY <2>4, <3>3
  <2>6. \A i \in E(k + 1) : once(g, i) = once(f, i)
    <3> TAKE i \in E(k + 1)
    <3> HIDE DEF f, E
    <3>1. \A h \in H : (IF go[i][h] THEN g[nx[i][h]][to[i][h]] ELSE h)
                     = (IF go[i][h] THEN f[nx[i][h]][to[i][h]] ELSE h)
      BY <2>5
    <3> QED
      BY <3>1
  <2>7. f = [i \in E(k + 1) |-> f[i]]
    OBVIOUS
  <2>8. f = [i \in E(k + 1) |-> once(f, i)]
    <3> HIDE DEF f, E, once
    <3> QED
      BY <2>3, <2>6, <2>7
  <2>9. Loops(f, E(k + 1), H, go, nx, to)
    <3> HIDE DEF f, E
    <3> QED
      BY <2>8 DEF Loops
  <2> HIDE DEF f, E
  <2> QED
    BY <2>2, <2>9
<1>3. N + 1 \in S
  <2>1. N + 1 \in Nat /\ N + 1 \in 0 .. N + 1
    OBVIOUS
  <2> HIDE DEF S
  <2>2. 0 .. N + 1 \subseteq S
    BY ONLY <1>1, <1>2, <2>1, UpTo
  <2> QED
    BY <2>1, <2>2
<1>4. E(N + 1) = D
  OBVIOUS
<1> HIDE DEF E
<1> QED
  BY <1>3, <1>4

(* The loops of Up and Down.                                                *)
Rises(u, i0) ==
    u = [i \in 0 .. i0 |-> [h \in Heaps |->
           IF i = 0 \/ ~ Less(h, i, (i - 1) \div 2) THEN h
           ELSE u[(i - 1) \div 2][Swap(h, (i - 1) \div 2, i)]]]
Sinks(u, i0, n) ==
    u = [i \in i0 .. n |-> [h \in Heaps |->
           IF 2 * i + 1 >= n \/ ~ Less(h, Child(h, i, n), i) THEN h
           ELSE u[Child(h, i, n)][Swap(h, i, Child(h, i, n))]]]

LEMMA UpRises ==
    ASSUME NEW i0 \in Nat, NEW h0
    PROVE  \E u : Rises(u, i0) /\ Up(h0, i0) = u[i0][h0]
<1> DEFINE D == 0 .. i0
           over(i) == (i - 1) \div 2
           stop(i, h) == i = 0 \/ ~ Less(h, i, over(i))
           r == [i \in D |-> i]
           go == [i \in D |-> [h \in Heaps |-> ~ stop(i, h)]]
           nx == [i \in D |-> [h \in Heaps |-> over(i)]]
           to == [i \in D |-> [h \in Heaps |-> Swap(h, over(i), i)]]
<1>1. Up(h0, i0) = (CHOOSE u : Rises(u, i0))[i0][h0]
  BY DEF Up, Rises
<1>2. ASSUME NEW i \in D, i # 0 PROVE over(i) \in D /\ over(i) < i
  <2>1. i \in Nat \ {0}
    BY <1>2
  <2>2. over(i) \in Nat /\ over(i) < i
    BY <2>1, Parent
  <2> QED
    BY <2>1, <2>2
<1>3. r \in [D -> 0 .. i0]
  OBVIOUS
<1>4. ASSUME NEW i \in D, NEW h \in Heaps
      PROVE  /\ r[i] = i /\ (go[i][h] <=> ~ stop(i, h))
             /\ nx[i][h] = over(i) /\ to[i][h] = Swap(h, over(i), i)
  OBVIOUS
<1> HIDE DEF D, over, r, go, nx, to
<1>5. Leads(D, Heaps, r, go, nx)
  <2>1. ASSUME NEW i \in D, NEW h \in Heaps, go[i][h]
        PROVE  nx[i][h] \in D /\ r[nx[i][h]] < r[i]
    <3>1. i # 0 /\ nx[i][h] = over(i)
      BY <1>4, <2>1
    <3>2. over(i) \in D /\ over(i) < i
      BY <1>2, <3>1
    <3>3. r[over(i)] = over(i) /\ r[i] = i
      BY <1>4, <3>2
    <3> QED
      BY <3>1, <3>2, <3>3
  <2> QED
    BY <2>1 DEF Leads
<1>6. PICK u : Loops(u, D, Heaps, go, nx, to)
  BY <1>3, <1>5, LoopEnds
<1>7. Rises(u, i0)
  <2>1. \A i \in D : \A h \in Heaps :
           (IF go[i][h] THEN u[nx[i][h]][to[i][h]] ELSE h)
           = IF stop(i, h) THEN h ELSE u[over(i)][Swap(h, over(i), i)]
    <3> HIDE DEF stop
    <3> QED
      BY <1>4
  <2>2. \A i \in D :
           [h \in Heaps |-> IF go[i][h] THEN u[nx[i][h]][to[i][h]] ELSE h]
           = [h \in Heaps |-> IF stop(i, h) THEN h
                              ELSE u[over(i)][Swap(h, over(i), i)]]
    <3> HIDE DEF stop
    <3> QED
      BY ONLY <2>1
  <2>3. u = [i \in D |-> [h \in Heaps |->
               IF stop(i, h) THEN h ELSE u[over(i)][Swap(h, over(i), i)]]]
    <3> HIDE DEF stop
    <3>1. u = [i \in D |-> [h \in Heaps |->
                 IF go[i][h] THEN u[nx[i][h]][to[i][h]] ELSE h]]
      BY <1>6 DEF Loops
    <3> QED
      BY ONLY <2>2, <3>1
  <2> QED
    BY <2>3, Zenon DEF D, over, Rises
<1> QED
  BY <1>1, <1>7, Zenon

LEMMA UpWorks ==
    ASSUME NEW h0 \in Heaps, Indexed(h0), Times \subseteq Int,
           NEW n \in 0 .. Len(h0.arr), NEW i0 \in 0 .. n - 1,
           Above(h0, n, i0)
    PROVE  Reordered(h0, Up(h0, i0), n) /\ Order(Up(h0, i0), n)
<1> DEFINE Good(h, i) == /\ Indexed(h) /\ n \in 0 .. Len(h.arr) /\ Above(h, n, i)
           Right(h, g) == Reordered(h, g, n) /\ Order(g, n)
<1>1. n \in Nat /\ i0 \in Nat /\ 0 .. i0 \subseteq 0 .. n - 1
  BY HeapFields
<1>2. PICK u : Rises(u, i0) /\ Up(h0, i0) = u[i0][h0]
  BY <1>1, UpRises
<1> DEFINE D == 0 .. i0
           r == [i \in D |-> i]
           S == {i \in D : \A h \in Heaps : Good(h, i) => Right(h, u[i][h])}
<1>3. ASSUME NEW i \in D, \A j \in D : r[j] < r[i] => j \in S PROVE i \in S
  <2> SUFFICES ASSUME NEW h \in Heaps, Good(h, i) PROVE Right(h, u[i][h])
    OBVIOUS
  <2>1. i \in 0 .. n - 1 /\ i \in Nat /\ i \in 0 .. i0
    BY <1>1
  <2>2. PICK p : p = (i - 1) \div 2
    OBVIOUS
  <2>3. u[i][h] = IF i = 0 \/ ~ Less(h, i, p) THEN h ELSE u[p][Swap(h, p, i)]
    <3>1. u[i] = [g \in Heaps |->
                    IF i = 0 \/ ~ Less(g, i, (i - 1) \div 2) THEN g
                    ELSE u[(i - 1) \div 2][Swap(g, (i - 1) \div 2, i)]]
      BY ONLY <1>2, <2>1, Zenon DEF Rises
    <3> QED
      BY ONLY <2>2, <3>1, h \in Heaps, Zenon
  <2>4. Times \subseteq Int /\ n \in 0 .. Len(h.arr) /\ Indexed(h) /\ Above(h, n, i)
    OBVIOUS
  <2>5. i # 0 => /\ p \in 0 .. n - 1 /\ p \in D /\ p < i /\ Under(p, i)
                 /\ \A q \in Nat : Under(q, i) => q = p
    <3>1. ASSUME i # 0 PROVE i \in Nat \ {0}
      BY <2>1, <3>1
    <3> QED
      BY <2>1, <2>2, <3>1, Parent
  <2>6. \A k \in 0 .. n - 1 : Key(h, k) \in Int
    <3>1. Len(h.arr) \in Nat /\ h.timeout \in [Msgs -> Times]
          /\ \A k \in 0 .. Len(h.arr) - 1 : At(h, k) \in Msgs
      BY HeapFields
    <3>2. \A k \in 0 .. n - 1 : k \in 0 .. Len(h.arr) - 1
      BY <1>1, <2>4, <3>1
    <3> QED
      BY <2>4, <3>1, <3>2 DEF Key
  <2>7. CASE i = 0 \/ ~ Less(h, i, p)
    <3>1. u[i][h] = h
      BY <2>3, <2>7
    <3>2. \A q \in 0 .. n - 1 : Under(q, i) => Key(h, q) <= Key(h, i)
      <4> TAKE q \in 0 .. n - 1
      <4> HAVE Under(q, i)
      <4>1. i # 0 /\ q \in Nat
        BY <1>1 DEF Under
      <4>2. q = p /\ ~(Key(h, i) <= Key(h, p))
        BY <2>5, <2>7, <4>1 DEF Less, Key
      <4> QED
        BY <2>1, <2>6, <4>2
    <3>3. Order(h, n)
      BY <2>1, <2>4, <3>2, StopUp
    <3>4. Reordered(h, h, n)
      BY <2>4 DEF Reordered
    <3> QED
      BY <3>1, <3>3, <3>4
  <2>8. CASE ~(i = 0 \/ ~ Less(h, i, p))
    <3>1. PICK s : s = Swap(h, p, i)
      OBVIOUS
    <3>2. p \in 0 .. n - 1 /\ p \in D /\ p < i /\ Under(p, i)
      BY <2>5, <2>8
    <3>3. Key(h, i) <= Key(h, p)
      BY <2>8 DEF Less, Key
    <3>4. Above(s, n, p)
      BY <2>1, <2>4, <3>1, <3>2, <3>3, StepUp
    <3>5. Reordered(h, s, n)
      BY <2>1, <2>4, <3>1, <3>2, SwapReorders
    <3>6. s \in Heaps /\ Good(s, p)
      BY <2>4, <3>4, <3>5 DEF Reordered
    <3>7. p \in S
      BY <1>3, <3>2
    <3>8. Right(s, u[p][s])
      BY <3>6, <3>7
    <3>9. u[i][h] = u[p][s]
      BY <2>3, <2>8, <3>1
    <3> QED
      BY <3>5, <3>8, <3>9, ReorderedTwice
  <2> QED
    BY <2>7, <2>8
<1>4. r \in [D -> Nat]
  BY <1>1
<1>5. D \subseteq S
  <2> HIDE DEF D, S, r
  <2> QED
    BY <1>3, <1>4, ByRank
<1>6. i0 \in S
  BY <1>1, <1>5
<1> QED
  BY <1>2, <1>6

LEMMA DownSinks ==
    ASSUME NEW i0 \in Nat, NEW n \in Nat, NEW h0
    PROVE  \E u : Sinks(u, i0, n) /\ Down(h0, i0, n) = u[i0][h0]
<1> DEFINE D == i0 .. n
           c(i, h) == Child(h, i, n)
           stop(i, h) == 2 * i + 1 >= n \/ ~ Less(h, c(i, h), i)
           r == [i \in D |-> n - i]
           go == [i \in D |-> [h \in Heaps |-> ~ stop(i, h)]]
           nx == [i \in D |-> [h \in Heaps |-> c(i, h)]]
           to == [i \in D |-> [h \in Heaps |-> Swap(h, i, c(i, h))]]
<1>1. Down(h0, i0, n) = (CHOOSE u : Sinks(u, i0, n))[i0][h0]
  BY DEF Down, Sinks
<1>2. ASSUME NEW i \in D, NEW h \in Heaps, 2 * i + 1 < n
      PROVE  c(i, h) \in D /\ i < c(i, h)
  <2>1. i \in Nat /\ i0 <= i
    OBVIOUS
  <2>2. c(i, h) = 2 * i + 1 \/ (c(i, h) = 2 * i + 1 + 1 /\ 2 * i + 1 + 1 < n)
    BY DEF Child
  <2> HIDE DEF c
  <2>3. c(i, h) \in Nat /\ i < c(i, h) /\ c(i, h) < n
    BY ONLY <1>2, <2>1, <2>2, n \in Nat
  <2> QED
    BY <2>1, <2>3
<1>3. r \in [D -> 0 .. n]
  OBVIOUS
<1>4. ASSUME NEW i \in D, NEW h \in Heaps
      PROVE  /\ r[i] = n - i /\ (go[i][h] <=> ~ stop(i, h))
             /\ nx[i][h] = c(i, h) /\ to[i][h] = Swap(h, i, c(i, h))
  <2> HIDE DEF c, stop, D
  <2> QED
    OBVIOUS
<1>5. D \subseteq Int
  OBVIOUS
<1>6. ASSUME NEW i \in D, ~(2 * i + 1 >= n) PROVE 2 * i + 1 < n
  BY <1>6
<1> HIDE DEF D, c, r, go, nx, to
<1>7. Leads(D, Heaps, r, go, nx)
  <2>1. ASSUME NEW i \in D, NEW h \in Heaps, go[i][h]
        PROVE  nx[i][h] \in D /\ r[nx[i][h]] < r[i]
    <3>1. 2 * i + 1 < n /\ nx[i][h] = c(i, h)
      BY <1>4, <1>6, <2>1
    <3>2. c(i, h) \in D /\ i < c(i, h)
      BY <1>2, <3>1
    <3>3. r[c(i, h)] = n - c(i, h) /\ r[i] = n - i
      BY <1>4, <3>2
    <3>4. c(i, h) \in Int /\ i \in Int
      BY <1>5, <3>2
    <3> QED
      BY <3>1, <3>2, <3>3, <3>4
  <2> QED
    BY <2>1 DEF Leads
<1>8. PICK u : Loops(u, D, Heaps, go, nx, to)
  BY <1>3, <1>7, LoopEnds
<1>9. Sinks(u, i0, n)
  <2>1. \A i \in D : \A h \in Heaps :
           (IF go[i][h] THEN u[nx[i][h]][to[i][h]] ELSE h)
           = IF stop(i, h) THEN h ELSE u[c(i, h)][Swap(h, i, c(i, h))]
    <3> HIDE DEF stop
    <3> QED
      BY <1>4
  <2>2. \A i \in D :
           [h \in Heaps |-> IF go[i][h] THEN u[nx[i][h]][to[i][h]] ELSE h]
           = [h \in Heaps |-> IF stop(i, h) THEN h
                              ELSE u[c(i, h)][Swap(h, i, c(i, h))]]
    <3> HIDE DEF stop
    <3> QED
      BY ONLY <2>1
  <2>3. u = [i \in D |-> [h \in Heaps |->
               IF stop(i, h) THEN h ELSE u[c(i, h)][Swap(h, i, c(i, h))]]]
    <3> HIDE DEF stop
    <3>1. u = [i \in D |-> [h \in Heaps |->
                 IF go[i][h] THEN u[nx[i][h]][to[i][h]] ELSE h]]
      BY <1>8 DEF Loops
    <3> QED
      BY ONLY <2>2, <3>1
  <2> QED
    BY <2>3, Zenon DEF D, c, Sinks
<1> QED
  BY <1>1, <1>9, Zenon

(* One round of Down, at i of h.                                            *)
LEMMA DownOnce ==
    ASSUME Times \subseteq Int, NEW i0 \in Nat, NEW n \in Nat, NEW u,
           Sinks(u, i0, n), NEW i \in i0 .. n, NEW h \in Heaps, Indexed(h),
           n <= Len(h.arr), Around(h, n, i)
    PROVE  \/ /\ u[i][h] = h /\ Above(h, n, i)
              /\ Below(h, n, i) => Order(h, n)
           \/ \E c \in i0 .. n : \E s \in Heaps :
                 /\ i < c /\ u[i][h] = u[c][s]
                 /\ Below(s, n, c) /\ Reordered(h, s, n)
<1>1. i \in Nat /\ i <= n /\ i0 <= i /\ Len(h.arr) \in Nat
      /\ n \in 0 .. Len(h.arr)
  BY HeapFields
<1>2. PICK c : c = Child(h, i, n)
  OBVIOUS
<1>3. u[i][h] = IF 2 * i + 1 >= n \/ ~ Less(h, c, i) THEN h
                ELSE u[c][Swap(h, i, c)]
  <2>1. u[i] = [g \in Heaps |->
                  IF 2 * i + 1 >= n \/ ~ Less(g, Child(g, i, n), i) THEN g
                  ELSE u[Child(g, i, n)][Swap(g, i, Child(g, i, n))]]
    BY ONLY Sinks(u, i0, n), i \in i0 .. n, Zenon DEF Sinks
  <2> QED
    BY ONLY <1>2, <2>1, h \in Heaps, Zenon
<1>4. CASE i = n
  <2>1. u[i][h] = h
    BY <1>1, <1>3, <1>4
  <2>3. Above(h, n, i)
    BY <1>1, <1>4 DEF Around, Above
  <2>4. Below(h, n, i) => Order(h, n)
    BY <1>1, <1>4 DEF Below, Order
  <2> QED
    BY <2>1, <2>3, <2>4
<1>5. CASE i # n /\ 2 * i + 1 >= n
  <2>1. i \in 0 .. n - 1 /\ u[i][h] = h
    BY <1>1, <1>3, <1>5
  <2>2. ASSUME NEW k \in 0 .. n - 1, Under(i, k) PROVE FALSE
    BY <1>1, <1>5, <2>2 DEF Under
  <2>3. /\ Around(h, n, i) => Above(h, n, i)
        /\ Below(h, n, i) => Order(h, n)
    BY <1>1, <2>1, <2>2, StopDown
  <2> QED
    BY <2>1, <2>3
<1>6. CASE i # n /\ 2 * i + 1 < n
  <2>1. i \in 0 .. n - 1
    BY <1>1, <1>6
  <2>2. /\ c \in i + 1 .. n - 1 /\ Under(i, c)
        /\ \A k \in 0 .. n - 1 : Under(i, k) => Key(h, c) <= Key(h, k)
    BY <1>1, <1>2, <1>6, <2>1, FirstChild
  <2>3. c \in 0 .. n - 1 /\ c \in i0 .. n /\ i < c /\ ~(2 * i + 1 >= n)
    BY <1>1, <1>6, <2>2
  <2>4. CASE ~ Less(h, c, i)
    <3>1. u[i][h] = h /\ ~(Key(h, c) <= Key(h, i))
      BY <1>3, <2>4 DEF Less, Key
    <3>2. Key(h, c) \in Int /\ Key(h, i) \in Int
          /\ \A k \in 0 .. n - 1 : Key(h, k) \in Int
      BY <1>1, <2>1, <2>3, SwapKeys
    <3>3. \A k \in 0 .. n - 1 : Under(i, k) => Key(h, i) <= Key(h, k)
      BY <2>2, <3>1, <3>2
    <3>4. /\ Around(h, n, i) => Above(h, n, i)
          /\ Below(h, n, i) => Order(h, n)
      BY <1>1, <2>1, <3>3, StopDown
    <3> QED
      BY <3>1, <3>4
  <2>5. CASE Less(h, c, i)
    <3>1. PICK s : s = Swap(h, i, c)
      OBVIOUS
    <3>2. u[i][h] = u[c][s] /\ Key(h, c) <= Key(h, i)
      BY <1>3, <2>3, <2>5, <3>1 DEF Less, Key
    <3>3. Below(s, n, c)
      BY <1>1, <2>1, <2>2, <2>3, <3>1, <3>2, StepDown
    <3>4. Reordered(h, s, n)
      BY <1>1, <2>1, <2>3, <3>1, SwapReorders
    <3>5. s \in Heaps
      BY <3>4 DEF Reordered
    <3> QED
      BY <2>3, <3>2, <3>3, <3>4, <3>5
  <2> QED
    BY <2>4, <2>5
<1> QED
  BY <1>1, <1>4, <1>5, <1>6

LEMMA DownWorks ==
    ASSUME NEW h0 \in Heaps, Indexed(h0), Times \subseteq Int,
           NEW n \in 0 .. Len(h0.arr), NEW i0 \in 0 .. n, Around(h0, n, i0)
    PROVE  /\ Reordered(h0, Down(h0, i0, n), n)
           /\ Below(h0, n, i0) => Order(Down(h0, i0, n), n)
           /\ \/ Order(Down(h0, i0, n), n)
              \/ Down(h0, i0, n) = h0 /\ Above(h0, n, i0)
<1>1. n \in Nat /\ i0 \in Nat /\ n <= Len(h0.arr) /\ Len(h0.arr) \in Nat
  BY HeapFields
<1>2. PICK u : Sinks(u, i0, n) /\ Down(h0, i0, n) = u[i0][h0]
  BY <1>1, DownSinks
<1> DEFINE D == i0 .. n
           r == [i \in D |-> n - i]
           Good(h, i) == Indexed(h) /\ n <= Len(h.arr) /\ Below(h, n, i)
           Right(h, g) == Reordered(h, g, n) /\ Order(g, n)
           S == {i \in D : \A h \in Heaps : Good(h, i) => Right(h, u[i][h])}
<1>3. ASSUME NEW h, Indexed(h), h \in Heaps PROVE Reordered(h, h, n)
  BY <1>3 DEF Reordered
<1>4. ASSUME NEW i \in D, \A j \in D : r[j] < r[i] => j \in S PROVE i \in S
  <2> SUFFICES ASSUME NEW h \in Heaps, Good(h, i) PROVE Right(h, u[i][h])
    OBVIOUS
  <2>1. Indexed(h) /\ n <= Len(h.arr) /\ Below(h, n, i) /\ Around(h, n, i)
    BY OrderParts
  <2>2. \/ u[i][h] = h /\ Order(h, n)
        \/ \E c \in i0 .. n : \E s \in Heaps :
              /\ i < c /\ u[i][h] = u[c][s]
              /\ Below(s, n, c) /\ Reordered(h, s, n)
    BY <1>1, <1>2, <2>1, DownOnce
  <2>3. CASE u[i][h] = h /\ Order(h, n)
    BY <1>3, <2>1, <2>3
  <2>4. ASSUME NEW c \in i0 .. n, NEW s \in Heaps, i < c, u[i][h] = u[c][s],
               Below(s, n, c), Reordered(h, s, n)
        PROVE  Right(h, u[i][h])
    <3>1. r[c] < r[i] /\ c \in D
      BY <1>1, <2>4
    <3>2. c \in S
      BY <1>4, <3>1
    <3>3. Good(s, c)
      BY <2>1, <2>4 DEF Reordered
    <3>4. Right(s, u[c][s])
      BY <3>2, <3>3
    <3> QED
      BY <2>4, <3>4, ReorderedTwice
  <2> QED
    BY <2>2, <2>3, <2>4
<1>5. r \in [D -> Nat]
  BY <1>1
<1>6. D \subseteq S
  <2> HIDE DEF D, S, r
  <2> QED
    BY <1>4, <1>5, ByRank
<1>7. \/ /\ u[i0][h0] = h0 /\ Above(h0, n, i0)
         /\ Below(h0, n, i0) => Order(h0, n)
      \/ \E c \in i0 .. n : \E s \in Heaps :
            /\ i0 < c /\ u[i0][h0] = u[c][s]
            /\ Below(s, n, c) /\ Reordered(h0, s, n)
  <2>1. i0 \in i0 .. n
    BY <1>1
  <2> QED
    BY <1>1, <1>2, <2>1, DownOnce
<1>8. ASSUME NEW c \in i0 .. n, NEW s \in Heaps, u[i0][h0] = u[c][s],
             Below(s, n, c), Reordered(h0, s, n)
      PROVE  Reordered(h0, u[i0][h0], n) /\ Order(u[i0][h0], n)
  <2>1. Good(s, c) /\ c \in S
    BY <1>1, <1>6, <1>8 DEF Reordered
  <2>2. Right(s, u[c][s])
    BY <2>1
  <2> QED
    BY <1>8, <2>2, ReorderedTwice
<1>9. Reordered(h0, h0, n)
  BY <1>3
<1> QED
  BY <1>2, <1>7, <1>8, <1>9

-----------------------------------------------------------------------------
(* The operations.                                                          *)
LEMMA HeapIs ==
    ASSUME NEW h \in Heaps
    PROVE  IsHeap(h) <=> Indexed(h) /\ Order(h, Len(h.arr))
<1>1. PICK n : n = Len(h.arr)
  OBVIOUS
<1>2. n \in Nat
  BY <1>1, HeapFields
<1>3. ASSUME IsHeap(h), NEW p \in 0 .. n - 1, NEW k \in 0 .. n - 1, Under(p, k)
      PROVE  Key(h, p) <= Key(h, k)
  <2>1. k \in Nat \ {0} /\ p \in Nat /\ k > 0
    BY <1>2, <1>3 DEF Under
  <2>2. p = (k - 1) \div 2
    BY <1>3, <2>1, Parent
  <2>3. h.timeout[At(h, (k - 1) \div 2)] <= h.timeout[At(h, k)]
    BY <1>1, <1>3, <2>1 DEF IsHeap
  <2> QED
    BY <2>2, <2>3 DEF Key
<1>4. ASSUME Order(h, n), NEW k \in 0 .. n - 1, k > 0
      PROVE  h.timeout[At(h, (k - 1) \div 2)] <= h.timeout[At(h, k)]
  <2>1. PICK p : p = (k - 1) \div 2
    OBVIOUS
  <2>2. k \in Nat \ {0}
    BY <1>2, <1>4
  <2>3. p \in Nat /\ p < k /\ Under(p, k)
    BY <2>1, <2>2, Parent
  <2>4. p \in 0 .. n - 1
    BY <1>2, <2>3
  <2>5. Key(h, p) <= Key(h, k)
    BY <1>4, <2>3, <2>4 DEF Order
  <2> QED
    BY <2>1, <2>5 DEF Key
<1> QED
  BY <1>1, <1>3, <1>4 DEF IsHeap, Indexed, Order

(* The first element's time comes first.                                    *)
LEMMA TopFirst ==
    ASSUME NEW h \in Heaps, Times \subseteq Int, Order(h, Len(h.arr)),
           NEW m \in Range(h.arr)
    PROVE  h.timeout[At(h, 0)] <= h.timeout[m]
<1>1. PICK n : n = Len(h.arr)
  OBVIOUS
<1>2. /\ n \in Nat /\ h.timeout \in [Msgs -> Times]
      /\ \A k \in 0 .. n - 1 : At(h, k) \in Msgs
  BY <1>1, HeapFields
<1>3. \A k \in 0 .. n - 1 : Key(h, k) \in Int
  BY <1>2 DEF Key
<1> DEFINE D == 0 .. n - 1
           r == [k \in D |-> k]
           S == {k \in D : Key(h, 0) <= Key(h, k)}
<1>4. ASSUME NEW k \in D, \A j \in D : r[j] < r[k] => j \in S PROVE k \in S
  <2>1. k \in Nat /\ k \in 0 .. n - 1
    BY <1>2
  <2>2. CASE k = 0
    BY <1>3, <2>1, <2>2
  <2>3. CASE k # 0
    <3>1. PICK p : p = (k - 1) \div 2
      OBVIOUS
    <3>2. p \in Nat /\ p < k /\ Under(p, k)
      BY <2>1, <2>3, <3>1, Parent
    <3>3. p \in 0 .. n - 1 /\ r[p] < r[k]
      BY <1>2, <2>1, <3>2
    <3>4. Key(h, p) <= Key(h, k)
      BY <1>1, <2>1, <3>2, <3>3 DEF Order
    <3>5. Key(h, 0) <= Key(h, p)
      BY <1>4, <3>3
    <3>6. 0 \in 0 .. n - 1
      BY <1>2, <2>1
    <3> QED
      BY <1>3, <2>1, <3>3, <3>4, <3>5, <3>6
  <2> QED
    BY <2>2, <2>3
<1>5. r \in [D -> Nat]
  BY <1>2
<1>6. D \subseteq S
  <2> HIDE DEF D, S, r
  <2> QED
    BY <1>4, <1>5, ByRank
<1>7. PICK k \in 0 .. n - 1 : At(h, k) = m
  BY <1>1, HeapFields
<1> QED
  BY <1>6, <1>7 DEF Key

(* The last element goes.                                                   *)
LEMMA PopLastWorks ==
    ASSUME NEW h \in Heaps, Indexed(h), Len(h.arr) > 0,
           Order(h, Len(h.arr) - 1), NEW g, g = PopLast(h)
    PROVE  /\ g \in Heaps /\ IsHeap(g) /\ g.timeout = h.timeout
           /\ Range(g.arr) = Range(h.arr) \ {At(h, Len(h.arr) - 1)}
<1>1. PICK n : n = Len(h.arr) - 1
  OBVIOUS
<1>2. /\ h.arr \in Seq(Msgs) /\ Len(h.arr) = n + 1 /\ n \in Nat
      /\ h.index \in [Msgs -> Int] /\ h.timeout \in [Msgs -> Times]
  BY <1>1, HeapFields
<1>3. PICK l : l = At(h, n)
  OBVIOUS
<1>4. \A k \in 0 .. n : k \in 0 .. Len(h.arr) - 1
  BY <1>2
<1>5. /\ l \in Msgs /\ h.index[l] = n
      /\ \A k \in 0 .. n : h.index[At(h, k)] = k /\ At(h, k) \in Msgs
  BY <1>2, <1>3, <1>4, HeapFields DEF Indexed
<1>6. Last(h.arr) = l /\ Front(h.arr) = SubSeq(h.arr, 1, n)
  BY <1>1, <1>2, <1>3 DEF Last, Front, At
<1>7. PICK f : f = SubSeq(h.arr, 1, n)
  OBVIOUS
<1>8. /\ f \in Seq(Msgs) /\ Len(f) = n
      /\ \A i \in 1 .. n : f[i] = h.arr[i]
  BY <1>2, <1>7
<1>9. PICK x : x = [h.index EXCEPT ![l] = -1]
  OBVIOUS
<1>10. x \in [Msgs -> Int]
  <2>1. h.index \in [Msgs -> Int] /\ -1 \in Int
    BY <1>2
  <2> QED
    BY ONLY <1>9, <2>1
<1>11. g.arr = f /\ g.index = x /\ g.timeout = h.timeout
  BY <1>6, <1>7, <1>9 DEF PopLast, Heaps
<1>12. g \in Heaps
  BY <1>6, <1>7, <1>8, <1>9, <1>10 DEF PopLast, Heaps
<1>13. \A k \in 0 .. n - 1 : At(g, k) = At(h, k) /\ k \in 0 .. n
  BY <1>2, <1>8, <1>11 DEF At
<1>14. Range(g.arr) = Range(h.arr) \ {l}
  <2>1. ASSUME NEW m \in Range(g.arr) PROVE m \in Range(h.arr) /\ m # l
    <3>1. PICK k \in 0 .. n - 1 : At(g, k) = m
      BY <1>8, <1>11, <1>12, HeapFields
    <3>2. m = At(h, k) /\ h.index[m] = k /\ k # n
      BY <1>2, <1>5, <1>13, <3>1
    <3>3. At(h, k) \in Range(h.arr)
      BY <1>4, <1>13, <3>1, HeapFields
    <3> QED
      BY <1>5, <3>2, <3>3
  <2>2. ASSUME NEW m \in Range(h.arr), m # l PROVE m \in Range(g.arr)
    <3>1. PICK k \in 0 .. Len(h.arr) - 1 : At(h, k) = m
      BY HeapFields
    <3>2. k \in 0 .. n - 1
      BY <1>2, <1>3, <2>2, <3>1
    <3>3. At(g, k) \in Range(g.arr)
      BY <1>8, <1>11, <1>12, <3>2, HeapFields
    <3> QED
      BY <1>13, <3>1, <3>2, <3>3
  <2> QED
    BY <2>1, <2>2
<1>15. Indexed(g)
  <2>1. ASSUME NEW k \in 0 .. n - 1 PROVE g.index[At(g, k)] = k
    <3>1. At(g, k) = At(h, k) /\ h.index[At(h, k)] = k /\ k # n /\ At(h, k) \in Msgs
      BY <1>2, <1>5, <1>13
    <3> QED
      BY <1>2, <1>5, <1>9, <1>11, <3>1
  <2>2. ASSUME NEW m \in Msgs \ Range(g.arr) PROVE g.index[m] = -1
    <3>1. m = l \/ m \in Msgs \ Range(h.arr)
      BY <1>14
    <3>2. m # l => h.index[m] = -1
      BY <3>1 DEF Indexed
    <3> QED
      BY <1>2, <1>9, <1>11, <3>2
  <2> QED
    BY <1>8, <1>11, <2>1, <2>2 DEF Indexed
<1>16. Order(g, n)
  <2>1. \A k \in 0 .. n - 1 : Key(g, k) = Key(h, k)
    BY <1>11, <1>13 DEF Key
  <2>2. Order(h, n)
    BY <1>1
  <2> QED
    BY <2>1, <2>2 DEF Order
<1>17. IsHeap(g)
  BY <1>8, <1>11, <1>12, <1>15, <1>16, HeapIs
<1> QED
  BY <1>1, <1>3, <1>11, <1>12, <1>14, <1>17

(* heap.Remove and heap.Fix at one element.                                 *)
LEMMA MoveWorks ==
    ASSUME NEW h \in Heaps, Indexed(h), Times \subseteq Int,
           NEW n \in 0 .. Len(h.arr), NEW i \in 0 .. n - 1, Around(h, n, i)
    PROVE  Reordered(h, Move(h, i, n), n) /\ Order(Move(h, i, n), n)
<1>1. PICK d : d = Down(h, i, n)
  OBVIOUS
<1>2. n \in Nat /\ i \in 0 .. n /\ Bridged(h, n, i)
  BY HeapFields DEF Around
<1>3. Reordered(h, d, n) /\ (Order(d, n) \/ (d = h /\ Above(h, n, i)))
  BY <1>1, <1>2, DownWorks
<1>4. CASE d # h
  BY <1>1, <1>3, <1>4 DEF Move
<1>5. CASE d = h
  <2>1. Above(h, n, i)
    BY <1>2, <1>3, <1>5, OrderParts
  <2>2. Move(h, i, n) = Up(h, i)
    BY <1>1, <1>5 DEF Move
  <2> QED
    BY <2>1, <2>2, UpWorks
<1> QED
  BY <1>4, <1>5

(* An element exchanged with the last one.                                  *)
LEMMA SwapOut ==
    ASSUME NEW h \in Heaps, Indexed(h), Times \subseteq Int,
           Order(h, Len(h.arr)), NEW n, n = Len(h.arr) - 1,
           NEW i \in 0 .. n, NEW s, s = Swap(h, i, n)
    PROVE  /\ s \in Heaps /\ Indexed(s) /\ Len(s.arr) = n + 1 /\ n \in Nat
           /\ s.timeout = h.timeout /\ Range(s.arr) = Range(h.arr)
           /\ At(s, n) = At(h, i) /\ Around(s, n, i)
           /\ i = 0 => Below(s, n, 0)
<1>1. Len(h.arr) \in Nat /\ n \in Nat /\ Len(h.arr) = n + 1
  BY HeapFields
<1>2. i \in 0 .. Len(h.arr) - 1 /\ n \in 0 .. Len(h.arr) - 1 /\ i \in Nat
  BY <1>1
<1>3. Swapped(h, s, i, n)
  BY ONLY <1>2, h \in Heaps, Indexed(h), s = Swap(h, i, n), SwapFields
<1>4. Len(h.arr) \in 0 .. Len(h.arr)
  BY <1>1
<1>5. Reordered(h, s, Len(h.arr))
  BY ONLY <1>2, <1>4, h \in Heaps, Indexed(h), s = Swap(h, i, n), SwapReorders
<1>6. ASSUME NEW k \in 0 .. n - 1, k # i PROVE Key(s, k) = Key(h, k)
  <2>1. k \in 0 .. Len(h.arr) - 1 /\ k # n
    BY <1>1
  <2> QED
    BY <1>3, <1>6, <2>1 DEF Swapped, Key
<1>7. \A k \in 0 .. n - 1 : k \in 0 .. Len(h.arr) - 1 /\ k \in Nat
  BY <1>1
<1>8. \A k \in 0 .. Len(h.arr) - 1 : Key(h, k) \in Int
  <2>1. /\ h.timeout \in [Msgs -> Times]
        /\ \A k \in 0 .. Len(h.arr) - 1 : At(h, k) \in Msgs
    BY HeapFields
  <2> QED
    BY <2>1 DEF Key
<1>9. ASSUME NEW p \in 0 .. n - 1, NEW k \in 0 .. n - 1, Under(p, k), p # i, k # i
      PROVE  Key(s, p) <= Key(s, k)
  <2>1. Key(h, p) <= Key(h, k)
    BY <1>7, <1>9 DEF Order
  <2> QED
    BY <1>6, <1>9, <2>1
<1>10. ASSUME NEW p \in 0 .. n - 1, NEW k \in 0 .. n - 1, Under(p, i), Under(i, k)
       PROVE  Key(s, p) <= Key(s, k)
  <2>1. Key(h, p) <= Key(h, i) /\ Key(h, i) <= Key(h, k)
    BY <1>2, <1>7, <1>10 DEF Order
  <2>2. p # i /\ k # i
    BY <1>2, <1>7, <1>10 DEF Under
  <2>3. Key(h, p) \in Int /\ Key(h, i) \in Int /\ Key(h, k) \in Int
    BY <1>2, <1>7, <1>8
  <2> QED
    BY <1>6, <2>1, <2>2, <2>3
<1>11. Around(s, n, i)
  BY <1>9, <1>10 DEF Around, Bridged
<1>12. ASSUME i = 0 PROVE Below(s, n, 0)
  <2>1. \A p, k \in 0 .. n - 1 : Under(p, k) => k # 0
    BY <1>7 DEF Under
  <2> QED
    BY <1>11, <1>12, <2>1 DEF Around, Below
<1> QED
  BY <1>1, <1>3, <1>5, <1>11, <1>12 DEF Swapped, Reordered

(* What an operation leaves: a heap of the given messages and times.        *)
LEMMA DueIs ==
    ASSUME NEW h \in Heaps, NEW g, NEW m, g.timeout = h.timeout,
           Range(g.arr) = Range(h.arr) \ {m}
    PROVE  Due(g) = Restrict(Due(h), DOMAIN Due(h) \ {m})
<1>1. PICK f, e : f = h.timeout /\ e = Range(h.arr)
  OBVIOUS
<1>2. Due(h) = [k \in e |-> f[k]] /\ Due(g) = [k \in e \ {m} |-> f[k]]
  BY <1>1 DEF Due
<1> QED
  BY ONLY <1>2 DEF Restrict

LEMMA PopWorks ==
    ASSUME NEW h \in Heaps, Times \subseteq Int, IsHeap(h), h.arr # <<>>
    PROVE  /\ IsHeap(Pop(h))
           /\ Due(Pop(h)) = Restrict(Due(h), DOMAIN Due(h) \ {At(h, 0)})
           /\ \A m \in Range(h.arr) : h.timeout[At(h, 0)] <= h.timeout[m]
<1>1. Indexed(h) /\ Order(h, Len(h.arr))
  BY HeapIs
<1>2. PICK n, s : n = Len(h.arr) - 1 /\ s = Swap(h, 0, n)
  OBVIOUS
<1>3. h.arr \in Seq(Msgs) /\ Len(h.arr) > 0 /\ Len(h.arr) \in Nat
  <2>1. h.arr \in Seq(Msgs)
    BY HeapFields
  <2> QED
    BY <2>1
<1>4. n \in Nat /\ 0 \in 0 .. n /\ n \in 0 .. n + 1
  BY <1>2, <1>3
<1>5. /\ s \in Heaps /\ Indexed(s) /\ Len(s.arr) = n + 1
      /\ s.timeout = h.timeout /\ Range(s.arr) = Range(h.arr)
      /\ At(s, n) = At(h, 0) /\ Around(s, n, 0) /\ Below(s, n, 0)
  BY <1>1, <1>2, <1>4, SwapOut
<1>6. PICK d : d = Down(s, 0, n)
  OBVIOUS
<1>7. Reordered(s, d, n) /\ Order(d, n)
  BY <1>4, <1>5, <1>6, DownWorks
<1>8. /\ d \in Heaps /\ Indexed(d) /\ Len(d.arr) = n + 1
      /\ d.timeout = h.timeout /\ Range(d.arr) = Range(h.arr)
      /\ At(d, n) = At(h, 0)
  BY <1>4, <1>5, <1>7 DEF Reordered
<1>9. PICK g : g = PopLast(d)
  OBVIOUS
<1>10. Len(d.arr) > 0 /\ Len(d.arr) - 1 = n
  BY <1>4, <1>8
<1>11. /\ IsHeap(g) /\ g.timeout = d.timeout
       /\ Range(g.arr) = Range(d.arr) \ {At(d, n)}
  BY <1>7, <1>8, <1>9, <1>10, PopLastWorks
<1>12. Pop(h) = g
  BY <1>2, <1>6, <1>9 DEF Pop
<1>13. Due(g) = Restrict(Due(h), DOMAIN Due(h) \ {At(h, 0)})
  BY <1>8, <1>11, DueIs
<1> QED
  BY <1>1, <1>11, <1>12, <1>13, TopFirst

LEMMA DeleteWorks ==
    ASSUME NEW h \in Heaps, Times \subseteq Int, IsHeap(h), NEW m \in Msgs
    PROVE  /\ IsHeap(Delete(h, m))
           /\ Due(Delete(h, m)) = Restrict(Due(h), DOMAIN Due(h) \ {m})
<1>1. Indexed(h) /\ Order(h, Len(h.arr))
  BY HeapIs
<1>2. PICK n, i : n = Len(h.arr) - 1 /\ i = h.index[m]
  OBVIOUS
<1>3. Len(h.arr) \in Nat
  BY HeapFields
<1>4. CASE m \notin Range(h.arr)
  <2>1. i = -1
    BY <1>1, <1>2, <1>4 DEF Indexed
  <2>2. Delete(h, m) = h
    BY <1>2, <2>1 DEF Delete
  <2>3. Range(h.arr) = Range(h.arr) \ {m}
    BY <1>4
  <2>4. Due(h) = Restrict(Due(h), DOMAIN Due(h) \ {m})
    BY <2>3, DueIs
  <2> QED
    BY <2>2, <2>4
<1>5. CASE m \in Range(h.arr)
  <2>1. PICK j \in 0 .. Len(h.arr) - 1 : At(h, j) = m
    BY <1>5, HeapFields
  <2>2. i = j
    BY <1>1, <1>2, <2>1 DEF Indexed
  <2>3. /\ n \in Nat /\ i \in 0 .. n /\ i # -1 /\ At(h, i) = m
        /\ Len(h.arr) = n + 1 /\ n \in 0 .. n + 1
    BY <1>2, <1>3, <2>1, <2>2
  <2>4. PICK s : s = Swap(h, i, n)
    OBVIOUS
  <2>5. PICK d : d = IF i = n THEN h ELSE Move(s, i, n)
    OBVIOUS
  <2>6. /\ d \in Heaps /\ Indexed(d) /\ Len(d.arr) = n + 1
        /\ d.timeout = h.timeout /\ Range(d.arr) = Range(h.arr)
        /\ At(d, n) = m /\ Order(d, n)
    <3>1. CASE i = n
      <4>1. d = h
        BY <2>5, <3>1
      <4>2. \A k \in 0 .. n - 1 : k \in 0 .. Len(h.arr) - 1
        BY <2>3
      <4>3. Order(h, n)
        BY <1>1, <4>2 DEF Order
      <4> QED
        BY <1>1, <2>3, <3>1, <4>1, <4>3
    <3>2. CASE i # n
      <4>1. /\ s \in Heaps /\ Indexed(s) /\ Len(s.arr) = n + 1
            /\ s.timeout = h.timeout /\ Range(s.arr) = Range(h.arr)
            /\ At(s, n) = At(h, i) /\ Around(s, n, i)
        BY <1>1, <1>2, <2>3, <2>4, SwapOut
      <4>2. d = Move(s, i, n) /\ i \in 0 .. n - 1
        BY <2>3, <2>5, <3>2
      <4>3. n \in 0 .. Len(s.arr)
        BY <2>3, <4>1
      <4>4. Reordered(s, d, n) /\ Order(d, n)
        BY <4>1, <4>2, <4>3, MoveWorks
      <4>5. n \in n .. Len(s.arr) - 1
        BY <2>3, <4>1
      <4>6. At(d, n) = At(s, n)
        BY <4>4, <4>5 DEF Reordered
      <4> QED
        BY <2>3, <4>1, <4>4, <4>6 DEF Reordered
    <3> QED
      BY <3>1, <3>2
  <2>7. PICK g : g = PopLast(d)
    OBVIOUS
  <2>8. Len(d.arr) > 0 /\ Len(d.arr) - 1 = n
    BY <2>3, <2>6
  <2>9. /\ IsHeap(g) /\ g.timeout = d.timeout
        /\ Range(g.arr) = Range(d.arr) \ {At(d, n)}
    BY <2>6, <2>7, <2>8, PopLastWorks
  <2>10. Delete(h, m) = g
    BY <1>2, <2>3, <2>4, <2>5, <2>7 DEF Delete
  <2>11. Due(g) = Restrict(Due(h), DOMAIN Due(h) \ {m})
    <3>1. g.timeout = h.timeout /\ Range(g.arr) = Range(h.arr) \ {m}
      BY <2>6, <2>9
    <3> QED
      BY ONLY h \in Heaps, <3>1, DueIs
  <2> QED
    BY <2>9, <2>10, <2>11
<1> QED
  BY <1>4, <1>5

(* A message's time set.                                                    *)
With(h, m, t) ==
    [k \in Range(h.arr) \cup {m} |-> IF k = m THEN t ELSE h.timeout[k]]

LEMMA DueWith ==
    ASSUME NEW h \in Heaps, NEW m \in Msgs, NEW t, NEW g,
           g.timeout = [h.timeout EXCEPT ![m] = t],
           Range(g.arr) = Range(h.arr) \cup {m}
    PROVE  Due(g) = With(h, m, t)
<1>1. PICK f, e : f = h.timeout /\ e = Range(h.arr)
  OBVIOUS
<1>2. f \in [Msgs -> Times] /\ e \subseteq Msgs
  BY <1>1, HeapFields
<1>3. Due(g) = [k \in e \cup {m} |-> [f EXCEPT ![m] = t][k]]
  BY <1>1 DEF Due
<1>4. \A k \in e \cup {m} : [f EXCEPT ![m] = t][k] = IF k = m THEN t ELSE f[k]
  BY <1>2
<1> QED
  BY ONLY <1>1, <1>3, <1>4 DEF With

LEMMA UpdateWorks ==
    ASSUME NEW h \in Heaps, Times \subseteq Int, IsHeap(h),
           NEW m \in Range(h.arr), NEW t \in Times, NEW g, g = Update(h, m, t)
    PROVE  /\ IsHeap(g)
           /\ Due(g) = With(h, m, t)
<1>1. Indexed(h) /\ Order(h, Len(h.arr))
  BY HeapIs
<1>2. PICK n, i : n = Len(h.arr) /\ i = h.index[m]
  OBVIOUS
<1>3. PICK s : s = [h EXCEPT !.timeout[m] = t]
  OBVIOUS
<1>4. /\ n \in Nat /\ h.timeout \in [Msgs -> Times] /\ m \in Msgs
      /\ \A k \in 0 .. n - 1 : At(h, k) \in Msgs /\ h.index[At(h, k)] = k
  BY <1>1, <1>2, HeapFields DEF Indexed
<1>5. /\ s.arr = h.arr /\ s.index = h.index
      /\ s.timeout = [h.timeout EXCEPT ![m] = t] /\ s \in Heaps
  BY <1>3, <1>4 DEF Heaps
<1>6. i \in 0 .. n - 1 /\ At(h, i) = m
  <2>1. PICK j \in 0 .. n - 1 : At(h, j) = m
    BY <1>2, HeapFields
  <2> QED
    BY <1>2, <1>4, <2>1
<1>7. \A k \in 0 .. n - 1 : k # i => Key(s, k) = Key(h, k)
  <2> TAKE k \in 0 .. n - 1
  <2> HAVE k # i
  <2>1. At(s, k) = At(h, k) /\ At(h, k) # m /\ At(h, k) \in Msgs
    BY <1>4, <1>5, <1>6 DEF At
  <2> QED
    BY <1>4, <1>5, <2>1 DEF Key
<1>8. Indexed(s)
  BY <1>1, <1>5 DEF Indexed, At
<1>9. Around(s, n, i)
  <2>1. ASSUME NEW p \in 0 .. n - 1, NEW k \in 0 .. n - 1, Under(p, k), p # i, k # i
        PROVE  Key(s, p) <= Key(s, k)
    BY <1>1, <1>2, <1>7, <2>1 DEF Order
  <2>2. ASSUME NEW p \in 0 .. n - 1, NEW k \in 0 .. n - 1, Under(p, i), Under(i, k)
        PROVE  Key(s, p) <= Key(s, k)
    <3>1. Key(h, p) <= Key(h, i) /\ Key(h, i) <= Key(h, k)
      BY <1>1, <1>2, <1>6, <2>2 DEF Order
    <3>2. p # i /\ k # i
      BY <1>4, <1>6, <2>2 DEF Under
    <3>3. Key(h, p) \in Int /\ Key(h, i) \in Int /\ Key(h, k) \in Int
      BY <1>4, <1>6 DEF Key
    <3> QED
      BY <1>7, <3>1, <3>2, <3>3
  <2> QED
    BY <2>1, <2>2 DEF Around, Bridged
<1>10. n \in 0 .. Len(s.arr) /\ Len(s.arr) = n
  BY <1>2, <1>4, <1>5
<1>11. g = Move(s, i, n)
  BY <1>2, <1>3 DEF Update
<1>12. Reordered(s, g, n) /\ Order(g, n)
  BY <1>5, <1>6, <1>8, <1>9, <1>10, <1>11, MoveWorks
<1>13. g \in Heaps /\ Indexed(g) /\ Len(g.arr) = n /\ g.timeout = s.timeout
       /\ Range(g.arr) = Range(s.arr)
  BY <1>10, <1>12 DEF Reordered
<1>14. IsHeap(g)
  BY <1>12, <1>13, HeapIs
<1>15. Range(g.arr) = Range(h.arr) \cup {m}
  BY <1>5, <1>13
<1>16. g.timeout = [h.timeout EXCEPT ![m] = t] /\ m \in Msgs
  BY <1>4, <1>5, <1>13
<1>17. Due(g) = With(h, m, t)
  BY ONLY h \in Heaps, <1>15, <1>16, DueWith
<1> QED
  BY <1>14, <1>17

LEMMA PushWorks ==
    ASSUME NEW h \in Heaps, Times \subseteq Int, IsHeap(h),
           NEW m \in Msgs, m \notin Range(h.arr), NEW t \in Times,
           NEW g, g = Push(h, m, t)
    PROVE  /\ IsHeap(g)
           /\ Due(g) = With(h, m, t)
<1>1. Indexed(h) /\ Order(h, Len(h.arr))
  BY HeapIs
<1>2. PICK n : n = Len(h.arr)
  OBVIOUS
<1>3. PICK b, x, f : /\ b = Append(h.arr, m) /\ x = [h.index EXCEPT ![m] = n]
                     /\ f = [h.timeout EXCEPT ![m] = t]
  OBVIOUS
<1>4. /\ n \in Nat /\ h.arr \in Seq(Msgs) /\ h.timeout \in [Msgs -> Times]
      /\ h.index \in [Msgs -> Int]
      /\ \A k \in 0 .. n - 1 : /\ At(h, k) \in Msgs /\ h.index[At(h, k)] = k
                              /\ At(h, k) \in Range(h.arr)
  BY <1>1, <1>2, HeapFields DEF Indexed
<1>5. /\ b \in Seq(Msgs) /\ Len(b) = n + 1 /\ b[n + 1] = m
      /\ \A k \in 1 .. n : b[k] = h.arr[k]
  BY <1>2, <1>3, <1>4
<1>6. PICK s : s = [h EXCEPT !.arr = Append(@, m), !.index[m] = n,
                            !.timeout[m] = t]
  OBVIOUS
<1>7. /\ s.arr = b /\ s.index = x /\ s.timeout = f
      /\ s = [arr |-> b, index |-> x, timeout |-> f]
  BY <1>3, <1>6 DEF Heaps
<1>8. x \in [Msgs -> Int] /\ f \in [Msgs -> Times]
  BY <1>3, <1>4
<1>9. s \in Heaps
  BY <1>5, <1>7, <1>8 DEF Heaps
<1>10. /\ At(s, n) = m
       /\ \A k \in 0 .. n - 1 : At(s, k) = At(h, k) /\ At(h, k) # m
  <2>1. \A k \in 0 .. n - 1 : k + 1 \in 1 .. n
    BY <1>4
  <2>2. \A k \in 0 .. n - 1 : At(s, k) = At(h, k)
    BY <1>5, <1>7, <2>1 DEF At
  <2> QED
    BY <1>4, <1>5, <1>7, <2>2 DEF At
<1>11. \A k \in 0 .. n - 1 : Key(s, k) = Key(h, k)
  <2> TAKE k \in 0 .. n - 1
  <2>1. At(s, k) = At(h, k) /\ At(h, k) # m /\ At(h, k) \in Msgs
    BY <1>4, <1>10
  <2>2. s.timeout[At(h, k)] = h.timeout[At(h, k)]
    BY ONLY <1>3, <1>4, <1>7, <2>1
  <2> QED
    BY <2>1, <2>2 DEF Key
<1>12. Range(s.arr) = Range(h.arr) \cup {m}
  <2>1. Len(s.arr) = n + 1 /\ \A k \in 0 .. n : k \in 0 .. Len(s.arr) - 1
    BY <1>4, <1>5, <1>7
  <2>2. ASSUME NEW q \in Range(s.arr) PROVE q \in Range(h.arr) \cup {m}
    <3>1. PICK k \in 0 .. Len(s.arr) - 1 : At(s, k) = q
      BY <1>9, HeapFields
    <3>2. k \in 0 .. n - 1 \/ k = n
      BY <1>4, <2>1, <3>1
    <3> QED
      BY <1>4, <1>10, <3>1, <3>2
  <2>3. ASSUME NEW q \in Range(h.arr) PROVE q \in Range(s.arr)
    <3>1. PICK k \in 0 .. n - 1 : At(h, k) = q
      BY <1>2, HeapFields
    <3>2. k \in 0 .. Len(s.arr) - 1
      BY <1>4, <2>1
    <3>3. At(s, k) \in Range(s.arr)
      BY <1>9, <3>2, HeapFields
    <3> QED
      BY <1>10, <3>1, <3>3
  <2>4. m \in Range(s.arr)
    <3>1. n \in 0 .. Len(s.arr) - 1
      BY <1>4, <2>1
    <3> QED
      BY <1>9, <1>10, <3>1, HeapFields
  <2> QED
    BY <2>2, <2>3, <2>4
<1>13. Indexed(s)
  <2>1. ASSUME NEW k \in 0 .. n PROVE s.index[At(s, k)] = k
    <3>1. k \in 0 .. n - 1 \/ k = n
      BY <1>4
    <3> QED
      BY <1>3, <1>4, <1>7, <1>10, <3>1
  <2>2. ASSUME NEW q \in Msgs \ Range(s.arr) PROVE s.index[q] = -1
    <3>1. q # m /\ h.index[q] = -1
      BY <1>1, <1>12 DEF Indexed
    <3> QED
      BY <1>3, <1>4, <1>7, <3>1
  <2>3. Len(s.arr) - 1 = n
    BY <1>4, <1>5, <1>7
  <2> QED
    BY <2>1, <2>2, <2>3 DEF Indexed
<1>14. Above(s, n + 1, n)
  <2>1. ASSUME NEW p \in 0 .. n, NEW k \in 0 .. n, Under(p, k), k # n
        PROVE  Key(s, p) <= Key(s, k)
    <3>1. p \in 0 .. n - 1 /\ k \in 0 .. n - 1
      BY <1>4, <2>1 DEF Under
    <3>2. Key(h, p) <= Key(h, k)
      BY <1>1, <1>2, <2>1, <3>1 DEF Order
    <3> QED
      BY <1>11, <3>1, <3>2
  <2>2. \A k \in 0 .. n : ~ Under(n, k)
    BY <1>4 DEF Under
  <2>3. (n + 1) - 1 = n
    BY <1>4
  <2> QED
    BY <2>1, <2>2, <2>3 DEF Above, Bridged
<1>15. n + 1 \in 0 .. Len(s.arr) /\ n \in 0 .. (n + 1) - 1 /\ Len(s.arr) = n + 1
  BY <1>4, <1>5, <1>7
<1>16. g = Up(s, n)
  BY <1>2, <1>6 DEF Push
<1>17. Reordered(s, g, n + 1) /\ Order(g, n + 1)
  BY <1>9, <1>13, <1>14, <1>15, <1>16, UpWorks
<1>18. /\ g \in Heaps /\ Indexed(g) /\ Len(g.arr) = n + 1
       /\ g.timeout = s.timeout /\ Range(g.arr) = Range(s.arr)
  BY <1>15, <1>17 DEF Reordered
<1>19. IsHeap(g)
  BY <1>17, <1>18, HeapIs
<1>20. g.timeout = [h.timeout EXCEPT ![m] = t]
       /\ Range(g.arr) = Range(h.arr) \cup {m}
  BY <1>3, <1>7, <1>12, <1>18
<1> QED
  BY <1>19, <1>20, DueWith

(***************************************************************************)
(* Whatever the number of messages and their times, from every heap that     *)
(* the operations of MinHeap meet, Pop, Delete, Push and Update yield a heap  *)
(* again: the set that AckManage has is what the array amounts to.           *)
(***************************************************************************)
THEOREM HeapOperationsWork ==
    Times \subseteq Int => \A h \in Heaps : IsHeap(h) => OpsWork(h)
<1> SUFFICES ASSUME Times \subseteq Int, NEW h \in Heaps, IsHeap(h)
             PROVE  OpsWork(h)
  OBVIOUS
<1>1. ASSUME NEW m \in Msgs, NEW t \in Times
      PROVE  LET g == IF m \in Range(h.arr) THEN Update(h, m, t)
                      ELSE Push(h, m, t)
             IN  IsHeap(g) /\ Due(g) = With(h, m, t)
  BY UpdateWorks, PushWorks
<1> QED
  BY <1>1, PopWorks, DeleteWorks DEF OpsWork, With

(* ... among them the heaps on which TLC evaluates the operations: up to    *)
(* the names of the messages, every heap of k messages.                    *)
COROLLARY HeapSpecHolds ==
    ASSUME NEW k \in Nat, Msgs = 1 .. k, Times \subseteq Int
    PROVE  HeapSpec
<1>1. Cardinality(Msgs) = k
  BY FS_Interval
<1>2. ASSUME NEW n \in 0 .. Cardinality(Msgs), NEW f \in [Msgs -> Times]
      PROVE  [arr |-> [i \in 1 .. n |-> i],
              index |-> [m \in Msgs |-> IF m <= n THEN m - 1 ELSE -1],
              timeout |-> f] \in Heaps
  <2>1. n \in Nat /\ \A i \in 1 .. n : i \in Msgs
    BY <1>1
  <2>2. [i \in 1 .. n |-> i] \in Seq(Msgs)
    BY <2>1
  <2>3. [m \in Msgs |-> IF m <= n THEN m - 1 ELSE -1] \in [Msgs -> Int]
    BY <2>1
  <2> QED
    BY <2>2, <2>3 DEF Heaps
<1> QED
  BY <1>2, HeapOperationsWork DEF HeapSpec, HeapsUpToNames
=============================================================================

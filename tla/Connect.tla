------------------------------ MODULE Connect ------------------------------
(***************************************************************************)
(* One client connection of the comit server (comit/fxsrv/connect.go), with *)
(* the goroutines that work on it:                                          *)
(*                                                                          *)
(*   Reader    the goroutine of service.Run: read, unpack, routesRun, and   *)
(*             the closeCallback after work() returns;                      *)
(*   Loop      writeLoop: takes requests from writeChan to the socket and   *)
(*             checks the heartbeat at every tick;                          *)
(*   Workers   the goroutines of the WorkPool, which run the handlers of    *)
(*             this connection's frames;                                    *)
(*   Pushers   every other goroutine that calls Write on this connection:   *)
(*             the retry loop, the gRPC server, handlers of chat messages   *)
(*             and pulls.                                                   *)
(*                                                                          *)
(* Write and Close are split where the goroutines can interleave.  A Go     *)
(* panic ends the whole process: `panic' records it and nothing runs after  *)
(* it.  Bytes, routing tables and reply bodies are abstracted; the frames   *)
(* of the client are the three kinds whose handlers change the connection.  *)
(***************************************************************************)
EXTENDS Integers, Sequences, FiniteSets

CONSTANTS
    Workers,     \* goroutines of the work pool
    Pushers,     \* other goroutines that write to this connection
    WriteCap,    \* capacity of writeChan (10 in service.Run)
    WorkCap,     \* capacity of workFuncChan (SetWorkChanSize)
    Timeout,     \* opts.timeout: period of the ticker and limit on silence
    HeartBonus,  \* what PingHandle adds to the time of the ping (100)
    MaxCalls     \* bound: requests the server writes to this connection

ASSUME ConnectAssumption ==
    /\ Workers \cap Pushers = {}
    /\ {"reader", "loop"} \cap (Workers \cup Pushers) = {}
    /\ WriteCap \in Nat \ {0}
    /\ WorkCap \in Nat \ {0}
    /\ Timeout \in Nat \ {0}
    /\ HeartBonus \in Nat
    /\ MaxCalls \in Nat

Reader == "reader"
Loop == "loop"
Writers == Workers \cup Pushers
Procs == {Reader, Loop} \cup Writers

Requests == 1 .. MaxCalls
NoReq == 0

(***************************************************************************)
(* A frame of the client: its kind, and the request that its handler will   *)
(* write in reply.  "auth" is a good Auth frame and "bad" one that          *)
(* AuthHandle refuses.  "push" marks a request in the hands of a goroutine  *)
(* that is not answering a frame.                                           *)
(***************************************************************************)
Kinds == {"auth", "bad", "ping"}
Frame(k, r) == [kind |-> k, req |-> r]
Frames == [kind : Kinds \cup {"push"}, req : Requests \cup {NoReq}]
NoFrame == Frame("push", NoReq)

CloseSteps == {"conn", "exitChan", "writeChan"}
Steps == {"read", "dispatch", "callback", "select", "write", "idle", "check",
          "choose", "cas", "gone"} \cup CloseSteps

VARIABLES
    isClose,      \* the flag that Close sets with CompareAndSwap
    sock,         \* the server's side of the TCP connection: "open", "closed"
    exitClosed,   \* exitChan has been closed
    writeClosed,  \* writeChan has been closed
    writeChan,    \* the requests buffered in writeChan
    auth,         \* the flag SetAuth sets
    lag,          \* now - heartTime, as far as the heartbeat can tell
    phase,        \* time since the ticker last fired
    tick,         \* the ticker's channel: empty, or a tick and its verdict
    peer,         \* the client: "up", "stuck" (silent, not reading), "gone"
    inbox,        \* frames of the client that the reader has not read
    jobs,         \* workFuncChan
    pc,           \* where each goroutine is
    hand,         \* the frame (or request) each goroutine is working on
    panic,        \* the panic that ended the process, or "none"
    calls,        \* requests written so far, bounded by MaxCalls
    accepted,     \* history: requests for which Write returned nil
    wire          \* history: requests handed to the socket

chanVars == <<isClose, sock, exitClosed, writeClosed>>
timeVars == <<lag, phase, tick>>
inVars == <<peer, inbox, jobs, calls>>
vars == <<isClose, sock, exitClosed, writeClosed, writeChan, auth, lag, phase,
          tick, peer, inbox, jobs, pc, hand, panic, calls, accepted, wire>>

(***************************************************************************)
(* time.Now() is the Unix time and heartTime starts at 0, so before the     *)
(* first ping the connection is already later than any limit; beyond the    *)
(* limit the exact lag makes no difference.                                 *)
(***************************************************************************)
LagLimit == Timeout + 1

TypeOK ==
    /\ isClose \in {0, 1}
    /\ sock \in {"open", "closed"}
    /\ exitClosed \in BOOLEAN
    /\ writeClosed \in BOOLEAN
    /\ writeChan \in Seq(Requests)
    /\ Len(writeChan) <= WriteCap
    /\ auth \in BOOLEAN
    /\ lag \in (-HeartBonus) .. LagLimit
    /\ phase \in 0 .. Timeout - 1
    /\ tick \in {"none", "early", "late"}
    /\ peer \in {"up", "stuck", "gone"}
    /\ inbox \in Seq(Frames)
    /\ jobs \in Seq(Frames)
    /\ Len(jobs) <= WorkCap
    /\ pc \in [Procs -> Steps]
    /\ hand \in [Procs -> Frames]
    /\ panic \in {"none", "send", "close"}
    /\ calls \in 0 .. MaxCalls
    /\ accepted \in Seq(Requests)
    /\ wire \in Seq(Requests)

(***************************************************************************)
(* service.Run accepts the connection, makes its channels and its ticker,   *)
(* and starts work().                                                       *)
(***************************************************************************)
Init ==
    /\ isClose = 0
    /\ sock = "open"
    /\ exitClosed = FALSE
    /\ writeClosed = FALSE
    /\ writeChan = <<>>
    /\ auth = FALSE
    /\ lag = LagLimit
    /\ phase = 0
    /\ tick = "none"
    /\ peer = "up"
    /\ inbox = <<>>
    /\ jobs = <<>>
    /\ pc = [p \in Procs |-> IF p = Reader THEN "read"
                         ELSE IF p = Loop THEN "select"
                         ELSE "idle"]
    /\ hand = [p \in Procs |-> NoFrame]
    /\ panic = "none"
    /\ calls = 0
    /\ accepted = <<>>
    /\ wire = <<>>

Goto(p, step) == pc' = [pc EXCEPT ![p] = step]
Drop(p) == hand' = [hand EXCEPT ![p] = NoFrame]
At(p, step) == panic = "none" /\ pc[p] = step

-----------------------------------------------------------------------------
(* The client and the clock.                                               *)

(* Bound: the client sends a ping when no earlier one is under way.         *)
PingUnderWay ==
    \/ hand[Reader].kind = "ping"
    \/ \E i \in DOMAIN jobs : jobs[i].kind = "ping"

(* The client sends a frame.  Pings repeat for ever; the frames that make  *)
(* the server write are bounded by MaxCalls.                                *)
PeerSend(k) ==
    /\ panic = "none"
    /\ peer = "up"
    /\ inbox = <<>>
    /\ \/ /\ k = "ping"
          /\ ~PingUnderWay
          /\ inbox' = <<Frame("ping", NoReq)>>
          /\ UNCHANGED calls
       \/ /\ k # "ping"
          /\ calls < MaxCalls
          /\ calls' = calls + 1
          /\ inbox' = <<Frame(k, calls + 1)>>
    /\ UNCHANGED <<chanVars, writeChan, auth, timeVars, peer, jobs, pc, hand,
                   panic, accepted, wire>>

(* The client closes the connection or its host dies ("gone": the kernel   *)
(* reports an error), or its program hangs ("stuck": the kernel at its end  *)
(* still answers, so nothing is reported).                                  *)
PeerFails ==
    /\ panic = "none"
    /\ \/ peer = "up" /\ peer' \in {"stuck", "gone"}
       \/ peer = "stuck" /\ peer' = "gone"
    /\ UNCHANGED <<chanVars, writeChan, auth, timeVars, inbox, jobs, pc, hand,
                   panic, calls, accepted, wire>>

(* Mutant: the silence limit is off by one (>= for >).                      *)
ClockEarly ==
    LET now == IF lag < LagLimit THEN lag + 1 ELSE LagLimit
    IN  /\ panic = "none"
        /\ pc[Loop] # "gone"
        /\ lag' = now
        /\ phase' = (phase + 1) % Timeout
        /\ tick' = IF phase' = 0 /\ tick = "none"
                   THEN IF now >= Timeout THEN "late" ELSE "early"
                   ELSE tick
        /\ UNCHANGED <<chanVars, writeChan, auth, inVars, pc, hand, panic,
                       accepted, wire>>

(* A unit of time passes.  The ticker fires every Timeout units, into a    *)
(* channel of one place, until writeLoop's deferred Stop, after which time  *)
(* no longer matters.  The tick carries its own time n, and the model keeps *)
(* the verdict n - timeout > heartTime with it.                             *)
Clock ==
    LET now == IF lag < LagLimit THEN lag + 1 ELSE LagLimit
    IN  /\ panic = "none"
        /\ pc[Loop] # "gone"
        /\ lag' = now
        /\ phase' = (phase + 1) % Timeout
        /\ tick' = IF phase' = 0 /\ tick = "none"
                   THEN IF now > Timeout THEN "late" ELSE "early"
                   ELSE tick
        /\ UNCHANGED <<chanVars, writeChan, auth, inVars, pc, hand, panic,
                       accepted, wire>>

-----------------------------------------------------------------------------
(* Close: only the goroutine whose CompareAndSwap succeeds closes the      *)
(* socket and the two channels, one after the other.                        *)

AfterClose(p) ==
    IF p = Reader THEN "callback" ELSE IF p = Loop THEN "gone" ELSE "idle"

(* Mutant: the flag is loaded and stored without CompareAndSwap.            *)
CloseNoSwap(p) ==
    /\ At(p, "cas")
    /\ isClose' = 1
    /\ Goto(p, "conn")
    /\ UNCHANGED <<sock, exitClosed, writeClosed, writeChan, auth, timeVars,
                   inVars, hand, panic, accepted, wire>>

Close(p) ==
    /\ At(p, "cas")
    /\ IF isClose = 0
       THEN isClose' = 1 /\ Goto(p, "conn")
       ELSE UNCHANGED isClose /\ Goto(p, AfterClose(p))
    /\ UNCHANGED <<sock, exitClosed, writeClosed, writeChan, auth, timeVars,
                   inVars, hand, panic, accepted, wire>>

(* Mutant: Close leaves the socket open.                                    *)
CloseConnKeeps(p) ==
    /\ At(p, "conn")
    /\ Goto(p, "exitChan")
    /\ UNCHANGED <<chanVars, writeChan, auth, timeVars, inVars, hand, panic,
                   accepted, wire>>

CloseConn(p) ==
    /\ At(p, "conn")
    /\ sock' = "closed"
    /\ Goto(p, "exitChan")
    /\ UNCHANGED <<isClose, exitClosed, writeClosed, writeChan, auth, timeVars,
                   inVars, hand, panic, accepted, wire>>

(* Closing a closed channel is a panic.                                     *)
CloseExitChan(p) ==
    /\ At(p, "exitChan")
    /\ exitClosed' = TRUE
    /\ panic' = IF exitClosed THEN "close" ELSE panic
    /\ Goto(p, "writeChan")
    /\ UNCHANGED <<isClose, sock, writeClosed, writeChan, auth, timeVars,
                   inVars, hand, accepted, wire>>

CloseWriteChan(p) ==
    /\ At(p, "writeChan")
    /\ writeClosed' = TRUE
    /\ panic' = IF writeClosed THEN "close" ELSE panic
    /\ Goto(p, AfterClose(p))
    /\ UNCHANGED <<isClose, sock, exitClosed, writeChan, auth, timeVars,
                   inVars, hand, accepted, wire>>

-----------------------------------------------------------------------------
(* Write: the check of isClose, then a select over exitChan, writeChan and *)
(* default.  A handler that refuses an Auth frame closes the connection     *)
(* after its reply, whatever Write returned (Authreply).                    *)

Return(p) == Goto(p, IF hand[p].kind = "bad" THEN "cas" ELSE "idle") /\ Drop(p)

Write(p) ==
    /\ p \in Writers
    /\ At(p, "check")
    /\ IF isClose = 1
       THEN Return(p)
       ELSE Goto(p, "choose") /\ UNCHANGED hand
    /\ UNCHANGED <<chanVars, writeChan, auth, timeVars, inVars, panic,
                   accepted, wire>>

WriteSend(p) ==
    /\ At(p, "choose")
    /\ ~writeClosed
    /\ Len(writeChan) < WriteCap
    /\ writeChan' = Append(writeChan, hand[p].req)
    /\ accepted' = Append(accepted, hand[p].req)
    /\ Return(p)
    /\ UNCHANGED <<chanVars, auth, timeVars, inVars, panic, wire>>

(* ConnectIsCloseError when exitChan is closed; WriteblockError, by the     *)
(* default case, when no other case is ready.                               *)
WriteFail(p) ==
    /\ At(p, "choose")
    /\ \/ exitClosed
       \/ ~writeClosed /\ Len(writeChan) = WriteCap
    /\ Return(p)
    /\ UNCHANGED <<chanVars, writeChan, auth, timeVars, inVars, panic,
                   accepted, wire>>

(* A send on a closed channel is always ready, and panics when chosen.      *)
WritePanic(p) ==
    /\ At(p, "choose")
    /\ writeClosed
    /\ panic' = "send"
    /\ UNCHANGED <<chanVars, writeChan, auth, timeVars, inVars, pc, hand,
                   accepted, wire>>

-----------------------------------------------------------------------------
(* writeLoop                                                               *)

LoopExit ==
    /\ At(Loop, "select")
    /\ exitClosed
    /\ Goto(Loop, "gone")
    /\ UNCHANGED <<chanVars, writeChan, auth, timeVars, inVars, hand, panic,
                   accepted, wire>>

(* A closed and drained writeChan yields nil, which the loop skips.         *)
LoopTake ==
    /\ At(Loop, "select")
    /\ writeChan # <<>>
    /\ hand' = [hand EXCEPT ![Loop] = Frame("push", Head(writeChan))]
    /\ writeChan' = Tail(writeChan)
    /\ Goto(Loop, "write")
    /\ UNCHANGED <<chanVars, auth, timeVars, inVars, panic, accepted, wire>>

(* conn.Write takes the bytes while the socket is open; the kernel may     *)
(* still take them for a client that is stuck or gone.                      *)
LoopWrite ==
    /\ At(Loop, "write")
    /\ sock = "open"
    /\ wire' = Append(wire, hand[Loop].req)
    /\ Drop(Loop)
    /\ Goto(Loop, "select")
    /\ UNCHANGED <<chanVars, writeChan, auth, timeVars, inVars, panic, accepted>>

(* Mutant: the loop goes on after an error of conn.Write.                   *)
LoopWriteContinue ==
    /\ At(Loop, "write")
    /\ sock = "closed" \/ peer = "gone"
    /\ Goto(Loop, "select")
    /\ Drop(Loop)
    /\ UNCHANGED <<chanVars, writeChan, auth, timeVars, inVars, panic,
                   accepted, wire>>

(* On an error of conn.Write the loop returns, without Close.              *)
LoopWriteError ==
    /\ At(Loop, "write")
    /\ sock = "closed" \/ peer = "gone"
    /\ Goto(Loop, "gone")
    /\ UNCHANGED <<chanVars, writeChan, auth, timeVars, inVars, hand, panic,
                   accepted, wire>>

(* Mutant: a tick is read and its verdict is ignored.                       *)
LoopTickIgnored ==
    /\ At(Loop, "select")
    /\ tick # "none"
    /\ tick' = "none"
    /\ UNCHANGED <<chanVars, writeChan, auth, lag, phase, inVars, pc, hand,
                   panic, accepted, wire>>

(* Mutant: the return stands after the if instead of in it.                 *)
LoopTickReturns ==
    /\ At(Loop, "select")
    /\ tick # "none"
    /\ tick' = "none"
    /\ Goto(Loop, IF tick = "late" THEN "cas" ELSE "gone")
    /\ UNCHANGED <<chanVars, writeChan, auth, lag, phase, inVars, hand, panic,
                   accepted, wire>>

LoopTick ==
    /\ At(Loop, "select")
    /\ tick # "none"
    /\ tick' = "none"
    /\ Goto(Loop, IF tick = "late" THEN "cas" ELSE "select")
    /\ UNCHANGED <<chanVars, writeChan, auth, lag, phase, inVars, hand, panic,
                   accepted, wire>>

-----------------------------------------------------------------------------
(* read, unpack and routesRun, and the closeCallback                       *)

ReadFrame ==
    /\ At(Reader, "read")
    /\ sock = "open"
    /\ inbox # <<>>
    /\ hand' = [hand EXCEPT ![Reader] = Head(inbox)]
    /\ inbox' = Tail(inbox)
    /\ Goto(Reader, "dispatch")
    /\ UNCHANGED <<chanVars, writeChan, auth, timeVars, peer, jobs, panic,
                   calls, accepted, wire>>

(* AddWrok blocks the reader while workFuncChan is full.                    *)
AddWrok ==
    /\ At(Reader, "dispatch")
    /\ Len(jobs) < WorkCap
    /\ jobs' = Append(jobs, hand[Reader])
    /\ Drop(Reader)
    /\ Goto(Reader, "read")
    /\ UNCHANGED <<chanVars, writeChan, auth, timeVars, peer, inbox, panic,
                   calls, accepted, wire>>

(* Mutant: read ignores the error and reads again.                          *)
ReadErrorIgnored ==
    /\ At(Reader, "read")
    /\ sock = "closed" \/ (peer = "gone" /\ inbox = <<>>)
    /\ UNCHANGED vars

(* Data that arrived before the end of the stream is read first.            *)
ReadError ==
    /\ At(Reader, "read")
    /\ sock = "closed" \/ (peer = "gone" /\ inbox = <<>>)
    /\ Goto(Reader, "cas")
    /\ UNCHANGED <<chanVars, writeChan, auth, timeVars, inVars, hand, panic,
                   accepted, wire>>

CloseCallback ==
    /\ At(Reader, "callback")
    /\ Goto(Reader, "gone")
    /\ UNCHANGED <<chanVars, writeChan, auth, timeVars, inVars, hand, panic,
                   accepted, wire>>

-----------------------------------------------------------------------------
(* The handlers, run by the workers                                        *)

(* A worker takes a job and calls its handler.  AuthMiddleHandle drops a   *)
(* ping of a connection that is not authenticated.  AuthHandle goes on to   *)
(* Write its reply.                                                         *)
StartJob(w) ==
    LET f == Head(jobs)
        heard == f.kind = "ping" /\ auth
    IN  /\ At(w, "idle")
        /\ jobs # <<>>
        /\ jobs' = Tail(jobs)
        /\ auth' = (auth \/ f.kind = "auth")
        /\ lag' = IF heard THEN -HeartBonus ELSE lag
        /\ tick' = IF heard /\ tick = "late" THEN "early" ELSE tick
        /\ IF f.kind # "ping"
           THEN Goto(w, "check") /\ hand' = [hand EXCEPT ![w] = f]
           ELSE UNCHANGED <<pc, hand>>
        /\ UNCHANGED <<chanVars, writeChan, phase, peer, inbox, panic, calls,
                       accepted, wire>>

(* Another goroutine has a request for this client.                         *)
StartPush(p) ==
    /\ At(p, "idle")
    /\ calls < MaxCalls
    /\ calls' = calls + 1
    /\ hand' = [hand EXCEPT ![p] = Frame("push", calls + 1)]
    /\ Goto(p, "check")
    /\ UNCHANGED <<chanVars, writeChan, auth, timeVars, peer, inbox, jobs,
                   panic, accepted, wire>>

-----------------------------------------------------------------------------
Closing(p) == Close(p) \/ CloseConn(p) \/ CloseExitChan(p) \/ CloseWriteChan(p)
Writing(p) == Write(p) \/ WriteSend(p) \/ WriteFail(p) \/ WritePanic(p)
Looping == LoopExit \/ LoopTake \/ LoopWrite \/ LoopWriteError \/ LoopTick
Reading == ReadFrame \/ AddWrok \/ ReadError \/ CloseCallback

Next ==
    \/ \E k \in Kinds : PeerSend(k)
    \/ PeerFails
    \/ Clock
    \/ \E p \in Procs : Closing(p)
    \/ \E p \in Writers : Writing(p)
    \/ Looping
    \/ Reading
    \/ \E w \in Workers : StartJob(w)
    \/ \E p \in Pushers : StartPush(p)

Spec == Init /\ [][Next]_vars

(***************************************************************************)
(* The Go scheduler runs every goroutine that can run.  A send to a client  *)
(* that is not reading may block for ever, so LoopWrite is fair only while  *)
(* the client is up.  The select of the loop is fair to a tick that stays   *)
(* pending and to exitChan, and to writeChan.  Nothing makes the client     *)
(* send or fail.                                                            *)
(***************************************************************************)
Fairness ==
    /\ WF_vars(Clock)
    /\ \A p \in Procs : WF_vars(Closing(p))
    /\ \A p \in Writers : WF_vars(Writing(p))
    /\ \A w \in Workers : WF_vars(StartJob(w))
    /\ WF_vars(Reading)
    /\ WF_vars(peer = "up" /\ LoopWrite)
    /\ WF_vars(LoopWriteError)
    /\ SF_vars(LoopExit)
    /\ SF_vars(LoopTake)
    /\ SF_vars(LoopTick)

FairSpec == Spec /\ Fairness

-----------------------------------------------------------------------------
(* Properties                                                              *)

(* The request writeLoop has taken from writeChan and not yet handed to    *)
(* the socket.                                                              *)
InHand == IF hand[Loop].req = NoReq THEN <<>> ELSE <<hand[Loop].req>>

(* Every request for which Write returned nil is on the wire, in the hands *)
(* of writeLoop or in writeChan, and they leave in the order of acceptance: *)
(* the connection neither drops, repeats nor reorders what it accepted.     *)
NothingSkipped == accepted = wire \o InHand \o writeChan

(* Close may be called by the reader, by writeLoop and by any handler at   *)
(* the same time; no interleaving closes a channel a second time, which     *)
(* would panic and end the server.                                          *)
ClosedOnce == panic # "close"

(* At most one goroutine is inside the body of Close, only after isClose    *)
(* was set, and what it has still to close is open: the reason ClosedOnce   *)
(* holds.                                                                   *)
OneCloser ==
    /\ \A p, q \in Procs :
          pc[p] \in CloseSteps /\ pc[q] \in CloseSteps => p = q
    /\ isClose = 0 =>
          /\ \A p \in Procs : pc[p] \notin CloseSteps
          /\ ~exitClosed /\ ~writeClosed /\ sock = "open"
    /\ \A p \in Procs : pc[p] \in {"conn", "exitChan"} => ~exitClosed
    /\ \A p \in Procs : pc[p] \in CloseSteps => ~writeClosed

(* A goroutine that is about to use a frame holds a real one, and so do the *)
(* inbox and the job queue.                                                 *)
Real(f) == f.kind # "push" /\ (f.kind # "ping" => f.req # NoReq)
AllReal(s) == \A i \in 1 .. Len(s) : Real(s[i])

HandsFull ==
    /\ \A p \in Writers : pc[p] \in {"check", "choose"} => hand[p].req # NoReq
    /\ pc[Reader] = "dispatch" => Real(hand[Reader])
    /\ pc[Loop] = "write" => hand[Loop].req # NoReq
    /\ pc[Loop] \notin {"write", "gone"} => hand[Loop] = NoFrame
    /\ AllReal(inbox)
    /\ AllReal(jobs)

(* A tick that would close the connection is pending only while the client *)
(* is beyond its limit: a ping handled after the tick fired takes the       *)
(* verdict back.                                                            *)
LateIsLate == tick = "late" => lag > Timeout

(* The inductive invariant of the connection: what one goroutine relies on *)
(* while the others run.                                                    *)
ConnectInv == TypeOK /\ HandsFull /\ OneCloser /\ NothingSkipped /\ LateIsLate

(* writeLoop drops a client for its silence only if PingHandle has not run  *)
(* within the last Timeout + HeartBonus units, even when a tick waited in   *)
(* the ticker's channel while the ping was handled.                         *)
HeartbeatSparesPinger ==
    [][pc[Loop] = "select" /\ pc'[Loop] = "cas" => lag > Timeout]_vars

(* The comment in Write (connect.go:92): when the connection is closed,     *)
(* exitChan responds.  It implies that a Write that races with Close        *)
(* returns ConnectIsCloseError and never sends on the closed writeChan.     *)
NoSendOnClosedChannel == panic # "send"

(* Once Close has begun, or the client has disconnected, the socket is      *)
(* closed and both goroutines of the connection end, the reader after its   *)
(* closeCallback, unless a panic ends the process; and that although        *)
(* writeLoop returns without Close when conn.Write fails.                   *)
Teardown ==
    isClose = 1 \/ peer = "gone" ~> \/ panic # "none"
                                    \/ /\ sock = "closed"
                                       /\ pc[Reader] = "gone"
                                       /\ pc[Loop] = "gone"

(* A client that falls silent for good is dropped by the heartbeat, except  *)
(* when writeLoop, which also checks the heartbeat, hangs in conn.Write:    *)
(* no write deadline is set.                                                *)
SilentDropped ==
    peer = "stuck" ~> \/ isClose = 1
                      \/ panic # "none"
                      \/ peer = "gone"
                      \/ [](pc[Loop] = "write")

(* The requests that were accepted reach the socket if the client stays up  *)
(* and the connection stays open.                                           *)
AcceptedGoesOut ==
    accepted # wire ~> \/ accepted = wire
                       \/ peer # "up" \/ isClose = 1 \/ panic # "none"

(* The connection implements the stream of FrameStream: the mapping reads   *)
(* `broken' off the end of writeLoop.                                       *)
Stream == INSTANCE FrameStream WITH broken <- pc[Loop] = "gone"
StreamSpec == Stream!Spec
=============================================================================

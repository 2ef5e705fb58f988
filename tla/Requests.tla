------------------------------ MODULE Requests ------------------------------
(***************************************************************************)
(* How a frame becomes a Request of comit and what becomes of that object:  *)
(* the reader of one connection (comit/fxsrv/connect.go) cuts frames out of *)
(* its bytes.Buffer, takes a Request from the pool that all connections     *)
(* share and gives it to the work pool; a worker runs the middleware and    *)
(* the handler of its route; OneMessageHandle queues the same object on the *)
(* receiver's connection, whose writeLoop turns it into bytes again.        *)
(*                                                                          *)
(* Connect has the closing of a connection, which is left out here.  Bytes  *)
(* matter: the Body of a Request is a slice of the buffer's memory.         *)
(***************************************************************************)
EXTENDS Integers, SequencesExt

CONSTANTS
    Stream,    \* the frames of the client, [type |-> ..., body |-> bytes]
    Reads,     \* numbers of bytes that one conn.Read returns
    Small,     \* the least capacity of a bytes.Buffer (64)
    Workers,
    WorkCap,   \* capacity of workFuncChan
    WriteCap   \* capacity of the receiver's writeChan

Byte == 0 .. 255
Word == 256 * 256
Uint16s == 0 .. Word - 1
Frames == [type : Uint16s, body : Seq(Byte)]

(* The frames differ, and the length of each fits its four bytes.           *)
ASSUME RequestsAssumption ==
    /\ Stream \in Seq(Frames)
    /\ IsInjective(Stream)
    /\ \A i \in DOMAIN Stream : Len(Stream[i].body) \div Word < Word - 1
    /\ Reads \subseteq Nat \ {0}
    /\ {Small, WorkCap, WriteCap} \subseteq Nat \ {0}

(***************************************************************************)
(* The routes that setRouter adds: type -> handler, and those AuthMiddle-   *)
(* Handle guards.  Any type without a route goes back to the pool.          *)
(***************************************************************************)
Auth == 1
OneMessage == 2
Ping == 6
PullOneMessage == 7
Routes == {Auth, OneMessage, Ping, PullOneMessage}
AuthMiddle == {OneMessage, Ping}

(* Request.GetBytes: type, length of the body, a flag, the body. *)
PutUint16(n) == <<(n \div 256) % 256, n % 256>>
PutUint32(n) == PutUint16(n \div Word) \o PutUint16(n % Word)
GetBytes(type, len, body) ==
    PutUint16(type) \o PutUint32(len) \o <<0>> \o body
FrameBytes(f) == GetBytes(f.type, Len(f.body), f.body)

(* What the client sends with its first i frames, and with all of them. *)
SentTo[i \in 0 .. Len(Stream)] ==
    IF i = 0 THEN <<>> ELSE SentTo[i - 1] \o FrameBytes(Stream[i])
Sent == SentTo[Len(Stream)]

VARIABLES
    unread,      \* what the network still holds for the reader
    mem,         \* the arrays the buffer has used, one after another
    buf,         \* [off, end]: the unread part of the newest of them
    unpacking,   \* the reader is in unpack's loop
    req,         \* the Request objects: type, length, and Body as a slice
    pool,        \* those that requstPool holds
    jobs,        \* workFuncChan
    at,          \* each worker: "idle", "auth", "forward" or "put"
    hand,        \* the object its handler was given
    auth,
    writeChan,   \* the objects queued on the receiver's connection
    panic,       \* an index out of range has ended the process
    opened,      \* history: the frames unpack found
    handled,     \* history: what the handlers read in their requests
    wire,        \* history: what the receiver's writeLoop sent
    misread,     \* history: unpack took a frame that was not all there
    reused       \* history: the buffer moved back to the start of its array

bufVars == <<unread, mem, buf, unpacking, opened, misread, reused>>
workVars == <<at, hand, auth, handled>>
requestsVars == <<bufVars, workVars, req, pool, jobs, writeChan, panic, wire>>

NoReq == 0
Newest == mem[Len(mem)]
Cap == Len(Newest)
BufLen == buf.end - buf.off
Slice(array, from, to) == SubSeq(mem[array], from + 1, to)
Body(r) == Slice(req[r].array, req[r].from, req[r].to)
Hands == {hand[w] : w \in {v \in Workers : at[v] # "idle"}}

RequestsInit ==
    /\ unread = Sent
    /\ mem = << <<>> >> /\ buf = [off |-> 0, end |-> 0]
    /\ unpacking = FALSE
    /\ req = <<>> /\ pool = {} /\ jobs = <<>> /\ writeChan = <<>>
    /\ at = [w \in Workers |-> "idle"] /\ hand = [w \in Workers |-> NoReq]
    /\ auth = FALSE /\ panic = FALSE
    /\ opened = <<>> /\ handled = <<>> /\ wire = <<>>
    /\ misread = FALSE /\ reused = FALSE

-----------------------------------------------------------------------------
(* The reader. *)

(***************************************************************************)
(* bytes.Buffer.Write: behind the rest if the array has room; else the rest *)
(* moves to the start of the same array, if it is empty or the array is     *)
(* half free, or to a larger one.                                           *)
(***************************************************************************)
Put(array, i, data) ==
    [k \in DOMAIN array |->
        IF k \in i + 1 .. i + Len(data) THEN data[k - i] ELSE array[k]]
Zeros(n) == [i \in 1 .. n |-> 0]

Write(data) ==
    LET cap == Cap
        n == Len(data)
        rest == Slice(Len(mem), buf.off, buf.end)
    IN  \/ /\ buf.end + n <= cap
           /\ mem' = [mem EXCEPT ![Len(mem)] = Put(@, buf.end, data)]
           /\ buf' = [buf EXCEPT !.end = @ + n]
           /\ UNCHANGED reused
        \/ /\ buf.end + n > cap
           /\ (BufLen = 0 /\ n <= cap) \/ (n + BufLen <= cap \div 2)
           /\ mem' = [mem EXCEPT ![Len(mem)] =
                        Put(rest \o SubSeq(@, BufLen + 1, cap), BufLen,
                            data)]
           /\ buf' = [off |-> 0, end |-> BufLen + n]
           /\ reused' = TRUE
        \/ /\ buf.end + n > cap
           /\ ~ (BufLen = 0 /\ n <= cap) /\ n + BufLen > cap \div 2
           /\ LET new == IF cap = 0 /\ n <= Small THEN Small ELSE 2 * cap + n
              IN  mem' = Append(mem, Put(rest \o Zeros(new - BufLen), BufLen,
                                     data))
           /\ buf' = [off |-> 0, end |-> BufLen + n]
           /\ UNCHANGED reused

Read(n) ==
    /\ ~ unpacking /\ n <= Len(unread)
    /\ Write(SubSeq(unread, 1, n))
    /\ unread' = SubSeq(unread, n + 1, Len(unread))
    /\ unpacking' = TRUE
    /\ UNCHANGED <<workVars, req, pool, jobs, writeChan, panic, wire, opened,
                   misread>>

(***************************************************************************)
(* One round of unpack, which looks for 5 bytes of header although it has   *)
(* 7.  A slice may reach beyond the end of the buffer, up to the capacity   *)
(* of its array; Next drops no more than there is.                         *)
(***************************************************************************)
Uint16(from) == 256 * Newest[from + 1] + Newest[from + 2]
Uint32(from) == Word * Uint16(from) + Uint16(from + 2)
HeaderCut == buf.off + 6 > Cap
BodyLen == Uint32(buf.off + 2)
(* Mutant: Next forgets the flag. *)
Next7Short == buf.off + 6 + BodyLen

Next7 == buf.off + 7 + BodyLen
OutOfRange == HeaderCut \/ Next7 > Cap
Ready == BufLen >= 5 /\ (HeaderCut \/ BufLen - 5 >= BodyLen)

UnpackBreak ==
    /\ unpacking /\ ~ Ready
    /\ unpacking' = FALSE
    /\ UNCHANGED <<workVars, unread, mem, buf, opened, misread, reused, req,
                   pool, jobs, writeChan, panic, wire>>

UnpackPanic ==
    /\ unpacking /\ Ready /\ OutOfRange
    /\ panic' = TRUE
    /\ UNCHANGED <<bufVars, workVars, req, pool, jobs, writeChan, wire>>

(* requstPool.Get: one of the objects put back, or a new one. *)
Get(r) == r \in pool \/ r = Len(req) + 1

Unpack(r) ==
    /\ unpacking /\ Ready /\ ~ OutOfRange
    /\ Get(r) /\ Len(jobs) < WorkCap
    /\ LET new == [type |-> Uint16(buf.off), len |-> BodyLen,
                   array |-> Len(mem), from |-> buf.off + 7, to |-> Next7]
       IN  /\ req' = IF r \in DOMAIN req THEN [req EXCEPT ![r] = new]
                     ELSE Append(req, new)
           /\ opened' = Append(opened, [type |-> new.type, body |->
                                         Slice(Len(mem), new.from, new.to)])
    /\ pool' = pool \ {r}
    /\ misread' = (misread \/ BufLen < 7 + BodyLen)
    /\ buf' = [buf EXCEPT !.off = IF Next7 < buf.end THEN Next7 ELSE buf.end]
    /\ jobs' = Append(jobs, r)
    /\ UNCHANGED <<workVars, unread, mem, unpacking, reused, writeChan, panic,
                   wire>>

-----------------------------------------------------------------------------
(* The workers. *)

Handler(type) == CASE type = Auth -> "auth"
                   [] type = OneMessage -> "forward"
                   [] OTHER -> "put"

(* A worker takes a job whose middleware refuses: the object is forgotten. *)
Refuse(w) ==
    /\ at[w] = "idle" /\ jobs # <<>>
    /\ req[Head(jobs)].type \in AuthMiddle /\ ~ auth
    /\ jobs' = Tail(jobs)
    /\ UNCHANGED <<bufVars, workVars, req, pool, writeChan, panic, wire>>

(* Mutant: the Put is not deferred but comes before the handler. *)
StartJobPuts(w) ==
    /\ at[w] = "idle" /\ jobs # <<>>
    /\ LET r == Head(jobs)
           type == req[r].type
       IN  /\ type \in AuthMiddle => auth
           /\ hand' = [hand EXCEPT ![w] = r]
           /\ at' = [at EXCEPT ![w] = Handler(type)]
           /\ handled' = handled
           /\ pool' = pool \cup {r}
    /\ jobs' = Tail(jobs)
    /\ UNCHANGED <<bufVars, auth, req, writeChan, panic, wire>>

(* Otherwise the handler reads the request. *)
StartJob(w) ==
    /\ at[w] = "idle" /\ jobs # <<>>
    /\ LET r == Head(jobs)
           type == req[r].type
       IN  /\ type \in AuthMiddle => auth
           /\ hand' = [hand EXCEPT ![w] = r]
           /\ at' = [at EXCEPT ![w] = Handler(type)]
           /\ handled' = IF type \in Routes
                         THEN Append(handled, [type |-> type, body |-> Body(r)])
                         ELSE handled
    /\ jobs' = Tail(jobs)
    /\ UNCHANGED <<bufVars, auth, req, pool, writeChan, panic, wire>>

(* AuthHandle's SetAuth, at its end. *)
Authenticate(w) ==
    /\ at[w] = "auth"
    /\ auth' = TRUE
    /\ at' = [at EXCEPT ![w] = "put"]
    /\ UNCHANGED <<bufVars, hand, handled, req, pool, jobs, writeChan, panic,
                   wire>>

(* Mutant: Write without the default case. *)
ForwardWaits(w) ==
    /\ at[w] = "forward" /\ Len(writeChan) < WriteCap
    /\ writeChan' = Append(writeChan, hand[w])
    /\ at' = [at EXCEPT ![w] = "put"]
    /\ UNCHANGED <<bufVars, hand, auth, handled, req, pool, jobs, panic, wire>>

(* OneMessageHandle's receiver.Write(request), which gives up if it is full. *)
Forward(w) ==
    /\ at[w] = "forward"
    /\ writeChan' = IF Len(writeChan) < WriteCap
                    THEN Append(writeChan, hand[w]) ELSE writeChan
    /\ at' = [at EXCEPT ![w] = "put"]
    /\ UNCHANGED <<bufVars, hand, auth, handled, req, pool, jobs, panic, wire>>

(* The deferred requstPool.Put. *)
PutBack(w) ==
    /\ at[w] = "put"
    /\ pool' = pool \cup {hand[w]}
    /\ at' = [at EXCEPT ![w] = "idle"] /\ hand' = [hand EXCEPT ![w] = NoReq]
    /\ UNCHANGED <<bufVars, auth, handled, req, jobs, writeChan, panic, wire>>

(* The receiver's writeLoop; it may have stopped at any time. *)
WriteLoop ==
    /\ writeChan # <<>>
    /\ LET r == Head(writeChan)
       IN  wire' = Append(wire, GetBytes(req[r].type, req[r].len, Body(r)))
    /\ writeChan' = Tail(writeChan)
    /\ UNCHANGED <<bufVars, workVars, req, pool, jobs, panic>>

Reader == \/ \E n \in Reads : Read(n)
          \/ UnpackBreak
          \/ UnpackPanic
          \/ \E r \in 1 .. Len(req) + 1 : Unpack(r)
Worker(w) == \/ Refuse(w)
             \/ StartJob(w)
             \/ Authenticate(w)
             \/ Forward(w)
             \/ PutBack(w)

RequestsNext == ~ panic /\ (Reader \/ WriteLoop \/ \E w \in Workers : Worker(w))
RequestsSpec == RequestsInit /\ [][RequestsNext]_requestsVars

(***************************************************************************)
(* The reader and the workers are goroutines that nothing stops; of the     *)
(* receiver's writeLoop nothing is assumed, since it returns when a write   *)
(* fails.                                                                   *)
(***************************************************************************)
FairRequests ==
    /\ RequestsSpec
    /\ WF_requestsVars(~ panic /\ Reader)
    /\ \A w \in Workers : WF_requestsVars(~ panic /\ Worker(w))

-----------------------------------------------------------------------------
Objects == [type : Uint16s, len : Nat, array : Nat, from : Nat, to : Nat]
RequestsTypeOK ==
    /\ unread \in Seq(Byte)
    /\ mem \in Seq(Seq(Byte)) /\ mem # <<>>
    /\ buf \in [off : Nat, end : Nat] /\ buf.off <= buf.end /\ buf.end <= Cap
    /\ unpacking \in BOOLEAN /\ auth \in BOOLEAN /\ panic \in BOOLEAN
    /\ misread \in BOOLEAN /\ reused \in BOOLEAN
    /\ req \in Seq(Objects)
    /\ \A r \in DOMAIN req :
          req[r].array \in DOMAIN mem /\ req[r].to <= Len(mem[req[r].array])
    /\ pool \subseteq DOMAIN req
    /\ jobs \in Seq(DOMAIN req) /\ Len(jobs) <= WorkCap
    /\ writeChan \in Seq(DOMAIN req) /\ Len(writeChan) <= WriteCap
    /\ at \in [Workers -> {"idle", "auth", "forward", "put"}]
    /\ hand \in [Workers -> DOMAIN req \cup {NoReq}]
    /\ \A w \in Workers : at[w] # "idle" => hand[w] # NoReq
    /\ opened \in Seq(Frames) /\ handled \in Seq(Frames)

(***************************************************************************)
(* Until a job is done its Request belongs to it alone: the pool does not   *)
(* hold it, no second job has it, and no other worker (connect.go:70, 169). *)
(***************************************************************************)
OwnedOnce ==
    /\ IsInjective(jobs)
    /\ Range(jobs) \cap pool = {}
    /\ Range(jobs) \cap Hands = {}
    /\ Hands \cap pool = {}
    /\ \A v, w \in Workers :
          v # w /\ at[v] # "idle" /\ at[w] # "idle" => hand[v] # hand[w]

(* The types, and whose each Request is while its job is under way.         *)
RequestsInv == RequestsTypeOK /\ OwnedOnce

(***************************************************************************)
(* As long as unpack has not taken a frame whose last bytes are missing, it *)
(* finds the frames the client sent, in order, however the network cuts     *)
(* them, and the rest of what was sent is in the buffer and on its way      *)
(* (connect.go:56-82).                                                      *)
(***************************************************************************)
Rest == SubSeq(Sent, Len(SentTo[Len(opened)]) + 1, Len(Sent))
InStep ==
    ~ misread =>
        /\ IsPrefix(opened, Stream)
        /\ Slice(Len(mem), buf.off, buf.end) \o unread = Rest

(***************************************************************************)
(* ... and as long as the buffer has not gone back to the start of its      *)
(* array either, a handler reads in its request one of these frames, and no *)
(* two handlers the same: those that wait are the last ones opened, and     *)
(* what comes in is written behind them (connect.go:78, chathandle.go:20).  *)
(***************************************************************************)
Old == Len(opened) - Len(jobs)
HandledAsSent == IsInjective(handled) /\ Range(handled) \subseteq Range(Stream)
HandledOnce == Range(handled) \subseteq {opened[i] : i \in 1 .. Old}
JobsAsOpened ==
    /\ Old >= 0
    /\ \A i \in DOMAIN jobs :
          LET r == jobs[i]
          IN  /\ [type |-> req[r].type, body |-> Body(r)] = opened[Old + i]
              /\ req[r].array = Len(mem) => req[r].to <= buf.off
HandledInStep ==
    ~ misread /\ ~ reused => HandledAsSent /\ HandledOnce /\ JobsAsOpened

(***************************************************************************)
(* A receiver that takes nothing from its writeChan does not hold up the    *)
(* workers, which all connections share: the jobs are done again and again, *)
(* and every worker is free (connect.go:97, workpool.go:51).                *)
(***************************************************************************)
JobsDrain == []<>((jobs = <<>> /\ \A w \in Workers : at[w] = "idle") \/ panic)
=============================================================================

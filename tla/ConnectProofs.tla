--------------------------- MODULE ConnectProofs ---------------------------
(***************************************************************************)
(* Proofs about Connect, for every number of workers and pushers, every     *)
(* capacity and every timeout.  The invariant is ConnectInv; each of its    *)
(* parts has a lemma that goes through the actions one by one.              *)
(***************************************************************************)
EXTENDS Connect, SequenceTheorems, TLAPS

(* No writer is the reader or the loop, and the two differ.                 *)
LEMMA ProcsDiffer ==
    /\ Reader # Loop
    /\ Reader \in Procs /\ Loop \in Procs
    /\ Reader \notin Writers /\ Loop \notin Writers
    /\ Writers \subseteq Procs
BY ConnectAssumption DEF Reader, Loop, Procs, Writers

(* Queues of real frames stay so.                                           *)
LEMMA RealSingle == \A f \in Frames : Real(f) =>
    <<f>> \in Seq(Frames) /\ AllReal(<<f>>)
BY DEF AllReal

LEMMA RealAppend ==
    ASSUME NEW s \in Seq(Frames), AllReal(s), NEW f \in Frames, Real(f)
    PROVE  Append(s, f) \in Seq(Frames) /\ AllReal(Append(s, f))
BY AppendProperties DEF AllReal

LEMMA RealTail ==
    ASSUME NEW s \in Seq(Frames), AllReal(s), s # <<>>
    PROVE  /\ Head(s) \in Frames /\ Real(Head(s))
           /\ Tail(s) \in Seq(Frames) /\ AllReal(Tail(s))
           /\ Len(Tail(s)) = Len(s) - 1
<1>1. Len(s) \in Nat /\ Len(s) > 0 /\ Head(s) = s[1]
    BY EmptySeq, LenProperties
<1>2. /\ Tail(s) \in Seq(Frames) /\ Len(Tail(s)) = Len(s) - 1
      /\ \A i \in 1 .. Len(Tail(s)) : Tail(s)[i] = s[i + 1]
    BY HeadTailProperties
<1>3. \A i \in 1 .. Len(s) - 1 : i + 1 \in 1 .. Len(s)
    BY <1>1
<1> QED
    BY <1>1, <1>2, <1>3, ElementOfSeq DEF AllReal

LEMMA InitInv == Init => ConnectInv
<1> SUFFICES ASSUME Init PROVE ConnectInv
    OBVIOUS
<1> USE DEF Init
<1>1. TypeOK
  <2>1. pc \in [Procs -> Steps] /\ hand \in [Procs -> Frames]
    BY DEF Steps, Frames, Frame, NoFrame, NoReq
  <2>2. lag \in (-HeartBonus) .. LagLimit /\ phase \in 0 .. Timeout - 1
    BY ConnectAssumption DEF LagLimit
  <2>3. calls \in 0 .. MaxCalls /\ Len(<<>>) <= WriteCap /\ Len(<<>>) <= WorkCap
    BY ConnectAssumption
  <2> QED
    BY <2>1, <2>2, <2>3, EmptySeq DEF TypeOK
<1>2. HandsFull
    BY ProcsDiffer DEF HandsFull, AllReal
<1>3. OneCloser
    BY ProcsDiffer DEF OneCloser, CloseSteps
<1>4. NothingSkipped
    BY ProcsDiffer DEF NothingSkipped, InHand, NoFrame, Frame
<1>5. LateIsLate
    BY DEF LateIsLate
<1> QED
    BY <1>1, <1>2, <1>3, <1>4, <1>5 DEF ConnectInv

(* What the steps need to know of frames.                                   *)
LEMMA FrameFacts ==
    /\ NoFrame \in Frames /\ NoFrame.req = NoReq
    /\ \A r \in Requests : /\ r # NoReq
                           /\ Frame("push", r) \in Frames
                           /\ Frame("push", r).req = r
    /\ Frame("ping", NoReq) \in Frames /\ Real(Frame("ping", NoReq))
    /\ \A k \in Kinds, r \in Requests :
          Frame(k, r) \in Frames /\ Real(Frame(k, r))
    /\ \A f \in Frames : /\ f.req # NoReq => f.req \in Requests
                         /\ Real(f) /\ f.kind # "ping" => f.req # NoReq
BY DEF NoFrame, Frames, Frame, NoReq, Requests, Kinds, Real

(* The types and the frames in hand, action by action.                      *)
LEMMA TypeStep ==
    ASSUME TypeOK, HandsFull, [Next]_vars
    PROVE  TypeOK' /\ HandsFull'
<1> USE ConnectAssumption, ProcsDiffer, FrameFacts
    DEF TypeOK, HandsFull, Goto, Drop, At, chanVars, timeVars, inVars, Steps,
        CloseSteps
<1>1. ASSUME NEW k \in Kinds, PeerSend(k) PROVE TypeOK' /\ HandsFull'
  <2>1. \E f \in Frames : Real(f) /\ inbox' = <<f>>
    BY <1>1 DEF PeerSend, Requests
  <2>2. calls' \in 0 .. MaxCalls
    BY <1>1 DEF PeerSend
  <2> QED
    BY <1>1, <2>1, <2>2, RealSingle DEF PeerSend
<1>2. CASE PeerFails
    BY <1>2 DEF PeerFails
<1>3. CASE Clock
    BY <1>3 DEF Clock, LagLimit
<1>4. ASSUME NEW p \in Procs, Closing(p) PROVE TypeOK' /\ HandsFull'
  <2>1. CASE Close(p)
    <3>1. AfterClose(p) \in {"callback", "gone", "idle"}
      BY DEF AfterClose
    <3>2. AfterClose(Reader) = "callback" /\ AfterClose(Loop) = "gone"
      BY DEF AfterClose
    <3>3. \E s \in {"conn", AfterClose(p)} : Goto(p, s)
      BY <2>1 DEF Close
    <3>4. isClose' \in {0, 1}
      BY <2>1 DEF Close
    <3>5. TypeOK'
      BY <2>1, <3>1, <3>3, <3>4 DEF Close
    <3>6. HandsFull'
      BY <2>1, <3>1, <3>2, <3>3 DEF Close
    <3> QED
      BY <3>5, <3>6
  <2>2. CASE CloseConn(p)
    BY <2>2 DEF CloseConn
  <2>3. CASE CloseExitChan(p)
    BY <2>3 DEF CloseExitChan
  <2>4. CASE CloseWriteChan(p)
    BY <2>4 DEF CloseWriteChan, AfterClose, Procs
  <2> QED
    BY <1>4, <2>1, <2>2, <2>3, <2>4 DEF Closing
<1>5. ASSUME NEW p \in Writers, Writing(p) PROVE TypeOK' /\ HandsFull'
  <2>1. CASE Write(p)
    <3>1. CASE isClose = 1
      <4>1. TypeOK'
        BY <2>1, <3>1, ZenonT(30) DEF Write, Return
      <4>2. HandsFull'
        BY <2>1, <3>1 DEF Write, Return
      <4> QED
        BY <4>1, <4>2
    <3>2. CASE isClose # 1
      BY <2>1, <3>2 DEF Write
    <3> QED
      BY <3>1, <3>2
  <2>2. CASE WriteSend(p)
    <3>1. hand[p].req \in Requests
      BY <2>2 DEF WriteSend
    <3>2. /\ writeChan' \in Seq(Requests) /\ Len(writeChan') <= WriteCap
          /\ accepted' \in Seq(Requests)
      BY <2>2, <3>1 DEF WriteSend
    <3> QED
      BY <2>2, <3>2 DEF WriteSend, Return
  <2>3. CASE WriteFail(p)
    BY <2>3 DEF WriteFail, Return
  <2>4. CASE WritePanic(p)
    BY <2>4 DEF WritePanic
  <2> QED
    BY <1>5, <2>1, <2>2, <2>3, <2>4 DEF Writing
<1>6. CASE Looping
  <2>1. CASE LoopExit
    BY <2>1 DEF LoopExit
  <2>2. CASE LoopTake
    <3>1. /\ Head(writeChan) \in Requests
          /\ writeChan' \in Seq(Requests) /\ Len(writeChan') <= WriteCap
      BY <2>2 DEF LoopTake
    <3> QED
      BY <2>2, <3>1 DEF LoopTake
  <2>3. CASE LoopWrite
    <3>1. hand[Loop].req \in Requests
      BY <2>3 DEF LoopWrite
    <3> QED
      BY <2>3, <3>1 DEF LoopWrite
  <2>4. CASE LoopWriteError
    BY <2>4 DEF LoopWriteError
  <2>5. CASE LoopTick
    BY <2>5 DEF LoopTick
  <2> QED
    BY <1>6, <2>1, <2>2, <2>3, <2>4, <2>5 DEF Looping
<1>7. CASE Reading
  <2>1. CASE ReadFrame
    <3>1. /\ Head(inbox) \in Frames /\ Real(Head(inbox))
          /\ inbox' \in Seq(Frames) /\ AllReal(inbox')
      BY <2>1, RealTail DEF ReadFrame
    <3> QED
      BY <2>1, <3>1 DEF ReadFrame
  <2>2. CASE AddWrok
    <3>1. hand[Reader] \in Frames /\ Real(hand[Reader])
      BY <2>2 DEF AddWrok
    <3>2. jobs' \in Seq(Frames) /\ AllReal(jobs')
      BY <2>2, <3>1, RealAppend DEF AddWrok
    <3>3. Len(jobs') <= WorkCap
      BY <2>2, <3>1 DEF AddWrok
    <3> QED
      BY <2>2, <3>2, <3>3 DEF AddWrok
  <2>3. CASE ReadError
    BY <2>3 DEF ReadError
  <2>4. CASE CloseCallback
    BY <2>4 DEF CloseCallback
  <2> QED
    BY <1>7, <2>1, <2>2, <2>3, <2>4 DEF Reading
<1>8. ASSUME NEW w \in Workers, StartJob(w) PROVE TypeOK' /\ HandsFull'
  <2>1. /\ Head(jobs) \in Frames /\ Real(Head(jobs))
        /\ jobs' \in Seq(Frames) /\ AllReal(jobs')
        /\ Len(jobs') <= WorkCap
    BY <1>8, RealTail DEF StartJob
  <2>2. lag' \in (-HeartBonus) .. LagLimit /\ tick' \in {"none", "early", "late"}
    BY <1>8 DEF StartJob, LagLimit
  <2>3. w \in Writers
    BY DEF Writers
  <2>4. auth' \in BOOLEAN
    BY <1>8 DEF StartJob
  <2>5. CASE Head(jobs).kind # "ping"
    <3>1. /\ pc' = [pc EXCEPT ![w] = "check"]
          /\ hand' = [hand EXCEPT ![w] = Head(jobs)]
      BY <1>8, <2>5 DEF StartJob
    <3>2. Head(jobs).req # NoReq
      BY <2>1, <2>5 DEF Real
    <3>3. TypeOK'
      BY <1>8, <2>1, <2>2, <2>3, <2>4, <3>1 DEF StartJob
    <3>4. HandsFull'
      BY <1>8, <2>1, <2>3, <3>1, <3>2 DEF StartJob
    <3> QED
      BY <3>3, <3>4
  <2>6. CASE Head(jobs).kind = "ping"
    BY <1>8, <2>1, <2>2, <2>3, <2>4, <2>6 DEF StartJob
  <2> QED
    BY <2>5, <2>6
<1>9. ASSUME NEW p \in Pushers, StartPush(p) PROVE TypeOK' /\ HandsFull'
  <2>1. p \in Writers /\ calls + 1 \in Requests
    BY <1>9 DEF StartPush, Writers, Requests
  <2> QED
    BY <1>9, <2>1 DEF StartPush, Requests
<1>10. CASE UNCHANGED vars
    BY <1>10 DEF vars, InHand
<1> QED
    BY <1>1, <1>2, <1>3, <1>4, <1>5, <1>6, <1>7, <1>8, <1>9, <1>10 DEF Next

(* Who is inside Close, action by action: only Closing moves a goroutine   *)
(* into or out of its body.                                                 *)
LEMMA CloserStep ==
    ASSUME TypeOK, HandsFull, OneCloser, [Next]_vars
    PROVE  OneCloser'
<1> USE ProcsDiffer DEF OneCloser, CloseSteps, Goto, At
<1>0. pc \in [Procs -> Steps] /\ isClose \in {0, 1}
    BY DEF TypeOK
<1> DEFINE Kept == /\ UNCHANGED chanVars
                   /\ \A q \in Procs : pc'[q] \in CloseSteps => pc'[q] = pc[q]
<1>1. Kept => OneCloser'
    BY <1>0 DEF chanVars
<1>2. ASSUME NEW k \in Kinds, PeerSend(k) PROVE OneCloser'
    BY <1>1, <1>2 DEF PeerSend
<1>3. CASE PeerFails
    BY <1>1, <1>3 DEF PeerFails
<1>4. CASE Clock
    BY <1>1, <1>4 DEF Clock
<1>5. ASSUME NEW p \in Procs, Closing(p) PROVE OneCloser'
  <2>1. AfterClose(p) \notin CloseSteps
    BY DEF AfterClose
  <2>2. CASE Close(p)
    <3>1. CASE isClose = 0
      BY <1>0, <2>2, <3>1 DEF Close
    <3>2. CASE isClose # 0
      BY <1>0, <2>1, <2>2, <3>2 DEF Close
    <3> QED
      BY <3>1, <3>2
  <2>3. CASE CloseConn(p)
    BY <1>0, <2>3 DEF CloseConn
  <2>4. CASE CloseExitChan(p)
    BY <1>0, <2>4 DEF CloseExitChan
  <2>5. CASE CloseWriteChan(p)
    BY <1>0, <2>1, <2>5 DEF CloseWriteChan
  <2> QED
    BY <1>5, <2>2, <2>3, <2>4, <2>5 DEF Closing
<1>6. ASSUME NEW p \in Writers, Writing(p) PROVE OneCloser'
  <2>1. CASE Write(p)
    BY <1>0, <1>1, <2>1 DEF Write, Return
  <2>2. CASE WriteSend(p)
    BY <1>0, <1>1, <2>2 DEF WriteSend, Return
  <2>3. CASE WriteFail(p)
    BY <1>0, <1>1, <2>3 DEF WriteFail, Return
  <2>4. CASE WritePanic(p)
    BY <1>1, <2>4 DEF WritePanic
  <2> QED
    BY <1>6, <2>1, <2>2, <2>3, <2>4 DEF Writing
<1>7. CASE Looping
    BY <1>0, <1>1, <1>7
    DEF Looping, LoopExit, LoopTake, LoopWrite, LoopWriteError, LoopTick
<1>8. CASE Reading
    BY <1>0, <1>1, <1>8 DEF Reading, ReadFrame, AddWrok, ReadError,
       CloseCallback
<1>9. ASSUME NEW w \in Workers, StartJob(w) PROVE OneCloser'
    BY <1>0, <1>1, <1>9 DEF StartJob, Writers
<1>10. ASSUME NEW p \in Pushers, StartPush(p) PROVE OneCloser'
    BY <1>0, <1>1, <1>10 DEF StartPush, Writers
<1>11. CASE UNCHANGED vars
    BY <1>1, <1>11 DEF vars, chanVars
<1> QED
    BY <1>2, <1>3, <1>4, <1>5, <1>6, <1>7, <1>8, <1>9, <1>10, <1>11 DEF Next

LEMMA AppendConcat ==
    ASSUME NEW s \in Seq(Requests), NEW t \in Seq(Requests), NEW r \in Requests
    PROVE  Append(s \o t, r) = s \o Append(t, r)
<1>1. s \o t \in Seq(Requests) /\ <<r>> \in Seq(Requests)
    BY ConcatProperties
<1>2. Append(s \o t, r) = (s \o t) \o <<r>> /\ Append(t, r) = t \o <<r>>
    BY <1>1, AppendIsConcat
<1> QED
    BY <1>1, <1>2, ConcatAssociative

(* Nothing skipped, action by action: WriteSend puts a request at the end, *)
(* LoopTake and LoopWrite move one along.                                   *)
LEMMA PipeStep ==
    ASSUME TypeOK, HandsFull, NothingSkipped, [Next]_vars
    PROVE  NothingSkipped'
<1> USE ProcsDiffer, FrameFacts DEF NothingSkipped, InHand, Goto, Drop, At
<1>0. /\ hand \in [Procs -> Frames]
      /\ wire \in Seq(Requests) /\ writeChan \in Seq(Requests)
      /\ accepted \in Seq(Requests)
    BY DEF TypeOK
<1> DEFINE Kept == UNCHANGED <<accepted, wire, writeChan>> /\ hand'[Loop] = hand[Loop]
<1>1. Kept => NothingSkipped'
    OBVIOUS
<1>2. ASSUME NEW k \in Kinds, PeerSend(k) PROVE NothingSkipped'
    BY <1>1, <1>2 DEF PeerSend
<1>3. CASE PeerFails \/ Clock
    BY <1>1, <1>3 DEF PeerFails, Clock
<1>4. ASSUME NEW p \in Procs, Closing(p) PROVE NothingSkipped'
    BY <1>1, <1>4 DEF Closing, Close, CloseConn, CloseExitChan, CloseWriteChan
<1>5. ASSUME NEW p \in Writers, Writing(p) PROVE NothingSkipped'
  <2>1. CASE Write(p) \/ WriteFail(p) \/ WritePanic(p)
    BY <1>0, <1>1, <2>1 DEF Write, WriteFail, WritePanic, Return
  <2>2. CASE WriteSend(p)
    <3> DEFINE r == hand[p].req
    <3>1. /\ r \in Requests /\ InHand' = InHand /\ wire' = wire
          /\ writeChan' = Append(writeChan, r)
          /\ accepted' = Append(accepted, r)
      BY <1>0, <2>2 DEF WriteSend, Return, HandsFull
    <3>2. InHand \in Seq(Requests)
      BY <1>0
    <3>3. Append(wire \o InHand \o writeChan, r)
            = wire \o InHand \o Append(writeChan, r)
      <4> HIDE DEF InHand, r
      <4>1. wire \o InHand \in Seq(Requests)
        BY <1>0, <3>2, ConcatProperties
      <4> QED
        BY <1>0, <3>1, <4>1, AppendConcat
    <3> QED
      BY <3>1, <3>3
  <2> QED
    BY <1>5, <2>1, <2>2 DEF Writing
<1>6. CASE Looping
  <2>1. CASE LoopExit \/ LoopWriteError \/ LoopTick
    BY <1>1, <2>1 DEF LoopExit, LoopWriteError, LoopTick
  <2>2. CASE LoopTake
    <3>1. /\ InHand = <<>> /\ InHand' = <<Head(writeChan)>>
          /\ writeChan' = Tail(writeChan) /\ writeChan # <<>>
          /\ wire' = wire /\ accepted' = accepted
          /\ Head(writeChan) \in Requests
      BY <1>0, <2>2 DEF LoopTake, HandsFull
    <3>2. writeChan = <<Head(writeChan)>> \o Tail(writeChan)
      BY <1>0, <3>1
    <3>3. wire \o <<Head(writeChan)>> \o Tail(writeChan)
            = wire \o (<<Head(writeChan)>> \o Tail(writeChan))
      BY <1>0, <3>1, ConcatAssociative, HeadTailProperties
    <3> QED
      BY <1>0, <3>1, <3>2, <3>3, ConcatEmptySeq
  <2>3. CASE LoopWrite
    <3> DEFINE r == hand[Loop].req
    <3>1. /\ r \in Requests /\ InHand = <<r>> /\ InHand' = <<>>
          /\ wire' = Append(wire, r)
          /\ writeChan' = writeChan /\ accepted' = accepted
      BY <1>0, <2>3 DEF LoopWrite, HandsFull
    <3>2. wire' = wire \o <<r>> /\ wire' \in Seq(Requests)
      BY <1>0, <3>1, AppendIsConcat
    <3> QED
      BY <1>0, <3>1, <3>2, ConcatEmptySeq
  <2> QED
    BY <1>6, <2>1, <2>2, <2>3 DEF Looping
<1>7. CASE Reading
    BY <1>0, <1>1, <1>7 DEF Reading, ReadFrame, AddWrok, ReadError,
       CloseCallback
<1>8. ASSUME NEW w \in Workers, StartJob(w) PROVE NothingSkipped'
    BY <1>0, <1>1, <1>8 DEF StartJob, Writers
<1>9. ASSUME NEW p \in Pushers, StartPush(p) PROVE NothingSkipped'
    BY <1>0, <1>1, <1>9 DEF StartPush, Writers
<1>10. CASE UNCHANGED vars
    BY <1>10 DEF vars
<1> QED
    BY <1>2, <1>3, <1>4, <1>5, <1>6, <1>7, <1>8, <1>9, <1>10 DEF Next

(* A late verdict, action by action: Clock gives it, StartJob takes it     *)
(* back together with the lag.                                              *)
LEMMA LateStep ==
    ASSUME TypeOK, LateIsLate, [Next]_vars
    PROVE  LateIsLate'
<1> USE ConnectAssumption DEF LateIsLate, timeVars
<1>0. /\ lag \in (-HeartBonus) .. LagLimit
      /\ Timeout \in Nat /\ HeartBonus \in Nat
    BY DEF TypeOK
<1>1. UNCHANGED timeVars => LateIsLate'
    OBVIOUS
<1>2. ASSUME NEW k \in Kinds, PeerSend(k) PROVE LateIsLate'
    BY <1>1, <1>2 DEF PeerSend
<1>3. CASE PeerFails
    BY <1>1, <1>3 DEF PeerFails
<1>4. CASE Clock
    BY <1>0, <1>4 DEF Clock, LagLimit
<1>5. ASSUME NEW p \in Procs, Closing(p) PROVE LateIsLate'
    BY <1>1, <1>5 DEF Closing, Close, CloseConn, CloseExitChan, CloseWriteChan
<1>6. ASSUME NEW p \in Writers, Writing(p) PROVE LateIsLate'
    BY <1>1, <1>6 DEF Writing, Write, WriteSend, WriteFail, WritePanic
<1>7. CASE Looping
    BY <1>1, <1>7 DEF Looping, LoopExit, LoopTake, LoopWrite, LoopWriteError,
                      LoopTick
<1>8. CASE Reading
    BY <1>1, <1>8 DEF Reading, ReadFrame, AddWrok, ReadError, CloseCallback
<1>9. ASSUME NEW w \in Workers, StartJob(w) PROVE LateIsLate'
    BY <1>9 DEF StartJob
<1>10. ASSUME NEW p \in Pushers, StartPush(p) PROVE LateIsLate'
    BY <1>1, <1>10 DEF StartPush
<1>11. CASE UNCHANGED vars
    BY <1>1, <1>11 DEF vars
<1> QED
    BY <1>2, <1>3, <1>4, <1>5, <1>6, <1>7, <1>8, <1>9, <1>10, <1>11 DEF Next

LEMMA InvStep == ConnectInv /\ [Next]_vars => ConnectInv'
BY TypeStep, CloserStep, PipeStep, LateStep DEF ConnectInv

(* Whatever the goroutines do, the connection's state stays well formed,    *)
(* one goroutine at most is inside Close, and no accepted request is lost   *)
(* inside the process.                                                      *)
THEOREM Invariant == Spec => []ConnectInv
<1>1. Init => ConnectInv
    BY InitInv
<1>2. ConnectInv /\ [Next]_vars => ConnectInv'
    BY InvStep
<1> QED
    BY <1>1, <1>2, PTL DEF Spec

THEOREM TypeCorrect == Spec => []TypeOK
<1>1. ConnectInv => TypeOK
    BY DEF ConnectInv
<1> QED
    BY <1>1, Invariant, PTL

(* No interleaving of the callers of Close closes a channel twice.          *)
THEOREM NoDoubleClose == Spec => []ClosedOnce
<1>1. Init => ClosedOnce
    BY DEF Init, ClosedOnce
<1>2. ASSUME ConnectInv, ClosedOnce, [Next]_vars PROVE ClosedOnce'
  <2> USE DEF ClosedOnce
  <2>1. UNCHANGED panic => ClosedOnce'
    BY <1>2
  <2>2. ASSUME NEW k \in Kinds, PeerSend(k) PROVE ClosedOnce'
    BY <1>2, <2>2 DEF PeerSend
  <2>3. CASE PeerFails \/ Clock
    BY <1>2, <2>3 DEF PeerFails, Clock
  <2>4. ASSUME NEW p \in Procs, Closing(p) PROVE ClosedOnce'
    <3>1. CASE Close(p) \/ CloseConn(p)
      BY <1>2, <3>1 DEF Close, CloseConn
    <3>2. CASE CloseExitChan(p)
      BY <1>2, <3>2 DEF CloseExitChan, At, ConnectInv, OneCloser
    <3>3. CASE CloseWriteChan(p)
      BY <1>2, <3>3 DEF CloseWriteChan, At, ConnectInv, OneCloser, CloseSteps
    <3> QED
      BY <2>4, <3>1, <3>2, <3>3 DEF Closing
  <2>5. ASSUME NEW p \in Writers, Writing(p) PROVE ClosedOnce'
    BY <1>2, <2>5 DEF Writing, Write, WriteSend, WriteFail, WritePanic
  <2>6. CASE Looping \/ Reading
    BY <1>2, <2>6 DEF Looping, LoopExit, LoopTake, LoopWrite, LoopWriteError,
        LoopTick, Reading, ReadFrame, AddWrok, ReadError, CloseCallback
  <2>7. ASSUME NEW w \in Workers, StartJob(w) PROVE ClosedOnce'
    BY <1>2, <2>7 DEF StartJob
  <2>8. ASSUME NEW p \in Pushers, StartPush(p) PROVE ClosedOnce'
    BY <1>2, <2>8 DEF StartPush
  <2>9. CASE UNCHANGED vars
    BY <1>2, <2>9 DEF vars
  <2> QED
    BY <1>2, <2>2, <2>3, <2>4, <2>5, <2>6, <2>7, <2>8, <2>9 DEF Next
<1> QED
    BY <1>1, <1>2, Invariant, PTL DEF Spec

(* The heartbeat never drops a client whose ping was handled within the    *)
(* last Timeout + HeartBonus units of time.                                 *)
THEOREM PingerSpared == Spec => HeartbeatSparesPinger
<1> DEFINE Spares == pc[Loop] = "select" /\ pc'[Loop] = "cas" => lag > Timeout
<1>1. ASSUME ConnectInv, Next PROVE Spares
  <2> USE <1>1, ProcsDiffer DEF Goto, At
  <2>0. pc \in [Procs -> Steps] /\ LateIsLate
    BY DEF ConnectInv, TypeOK
  <2>1. ASSUME NEW k \in Kinds, PeerSend(k) PROVE Spares
    BY <2>1 DEF PeerSend
  <2>2. CASE PeerFails \/ Clock
    BY <2>2 DEF PeerFails, Clock
  <2>3. ASSUME NEW p \in Procs, Closing(p) PROVE Spares
    BY <2>0, <2>3 DEF Closing, Close, CloseConn, CloseExitChan, CloseWriteChan
  <2>4. ASSUME NEW p \in Writers, Writing(p) PROVE Spares
    BY <2>0, <2>4 DEF Writing, Write, WriteSend, WriteFail, WritePanic, Return
  <2>5. CASE Looping
    <3>1. CASE LoopTick
      BY <2>0, <3>1 DEF LoopTick, LateIsLate
    <3>2. CASE LoopExit \/ LoopTake \/ LoopWrite \/ LoopWriteError
      BY <2>0, <3>2 DEF LoopExit, LoopTake, LoopWrite, LoopWriteError
    <3> QED
      BY <2>5, <3>1, <3>2 DEF Looping
  <2>6. CASE Reading
    BY <2>0, <2>6 DEF Reading, ReadFrame, AddWrok, ReadError, CloseCallback
  <2>7. ASSUME NEW w \in Workers, StartJob(w) PROVE Spares
    BY <2>0, <2>7 DEF StartJob, Writers
  <2>8. ASSUME NEW p \in Pushers, StartPush(p) PROVE Spares
    BY <2>0, <2>8 DEF StartPush, Writers
  <2> QED
    BY <2>1, <2>2, <2>3, <2>4, <2>5, <2>6, <2>7, <2>8 DEF Next
<1>2. ConnectInv /\ [Next]_vars => [Spares]_vars
    BY <1>1
<1> QED
    BY <1>2, Invariant, PTL DEF Spec, HeartbeatSparesPinger

(* What NothingSkipped says of the request in the loop's hand: it is the   *)
(* next one of the accepted sequence.                                       *)
LEMMA NextAccepted ==
    ASSUME NEW w \in Seq(Requests), NEW r \in Requests, NEW q \in Seq(Requests)
    PROVE  LET a == w \o <<r>> \o q
           IN  Len(w) < Len(a) /\ a[Len(w) + 1] = r
<1>1. <<r>> \in Seq(Requests) /\ Len(<<r>>) = 1 /\ <<r>>[1] = r
    OBVIOUS
<1>2. /\ w \o <<r>> \in Seq(Requests)
      /\ Len(w \o <<r>>) = Len(w) + 1
      /\ (w \o <<r>>)[Len(w) + 1] = r
    BY <1>1, ConcatProperties, LenProperties
<1> QED
    BY <1>2, ConcatProperties, LenProperties

(* The connection implements FrameStream: every step is Accept, Emit,      *)
(* Break or none of them.                                                   *)
THEOREM StreamImplemented == Spec => StreamSpec
<1> USE DEF Stream!streamVars
<1>1. Init => Stream!Init
    BY ProcsDiffer DEF Init, Stream!Init
<1>2. ASSUME ConnectInv, Next PROVE [Stream!Next]_(Stream!streamVars)
  <2> USE <1>2, ProcsDiffer DEF Goto, At
  <2>0. /\ pc \in [Procs -> Steps] /\ hand \in [Procs -> Frames]
        /\ wire \in Seq(Requests) /\ writeChan \in Seq(Requests)
        /\ NothingSkipped /\ HandsFull
    BY DEF ConnectInv, TypeOK
  <2> DEFINE Kept == /\ UNCHANGED <<accepted, wire>>
                     /\ (pc[Loop] = "gone")' = (pc[Loop] = "gone")
  <2>1. Kept => [Stream!Next]_(Stream!streamVars)
    OBVIOUS
  <2> DEFINE Broke == UNCHANGED <<accepted, wire>> /\ pc'[Loop] = "gone"
  <2>2. Broke => [Stream!Next]_(Stream!streamVars)
    BY DEF Stream!Next, Stream!Break
  <2>3. ASSUME NEW k \in Kinds, PeerSend(k) PROVE Kept
    BY <2>3 DEF PeerSend
  <2>4. CASE PeerFails \/ Clock
    BY <2>1, <2>4 DEF PeerFails, Clock
  <2>5. ASSUME NEW p \in Procs, Closing(p) PROVE Kept \/ Broke
    <3>1. CASE Close(p)
      BY <2>0, <3>1 DEF Close, AfterClose
    <3>2. CASE CloseConn(p) \/ CloseExitChan(p)
      BY <2>0, <3>2 DEF CloseConn, CloseExitChan
    <3>3. CASE CloseWriteChan(p)
      BY <2>0, <3>3 DEF CloseWriteChan, AfterClose
    <3> QED
      BY <2>5, <3>1, <3>2, <3>3 DEF Closing
  <2>6. ASSUME NEW p \in Writers, Writing(p)
        PROVE  [Stream!Next]_(Stream!streamVars)
    <3>1. CASE Write(p) \/ WriteFail(p) \/ WritePanic(p)
      <4>1. Kept
        BY <2>0, <3>1 DEF Write, WriteFail, WritePanic, Return
      <4> QED
        BY <2>1, <4>1
    <3>2. CASE WriteSend(p)
      <4>1. hand[p].req \in Requests
        BY <2>0, <3>2, FrameFacts DEF WriteSend, HandsFull
      <4>2. Stream!Accept(hand[p].req)
        BY <2>0, <3>2 DEF WriteSend, Return, Stream!Accept
      <4> QED
        BY <4>1, <4>2 DEF Stream!Next
    <3> QED
      BY <2>6, <3>1, <3>2 DEF Writing
  <2>7. CASE Looping
    <3>1. CASE LoopExit \/ LoopWriteError
      <4>1. Broke
        BY <2>0, <3>1 DEF LoopExit, LoopWriteError
      <4> QED
        BY <2>2, <4>1
    <3>2. CASE LoopTake \/ LoopTick
      <4>1. Kept
        BY <2>0, <3>2 DEF LoopTake, LoopTick
      <4> QED
        BY <2>1, <4>1
    <3>3. CASE LoopWrite
      <4> DEFINE r == hand[Loop].req
      <4>1. r \in Requests /\ accepted = wire \o <<r>> \o writeChan
        BY <2>0, <3>3, FrameFacts
        DEF LoopWrite, HandsFull, NothingSkipped, InHand
      <4>2. Len(wire) < Len(accepted) /\ accepted[Len(wire) + 1] = r
        BY <2>0, <4>1, NextAccepted
      <4>3. Stream!Emit
        BY <2>0, <3>3, <4>2 DEF LoopWrite, Stream!Emit
      <4> QED
        BY <4>3 DEF Stream!Next
    <3> QED
      BY <2>7, <3>1, <3>2, <3>3 DEF Looping
  <2>8. CASE Reading
    <3>1. Kept
      BY <2>0, <2>8 DEF Reading, ReadFrame, AddWrok, ReadError, CloseCallback
    <3> QED
      BY <2>1, <3>1
  <2>9. ASSUME NEW w \in Workers, StartJob(w) PROVE Kept
    BY <2>0, <2>9 DEF StartJob, Writers
  <2>10. ASSUME NEW p \in Pushers, StartPush(p) PROVE Kept
    BY <2>0, <2>10 DEF StartPush, Writers
  <2> QED
    BY <2>1, <2>2, <2>3, <2>4, <2>5, <2>6, <2>7, <2>8, <2>9, <2>10 DEF Next
<1>3. UNCHANGED vars => UNCHANGED Stream!streamVars
    BY DEF vars
<1> QED
    BY <1>1, <1>2, <1>3, Invariant, PTL DEF Spec, StreamSpec, Stream!Spec
=============================================================================

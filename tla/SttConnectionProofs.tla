------------------------ MODULE SttConnectionProofs ------------------------
(***************************************************************************)
(* Proofs about SttConnection against any agent, for any size of the queue *)
(* and any number of turns: types, and sessions that hear fresh audio.     *)
(***************************************************************************)
EXTENDS MCSttConnection, TLAPS

\* Whatever is queued came after the last "start", also while no session
\* reads the queue.
QueueIsFresh == \A i \in DOMAIN audioQ : audioQ[i] = turn

ConnInv == ServiceTypeOK /\ QueueIsFresh

USE QueueMaxAssumption, ServiceBoundsAssumption
USE DEF recvVars, sessionVars, wireVars

\* The queue keeps its type and its frames when the first one leaves.
LEMMA TailFresh ==
    ASSUME ServiceTypeOK, QueueIsFresh, audioQ # <<>>
    PROVE  /\ Tail(audioQ) \in Seq(0 .. MaxTurns)
           /\ Len(Tail(audioQ)) < QueueMax
           /\ \A i \in DOMAIN Tail(audioQ) : Tail(audioQ)[i] = turn
<1>1. audioQ \in Seq(0 .. MaxTurns) /\ Len(audioQ) <= QueueMax
    BY DEF ServiceTypeOK
<1>2. \A i \in DOMAIN Tail(audioQ) : /\ i + 1 \in DOMAIN audioQ
                                     /\ Tail(audioQ)[i] = audioQ[i + 1]
    BY <1>1
<1> QED
    BY <1>1, <1>2 DEF QueueIsFresh

\* A frame that comes in is fresh, whether it has to make room or not.
LEMMA FrameStep ==
    ASSUME ConnInv, ReceiveFrame
    PROVE  ConnInv'
<1> DEFINE room == IF Len(audioQ) = QueueMax THEN Tail(audioQ) ELSE audioQ
<1>1. /\ audioQ' = Append(room, turn) /\ UNCHANGED <<recv, turn>>
      /\ UNCHANGED <<main, gate, turn, sessionVars, wireVars>>
    BY DEF ReceiveFrame, Enqueue
<1>2. /\ room \in Seq(0 .. MaxTurns) /\ Len(room) < QueueMax
      /\ \A i \in DOMAIN room : room[i] = turn
  <2>1. CASE Len(audioQ) = QueueMax
    <3>1. audioQ # <<>>
        BY <2>1 DEF ConnInv, ServiceTypeOK
    <3> QED
        BY <2>1, <3>1, TailFresh DEF ConnInv
  <2>2. CASE Len(audioQ) # QueueMax
      BY <2>2 DEF ConnInv, ServiceTypeOK, QueueIsFresh
  <2> QED
      BY <2>1, <2>2
<1>3. turn \in 0 .. MaxTurns
    BY DEF ConnInv, ServiceTypeOK
<1> HIDE DEF room
<1>4. /\ audioQ' \in Seq(0 .. MaxTurns) /\ Len(audioQ') <= QueueMax
      /\ \A i \in DOMAIN audioQ' : audioQ'[i] = turn
    BY <1>1, <1>2, <1>3
<1> QED
    BY <1>1, <1>4 DEF ConnInv, ServiceTypeOK, QueueIsFresh

\* A "start" or run()'s waking empties the queue.
LEMMA DrainStep ==
    ASSUME ConnInv, ReceiveStart \/ Wake
    PROVE  ConnInv'
<1>1. audioQ' = <<>> /\ turn' \in 0 .. MaxTurns
    BY DEF ReceiveStart, DrainAudio, Wake, ConnInv, ServiceTypeOK
<1>2. /\ audioQ' \in Seq(0 .. MaxTurns) /\ Len(audioQ') <= QueueMax
      /\ DOMAIN audioQ' = {}
  <2>1. <<>> \in Seq(0 .. MaxTurns) /\ Len(<<>>) <= QueueMax /\ DOMAIN <<>> = {}
      OBVIOUS
  <2> QED
      BY <1>1, <2>1, Zenon
<1>3. /\ main' \in {"wait", "woken", "token", "session", "eou", "closing",
                    "rate", "leaving", "done"}
      /\ recv' \in {"reading", "over"} /\ gate' \in BOOLEAN
      /\ UNCHANGED sessionVars
    BY DEF ReceiveStart, Receive, Wake, ConnInv, ServiceTypeOK
<1> QED
    BY <1>1, <1>2, <1>3 DEF ConnInv, ServiceTypeOK, QueueIsFresh

\* request_iter takes the first frame.
LEMMA IterSendsStep ==
    ASSUME ConnInv, IterSends
    PROVE  ConnInv'
<1>1. /\ audioQ # <<>> /\ audioQ' = Tail(audioQ) /\ iter' = "check"
      /\ UNCHANGED <<main, recv, gate, turn, responded, hadText, utterance, told>>
    BY DEF IterSends
<1>2. /\ audioQ' \in Seq(0 .. MaxTurns) /\ Len(audioQ') <= QueueMax
      /\ \A i \in DOMAIN audioQ' : audioQ'[i] = turn
  <2>1. Len(Tail(audioQ)) \in Nat /\ Len(Tail(audioQ)) < QueueMax
      BY <1>1, TailFresh DEF ConnInv
  <2> QED
      BY <1>1, <2>1, TailFresh DEF ConnInv
<1> QED
    BY <1>1, <1>2 DEF ConnInv, ServiceTypeOK, QueueIsFresh

\* Nothing else touches the queue or counts a "start".
LEMMA OtherStep ==
    ASSUME ConnInv, UNCHANGED <<audioQ, turn>>, [Next]_vars,
           ~ReceiveStart, ~ReceiveFrame, ~Wake, ~IterSends
    PROVE  ConnInv'
<1> SUFFICES ServiceTypeOK'
    BY DEF ConnInv, QueueIsFresh
<1> USE DEF ConnInv, ServiceTypeOK
<1>1. CASE ReceiveStop \/ ReceiveDisconnect
    BY <1>1 DEF ReceiveStop, Receive, ReceiveDisconnect, CloseGate
<1>2. CASE IterContinues \/ IterEnds \/ IterTimesOut
    BY <1>2 DEF IterContinues, IterEnds, IterTimesOut
<1>3. CASE OpenSession \/ SayEou
    BY <1>3 DEF OpenSession, SayEou
<1>4. CASE SessionDone \/ LoopAgain \/ Leave
    BY <1>4 DEF SessionDone, LoopAgain, Leave, DropSession, NothingSaid
<1>5. CASE SberInterim \/ SberEnds \/ SessionFails
    BY <1>5 DEF SberInterim, Responds, SberEnds, SessionFails, DropSession
<1>6. ASSUME NEW text \in Texts \cup {NoText}, SberEou(text) PROVE ServiceTypeOK'
    BY <1>6 DEF SberEou, Responds
<1>7. CASE StartTimeout
    BY <1>7 DEF StartTimeout
<1>8. CASE AgentReads \/ LinkBreaks \/ \E cmd \in {Start, Stop} : AgentSends(cmd)
    BY <1>8 DEF AgentReads, LinkBreaks, AgentSends
<1>9. CASE UNCHANGED vars
    BY <1>9 DEF vars
<1> QED
    BY <1>1, <1>2, <1>3, <1>4, <1>5, <1>6, <1>7, <1>8, <1>9
    DEF Next, Serve, Recv, Iter, Main, Sber

\* The queue and the count change only where the steps above say.
LEMMA QueueFrame ==
    [Next]_vars => \/ ReceiveStart \/ ReceiveFrame \/ Wake \/ IterSends
                   \/ UNCHANGED <<audioQ, turn>>
  BY DEF Next, Serve, Recv, Iter, Main, Sber, vars, ReceiveStop,
         ReceiveDisconnect, IterContinues, IterEnds, IterTimesOut, OpenSession,
         SayEou, SessionDone, LoopAgain, Leave, SberInterim, SberEou, SberEnds,
         SessionFails, StartTimeout, AgentSends, AgentReads, LinkBreaks

\* The service has just accepted the WebSocket.
LEMMA InitInv == Init => ConnInv
<1>1. <<>> \in Seq(0 .. MaxTurns) /\ Len(<<>>) <= QueueMax /\ DOMAIN <<>> = {}
    OBVIOUS
<1>2. 0 \in 0 .. MaxTurns
    OBVIOUS
<1>3. Init => /\ audioQ \in Seq(0 .. MaxTurns) /\ Len(audioQ) <= QueueMax
              /\ DOMAIN audioQ = {}
    BY <1>1, Zenon DEF Init
<1> QED
    BY <1>2, <1>3 DEF Init, ConnInv, ServiceTypeOK, QueueIsFresh

LEMMA ConnInvariance == Spec => []ConnInv
<1>1. ConnInv /\ [Next]_vars => ConnInv'
    BY FrameStep, DrainStep, IterSendsStep, OtherStep, QueueFrame
<1> QED
    BY InitInv, <1>1, PTL DEF Spec

\* Every variable keeps its type, and _audio_q its size, whatever the agent
\* sends, Sber answers and the connection does.
THEOREM TypeCorrect == Spec => []ServiceTypeOK
<1>1. ConnInv => ServiceTypeOK
    BY DEF ConnInv
<1> QED
    BY ConnInvariance, <1>1, PTL

\* A session hears only audio that came after the last "start", for any size
\* of the queue and however "start", "stop" and frames interleave.
THEOREM HearsFreshAudio == Spec => []OnlyFreshAudio
<1>1. ConnInv => OnlyFreshAudio
    BY DEF ConnInv, QueueIsFresh, OnlyFreshAudio
<1> QED
    BY ConnInvariance, <1>1, PTL
====

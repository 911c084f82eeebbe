--------------------------- MODULE SttConnection ---------------------------
(***************************************************************************)
(* One WebSocket of the STT service: stt_service/server.py, class          *)
(* WsSttConnection, with the gRPC sessions of stt_service/sber_stt.py that *)
(* it runs one after the other.                                            *)
(*                                                                         *)
(* Three coroutines interleave: recv_task reads the agent's messages,      *)
(* run() waits for the listening gate, opens a session and reads Sber's    *)
(* responses, and the session's request_iter feeds it the audio.  Sber is  *)
(* external: it answers as it likes, and ends the stream after an eou.     *)
(*                                                                         *)
(* Audio frames come in at any time; toService carries the commands.  A    *)
(* frame is the number of "start" commands processed before it came.       *)
(***************************************************************************)
EXTENDS Integers, Sequences

CONSTANTS
    Texts,      \* what Sber may have recognised
    NoText,     \* nothing
    QueueMax,   \* maxsize of _audio_q
    SilentEnds, \* whether Sber may end a stream without an eou
    MaxTurns,   \* bound: "start" commands that are counted
    MaxSays     \* bound: messages under way when Sber responds

ASSUME ServiceNoTextAssumption == NoText \notin Texts
ASSUME QueueMaxAssumption == QueueMax \in Nat \ {0}
ASSUME SilentEndsAssumption == SilentEnds \in BOOLEAN
ASSUME ServiceBoundsAssumption == MaxTurns \in Nat \ {0} /\ MaxSays \in Nat

VARIABLES
    main,        \* the await run() is at
    recv,        \* recv_task: "reading", or "over"
    gate,        \* _listening_ev
    audioQ,      \* _audio_q
    iter,        \* the session's request_iter
    responded,   \* the session's responses_count > 0
    hadText,     \* the session's had_text
    utterance,   \* on_final's text, between its two messages
    told,        \* history: the session has sent the agent an eou
    turn,        \* history: "start" commands processed, saturated
    link,        \* the WebSocket is up
    toService,   \* commands on their way from the agent
    toAgent      \* messages on their way to the agent

sessionVars == <<iter, responded, hadText, utterance, told>>
recvVars == <<recv, gate, audioQ, turn>>
wireVars == <<link, toService, toAgent>>
vars == <<main, recvVars, sessionVars, wireVars>>

Start == [type |-> "start"]
Stop == [type |-> "stop"]
Message(type, text) == [type |-> type, text |-> text]

\* Messages the agent makes nothing of: started, stopped, error, ...
Other == Message("other", NoText)

\* The endpoint has accepted the WebSocket and run() waits for a "start".
Init ==
    /\ main = "wait"
    /\ recv = "reading"
    /\ gate = FALSE
    /\ audioQ = <<>>
    /\ iter = "none"
    /\ responded = FALSE
    /\ hadText = FALSE
    /\ utterance = NoText
    /\ told = FALSE
    /\ turn = 0
    /\ link = TRUE
    /\ toService = <<>>
    /\ toAgent = <<>>

\* _send_json: an exception is swallowed.
Say(m) == toAgent' = IF link THEN Append(toAgent, m) ELSE toAgent

----------------------------------------------------------------------------
(* _handle_user_message                                                    *)

\* Mutants: the queue blocks the receiver; it grows past its size.
Enqueue_Blocks(frame) ==
    IF Len(audioQ) = QueueMax
    THEN recv' = "blocked" /\ UNCHANGED audioQ
    ELSE audioQ' = Append(audioQ, frame) /\ UNCHANGED recv

Enqueue_Unbounded(frame) ==
    audioQ' = Append(audioQ, frame) /\ UNCHANGED recv

\* put_nowait; when the queue is full, the oldest frame goes.
Enqueue(frame) ==
    /\ audioQ' = Append(IF Len(audioQ) = QueueMax THEN Tail(audioQ) ELSE audioQ,
                        frame)
    /\ UNCHANGED recv

ReceiveFrame ==
    /\ recv = "reading"
    /\ link
    /\ Enqueue(turn)
    /\ UNCHANGED <<main, gate, turn, sessionVars, wireVars>>

\* The next command leaves the wire.
Receive(cmd) ==
    /\ recv = "reading"
    /\ toService # <<>>
    /\ Head(toService) = cmd
    /\ toService' = Tail(toService)
    /\ UNCHANGED <<recv, link>>

\* Mutant: stale audio stays in the queue.
DrainAudio_Not == UNCHANGED audioQ

DrainAudio == audioQ' = <<>>

\* "start": the gate opens, which wakes run() if it waits for it.
ReceiveStart ==
    /\ Receive(Start)
    /\ gate' = TRUE
    /\ turn' = IF turn < MaxTurns THEN turn + 1 ELSE turn
    /\ DrainAudio
    /\ main' = IF main = "wait" THEN "woken" ELSE main
    /\ Say(Other)
    /\ UNCHANGED sessionVars

ReceiveStop ==
    /\ Receive(Stop)
    /\ gate' = FALSE
    /\ Say(Other)
    /\ UNCHANGED <<main, audioQ, turn, sessionVars>>

\* Mutant: a connection that is lost leaves the gate as it is.
CloseGate_Not == UNCHANGED gate

CloseGate == gate' = FALSE

\* The WebSocket is down, and what had arrived has been read.
ReceiveDisconnect ==
    /\ recv = "reading"
    /\ ~link
    /\ toService = <<>>
    /\ recv' = "over"
    /\ CloseGate
    /\ UNCHANGED <<main, audioQ, turn, sessionVars, wireVars>>

----------------------------------------------------------------------------
(* run()                                                                   *)

\* _listening_ev.wait() returned; the gate may have been cleared since.
Wake ==
    /\ main = "woken"
    /\ main' = "token"
    /\ audioQ' = <<>>
    /\ UNCHANGED <<recv, gate, turn, sessionVars, wireVars>>

\* Mutant: the wait for a start signal has no timeout.
StartTimeout_Never == FALSE

\* "no start signal for 30s, closing"
StartTimeout ==
    /\ main = "wait"
    /\ main' = "leaving"
    /\ Say(Other)
    /\ UNCHANGED <<recvVars, sessionVars, link, toService>>

\* get_token() returns, and the stream to Sber opens.
OpenSession ==
    /\ main = "token"
    /\ main' = "session"
    /\ iter' = "check"
    /\ UNCHANGED <<responded, hadText, utterance, told, recvVars, wireVars>>

\* The session object is dropped; the next one starts from zero.
DropSession ==
    /\ iter' = "none"
    /\ responded' = FALSE
    /\ hadText' = FALSE
    /\ told' = FALSE
    /\ UNCHANGED utterance

\* get_token() or the stream raises: an "error" message, and out of the loop.
SessionFails ==
    /\ main \in {"token", "session"}
    /\ main' = "leaving"
    /\ DropSession
    /\ Say(Other)
    /\ UNCHANGED <<recvVars, link, toService>>

\* request_iter: the gate is looked at before each wait for a frame.
IterContinues ==
    /\ iter = "check"
    /\ gate
    /\ iter' = "get"
    /\ UNCHANGED <<main, recvVars, responded, hadText, utterance, told,
                   wireVars>>

\* "listening cleared": the stream is half-closed.
IterEnds ==
    /\ iter = "check"
    /\ ~gate
    /\ iter' = "ended"
    /\ UNCHANGED <<main, recvVars, responded, hadText, utterance, told,
                   wireVars>>

\* A frame is sent to Sber.
IterSends ==
    /\ iter = "get"
    /\ audioQ # <<>>
    /\ audioQ' = Tail(audioQ)
    /\ iter' = "check"
    /\ UNCHANGED <<main, recv, gate, turn, responded, hadText, utterance, told,
                   wireVars>>

\* No frame for 0.1 s.
IterTimesOut ==
    /\ iter = "get"
    /\ audioQ = <<>>
    /\ iter' = "check"
    /\ UNCHANGED <<main, recvVars, responded, hadText, utterance, told,
                   wireVars>>

\* Sber responds while there is room on the wire.
Responds ==
    /\ main = "session"
    /\ ~told
    /\ Len(toAgent) < MaxSays
    /\ responded' = TRUE

\* An interim result with a text, or a response without one.
SberInterim ==
    /\ Responds
    /\ \/ \E text \in Texts : Say(Message("interim", text))
       \/ UNCHANGED toAgent
    /\ UNCHANGED <<main, iter, hadText, utterance, told, recvVars, link,
                   toService>>

\* Mutant: no "final" before the "eou".
FinalFirst_Not(text) == Other

FinalFirst(text) == Message("final", text)

\* An end of utterance: on_final sends "final" ...
SberEou(text) ==
    /\ Responds
    /\ hadText' = (hadText \/ text # NoText)
    /\ utterance' = text
    /\ Say(FinalFirst(text))
    /\ main' = "eou"
    /\ UNCHANGED <<iter, told, recvVars, link, toService>>

\* ... and then "eou", with the same text.
SayEou ==
    /\ main = "eou"
    /\ main' = "session"
    /\ Say(Message("eou", utterance))
    /\ told' = TRUE
    /\ utterance' = NoText
    /\ UNCHANGED <<iter, responded, hadText, recvVars, link, toService>>

\* The stream ends, and the channel is being closed.
SberEnds ==
    /\ main = "session"
    /\ told \/ SilentEnds
    /\ main' = "closing"
    /\ iter' = "none"
    /\ UNCHANGED <<responded, hadText, utterance, told, recvVars, wireVars>>

\* The no-text guard: responses, and no text in them.
NothingSaid == responded /\ ~hadText

\* The session has returned and the gate is open: clear it if nothing was
\* said, and sleep 0.1 s.
SessionDone ==
    /\ main = "closing"
    /\ gate
    /\ gate' = ~NothingSaid
    /\ main' = "rate"
    /\ DropSession
    /\ UNCHANGED <<recv, audioQ, turn, wireVars>>

\* The session has returned and the gate is closed, or the sleep is over:
\* another session if the gate is open, or the wait for it.
LoopAgain ==
    /\ \/ main = "closing" /\ ~gate
       \/ main = "rate"
    /\ main' = IF gate THEN "token" ELSE "wait"
    /\ DropSession
    /\ UNCHANGED <<recvVars, wireVars>>

\* The finally block, and the return of the endpoint: recv_task is cancelled
\* and the WebSocket closed.  What was said before arrives.
Leave ==
    /\ main = "leaving"
    /\ main' = "done"
    /\ recv' = "over"
    /\ gate' = FALSE
    /\ link' = FALSE
    /\ toService' = <<>>
    /\ UNCHANGED <<audioQ, turn, sessionVars, toAgent>>

----------------------------------------------------------------------------
Recv == ReceiveFrame \/ ReceiveStart \/ ReceiveStop \/ ReceiveDisconnect

Iter == IterContinues \/ IterEnds \/ IterSends \/ IterTimesOut

\* What run() does by itself; its answers to Sber are below.
Main == Wake \/ OpenSession \/ SayEou \/ SessionDone \/ LoopAgain \/ Leave

Sber ==
    \/ SberInterim
    \/ \E text \in Texts \cup {NoText} : SberEou(text)
    \/ SberEnds
    \/ SessionFails

Serve == Recv \/ Iter \/ Main \/ Sber

\* The coroutines run, the 30 s pass, and Sber ends or breaks a stream whose
\* requests have ended (keepalive pings find a dead connection).
Fairness ==
    /\ WF_vars(ReceiveStart \/ ReceiveStop \/ ReceiveDisconnect)
    /\ WF_vars(Iter)
    /\ WF_vars(Main)
    /\ WF_vars(StartTimeout)
    /\ WF_vars(iter = "ended" /\ (SberEnds \/ SessionFails))

----------------------------------------------------------------------------
(* Properties                                                              *)

\* Every variable keeps its type; _audio_q stays within its size.
ServiceTypeOK ==
    /\ main \in {"wait", "woken", "token", "session", "eou", "closing", "rate",
                 "leaving", "done"}
    /\ recv \in {"reading", "over"}
    /\ gate \in BOOLEAN
    /\ audioQ \in Seq(0 .. MaxTurns) /\ Len(audioQ) <= QueueMax
    /\ iter \in {"none", "check", "get", "ended"}
    /\ responded \in BOOLEAN
    /\ hadText \in BOOLEAN
    /\ told \in BOOLEAN
    /\ utterance \in Texts \cup {NoText}
    /\ turn \in 0 .. MaxTurns

\* A session hears only audio that came after the last "start", also when
\* "stop" and "start" come so close that the session does not notice ("the new
\* gRPC session only processes fresh speech").
OnlyFreshAudio ==
    iter = "get" /\ turn < MaxTurns => \A i \in DOMAIN audioQ : audioQ[i] = turn

\* A flood of audio does not stall the commands: while any are under way, one
\* after the other leaves the wire, whether the queue drains or not ("a
\* blocking put would stall this same loop, preventing start/stop commands").
CommandsProcessed ==
    <>[](toService # <<>>) => []<><<Len(toService') < Len(toService)>>_vars

\* A connection the agent has lost is cleaned up: its session ends, and so
\* does run().
LostConnectionEnds == ~link ~> main = "done"
====

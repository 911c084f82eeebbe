------------------------------ MODULE SttAudio ------------------------------
(***************************************************************************)
(* The audio path of the agent's stream: my_agent/plugin_stt.py, class     *)
(* WsSttStream, the tasks drain_input() and send_audio() that _run() keeps *)
(* beside its loop, and what that loop does to them: it flushes the queue, *)
(* reconnects and creates the sender again.                                *)
(*                                                                         *)
(* A frame is the number under which it was captured.  Which messages come *)
(* from the service, and when, is left open here; SttStream has them.      *)
(***************************************************************************)
EXTENDS Naturals, Sequences

CONSTANTS
    QueueMax,  \* maxsize of audio_q
    MaxFrames  \* bound: frames captured

ASSUME QueueMaxAssumption == QueueMax \in Nat \ {0}
ASSUME MaxFramesAssumption == MaxFrames \in Nat

VARIABLES
    run,       \* the await _run() is at
    listening, \* _listening_event, which the call sets and clears
    closed,    \* _input_ch is closed
    link,      \* the client's WebSocket is up
    audioQ,    \* audio_q
    sender,    \* send_task
    held,      \* ... and the frame it awaits the sending of, if any
    captured,  \* history: frames captured
    flushed,   \* history: ... when audio_q was flushed last
    since,     \* history: ... flushed before the last "start" that arrived
    heard      \* history: frames the service has got since, on this connection

loopVars == <<run, link>>
callVars == <<listening, closed>>
sendVars == <<sender, held>>
turnVars == <<flushed, since>>
vars == <<loopVars, callVars, audioQ, sendVars, captured, turnVars, heard>>

\* _run() has connected and created drain_input().
Init ==
    /\ run = "gate"
    /\ listening = FALSE
    /\ closed = FALSE
    /\ link = TRUE
    /\ audioQ = <<>>
    /\ sender = "none"
    /\ held = <<>>
    /\ captured = 0
    /\ flushed = 0
    /\ since = 0
    /\ heard = <<>>

Goto(from, to) == run = from /\ run' = to

----------------------------------------------------------------------------
(* The call, and the connection                                            *)

\* The agent begins or ends to listen.
AgentTurns ==
    /\ listening' = ~listening
    /\ UNCHANGED <<loopVars, closed, audioQ, sendVars, captured, turnVars, heard>>

CloseInput ==
    /\ ~closed
    /\ closed' = TRUE
    /\ UNCHANGED <<loopVars, listening, audioQ, sendVars, captured, turnVars,
                   heard>>

\* The service forgets what it has heard, with the connection.
LinkBreaks ==
    /\ link
    /\ link' = FALSE
    /\ heard' = <<>>
    /\ UNCHANGED <<run, callVars, audioQ, sendVars, captured, turnVars>>

----------------------------------------------------------------------------
(* drain_input()                                                           *)

Full == Len(audioQ) = QueueMax

\* Mutant: a full queue drops nothing.
MakeRoom_Not == audioQ

\* get_nowait() if the queue is full.
MakeRoom == IF Full THEN Tail(audioQ) ELSE audioQ

\* A frame comes in: queued if the agent listens, else dropped.
Capture ==
    /\ run # "over"
    /\ ~closed
    /\ captured < MaxFrames
    /\ captured' = captured + 1
    /\ audioQ' = IF listening THEN Append(MakeRoom, captured') ELSE audioQ
    /\ UNCHANGED <<loopVars, callVars, sendVars, turnVars, heard>>

----------------------------------------------------------------------------
(* send_audio()                                                            *)

\* audio_q.get() returns.
Take ==
    /\ sender = "get"
    /\ audioQ # <<>>
    /\ sender' = "send"
    /\ held' = <<Head(audioQ)>>
    /\ audioQ' = Tail(audioQ)
    /\ UNCHANGED <<loopVars, callVars, captured, turnVars, heard>>

Sent ==
    /\ sender = "send"
    /\ link
    /\ sender' = "get"
    /\ held' = <<>>
    /\ heard' = heard \o held
    /\ UNCHANGED <<loopVars, callVars, audioQ, captured, turnVars>>

\* put_nowait() at the tail; QueueFull ends the task all the same.
PutBack == audioQ' = IF Full THEN audioQ ELSE audioQ \o held

\* The connection is lost: the frame goes back, and the task ends.
SendFails ==
    /\ sender = "send"
    /\ ~link
    /\ PutBack
    /\ sender' = "done"
    /\ held' = <<>>
    /\ UNCHANGED <<loopVars, callVars, captured, turnVars, heard>>

\* ... or nobody is told of it: the frame goes nowhere, and the task goes on.
SendVanishes ==
    /\ sender = "send"
    /\ ~link
    /\ sender' = "get"
    /\ held' = <<>>
    /\ UNCHANGED <<loopVars, callVars, audioQ, captured, turnVars, heard>>

----------------------------------------------------------------------------
(* _run()                                                                  *)

\* Mutant: the queue is not flushed.
Flush_Not == UNCHANGED audioQ /\ flushed' = captured

Flush == audioQ' = <<>> /\ flushed' = captured

\* The agent listens, and a turn begins.
TurnStart ==
    /\ Goto("gate", "start")
    /\ listening
    /\ ~closed
    /\ Flush
    /\ UNCHANGED <<link, callVars, sendVars, captured, since, heard>>

\* Mutant: only the first sender is created.
EnsureSendTask_Once ==
    IF sender = "none" THEN sender' = "get" ELSE UNCHANGED sender

\* _ensure_send_task
EnsureSendTask ==
    IF sender \in {"none", "done"} THEN sender' = "get" ELSE UNCHANGED sender

\* "start" arrives, at the first or at the second try.
Started ==
    /\ run \in {"start", "restart"}
    /\ run' = "read"
    /\ link
    /\ heard' = <<>>
    /\ since' = flushed
    /\ EnsureSendTask
    /\ UNCHANGED <<link, callVars, audioQ, held, captured, flushed>>

\* The connection is lost, and nobody has been told of it: "start" goes nowhere.
StartVanishes ==
    /\ run \in {"start", "restart"}
    /\ run' = "read"
    /\ ~link
    /\ EnsureSendTask
    /\ UNCHANGED <<link, callVars, audioQ, held, captured, turnVars, heard>>

\* ... or it raises.
StartFails ==
    /\ Goto("start", "redial")
    /\ ~link
    /\ UNCHANGED <<link, callVars, audioQ, sendVars, captured, turnVars, heard>>

\* connect() has returned, many turns of the event loop after the loss: a send
\* under way has ended by then.
Connected ==
    /\ \/ Goto("redial", "restart")
       \/ Goto("rejoin", "gate")
    /\ sender # "send"
    /\ link' = TRUE
    /\ UNCHANGED <<callVars, audioQ, sendVars, captured, turnVars, heard>>

\* An eou with text.
TurnEnds ==
    /\ Goto("read", "gate")
    /\ UNCHANGED <<link, callVars, audioQ, sendVars, captured, turnVars, heard>>

\* An empty eou: "stop", and "start" again, which reaches the service only on
\* a connection.  Nothing is flushed.
SilentRestart ==
    /\ run = "read"
    /\ link
    /\ heard' = <<>>
    /\ UNCHANGED <<loopVars, callVars, audioQ, sendVars, captured, turnVars>>

ReadFails ==
    /\ Goto("read", "rejoin")
    /\ ~link
    /\ ~closed
    /\ UNCHANGED <<link, callVars, audioQ, sendVars, captured, turnVars, heard>>

\* The input is closed and _run() leaves its loop or is cancelled, or the
\* second "start" raises: the finally block cancels both tasks and closes the
\* client.
Finally ==
    /\ \/ run # "over" /\ closed
       \/ run = "restart" /\ ~link
    /\ run' = "over"
    /\ link' = FALSE
    /\ sender' = "done"
    /\ held' = <<>>
    /\ heard' = <<>>
    /\ UNCHANGED <<callVars, audioQ, captured, turnVars>>

----------------------------------------------------------------------------
Sender == Take \/ Sent \/ SendFails \/ SendVanishes

Loop ==
    \/ TurnStart \/ Started \/ StartVanishes \/ StartFails
    \/ Connected \/ ReadFails \/ Finally

Next ==
    \/ AgentTurns \/ CloseInput \/ LinkBreaks \/ Capture
    \/ Sender \/ Loop \/ TurnEnds \/ SilentRestart

\* The event loop runs the sender when a frame is there or a send returns.
Spec == Init /\ [][Next]_vars /\ WF_vars(Sender)

----------------------------------------------------------------------------
(* Properties                                                              *)

\* Every variable keeps its type, and audio_q its size.
TypeOK ==
    /\ run \in {"gate", "start", "redial", "restart", "read", "rejoin", "over"}
    /\ listening \in BOOLEAN
    /\ closed \in BOOLEAN
    /\ link \in BOOLEAN
    /\ audioQ \in Seq(Nat) /\ Len(audioQ) <= QueueMax
    /\ sender \in {"none", "get", "send", "done"}
    /\ held \in Seq(Nat) /\ Len(held) = (IF sender = "send" THEN 1 ELSE 0)
    /\ captured \in 0 .. MaxFrames
    /\ flushed \in 0 .. captured
    /\ since \in 0 .. flushed
    /\ heard \in Seq(Nat)

\* What the audio path promises to the recognition of a turn.
Feed == INSTANCE AudioFeed
            WITH count <- captured, before <- since, fed <- heard

\* The service gets audio of this turn only, in order and once, but for one
\* frame: the one send_audio() held across the flush of the turn's start, or
\* put back behind newer ones when the connection broke.
FeedsTurn == Feed!Spec

\* While the stream reads on a live connection a sender serves it: one that
\* ended with a lost connection is created again before the stream reads.
SenderServes == run = "read" /\ link => sender \in {"get", "send"}

\* A frame that is queued while the stream reads does not stay in the queue:
\* it is sent or makes room, unless the connection breaks.
FramesFlow ==
    \A n \in 1 .. MaxFrames :
        (run = "read" /\ link /\ n \in {audioQ[i] : i \in DOMAIN audioQ})
            ~> (~link \/ n \notin {audioQ[i] : i \in DOMAIN audioQ})
====

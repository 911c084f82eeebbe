----------------------------- MODULE SttStream -----------------------------
(***************************************************************************)
(* The agent's end of speech recognition: my_agent/plugin_stt.py, classes  *)
(* SttWsClient, WsSttStream and the gate of SttWsPlugin.                   *)
(*                                                                         *)
(* WsSttStream._run is one coroutine; pc names the await it is at.  It     *)
(* opens a turn with "start", reads the service's messages until an "eou"  *)
(* with text ends the turn, and waits for the agent to answer and listen   *)
(* again.  The wires toService and toAgent are the two directions of the   *)
(* WebSocket; when it breaks, what was under way is lost.                  *)
(*                                                                         *)
(* The specification is open: the service says whatever the protocol has,  *)
(* in any order, the connection breaks at any time, and the gate is opened *)
(* and closed at will.  SttLink puts the real service in its place.        *)
(*                                                                         *)
(* The audio tasks (drain_input, send_audio) are not modelled here.        *)
(***************************************************************************)
EXTENDS Integers, Sequences

CONSTANTS
    Texts,       \* transcripts
    NoText,      \* the empty transcript, and None
    MaxSilences, \* bound: where the silence counter saturates
    MaxCommands, \* bound: commands under way to the service
    MaxWire      \* bound: messages, and speech events, under way

ASSUME NoTextAssumption == NoText \notin Texts
ASSUME MaxSilencesAssumption == MaxSilences \in Nat \ {0}
ASSUME MaxWireAssumption == MaxCommands \in Nat \ {0} /\ MaxWire \in Nat

VARIABLES
    pc,             \* the await _run is at
    backoff,        \* connect(): seconds before the next attempt
    hasSeenEou,     \* _has_seen_eou
    lastFinal,      \* _last_final_text
    silenceCounter, \* the plugin's _silence_counter, saturated
    listening,      \* the plugin's _listening_event
    inputOpen,      \* the input channel is not closed
    events,         \* speech events AgentSession has not taken yet
    link,           \* the WebSocket is up
    toService,      \* commands on their way to the service
    toAgent,        \* messages on their way to the agent
    command,        \* history: last command the connection carried
    shown           \* history: the last FINAL or END_OF_SPEECH that was sent

streamVars == <<pc, backoff, hasSeenEou, lastFinal, silenceCounter, inputOpen,
                events, command, shown>>
wireVars == <<link, toService, toAgent>>
vars == <<streamVars, listening, wireVars>>

Start == [type |-> "start"]
Stop == [type |-> "stop"]
Message(type, text) == [type |-> type, text |-> text]
Commands == {Start, Stop}
Messages == [type : {"interim", "final", "eou"}, text : Texts \cup {NoText}]
                \cup {Message("other", NoText)}
Event(type, text) == [type |-> type, text |-> text]
Interim(text) == Event("INTERIM_TRANSCRIPT", text)
Final(text) == Event("FINAL_TRANSCRIPT", text)
EndOfSpeech(text) == Event("END_OF_SPEECH", text)
SpeechEvents ==
    [type : {"INTERIM_TRANSCRIPT", "FINAL_TRANSCRIPT", "END_OF_SPEECH"},
     text : Texts]

RetryBase == 1
RetryMax == 16

Init ==
    /\ pc = "connect"
    /\ backoff = RetryBase
    /\ hasSeenEou = FALSE
    /\ lastFinal = NoText
    /\ silenceCounter = 0
    /\ listening = FALSE
    /\ inputOpen = TRUE
    /\ events = <<>>
    /\ link = FALSE
    /\ toService = <<>>
    /\ toAgent = <<>>
    /\ command = "none"
    /\ shown = Event("none", NoText)

----------------------------------------------------------------------------
(* connect()                                                               *)

\* The attempt succeeds: _run goes back to the top of its loop, or resends
\* the "start" that had failed.
Connected ==
    /\ pc \in {"connect", "reconnect"}
    /\ backoff <= RetryMax
    /\ pc' = IF pc = "connect" THEN "gate" ELSE "resend"
    /\ backoff' = RetryBase
    /\ link' = TRUE
    /\ toService' = <<>>
    /\ toAgent' = <<>>
    /\ command' = "none"
    /\ UNCHANGED <<hasSeenEou, lastFinal, silenceCounter, inputOpen, events,
                   shown, listening>>

\* What the failing attempts leave alone.
KeepDialling ==
    UNCHANGED <<hasSeenEou, lastFinal, silenceCounter, inputOpen, events, shown,
                listening, wireVars, command>>

\* The attempt fails, and the coroutine sleeps for backoff seconds.
ConnectFails ==
    /\ pc \in {"connect", "reconnect"}
    /\ backoff <= RetryMax
    /\ pc' = IF pc = "connect" THEN "sleep" ELSE "resleep"
    /\ KeepDialling
    /\ UNCHANGED backoff

\* Mutant: the delay is not capped.
NextDelay_Uncapped == 2 * backoff

\* The delay doubles up to RetryMax.
NextDelay == IF 2 * backoff < RetryMax THEN 2 * backoff ELSE RetryMax

\* The next attempt.  The loop goes on while backoff <= RetryMax, which
\* NextDelay never exceeds: it has no other exit than a connection.
Redial ==
    /\ pc \in {"sleep", "resleep"}
    /\ pc' = IF pc = "sleep" THEN "connect" ELSE "reconnect"
    /\ backoff' = NextDelay
    /\ KeepDialling

----------------------------------------------------------------------------
(* The start of a turn                                                     *)

\* send_command on a connection that is up.
Send(cmd) ==
    /\ link
    /\ Len(toService) < MaxCommands
    /\ toService' = Append(toService, cmd)
    /\ command' = cmd.type
    /\ UNCHANGED <<link, toAgent>>

\* ... on one that has broken: the frame goes nowhere, or the call raises.
SendLost == ~link /\ UNCHANGED <<wireVars, command>>

\* What the steps at the start of a turn leave alone.
KeepTurn == UNCHANGED <<backoff, lastFinal, silenceCounter, inputOpen, events,
                        shown, listening>>

\* After a turn with speech: the agent has stopped listening, as a poll sees.
PassGate ==
    /\ pc = "gate"
    /\ inputOpen
    /\ ~hasSeenEou \/ ~listening
    /\ hasSeenEou' = FALSE
    /\ pc' = "wait"
    /\ KeepTurn
    /\ UNCHANGED <<wireVars, command>>

\* Mutant: the poll has no deadline.
GateTimeout_Never == FALSE

\* Ten seconds of polling have passed and the agent is still listening:
\* "turn-start gate timeout (10s), forcing restart of STT stream".
GateTimeout ==
    /\ pc = "gate"
    /\ inputOpen
    /\ hasSeenEou
    /\ listening
    /\ hasSeenEou' = FALSE
    /\ pc' = "wait"
    /\ KeepTurn
    /\ UNCHANGED <<wireVars, command>>

\* _listening_event.wait() returns; it may be cleared before _run resumes.
WakeUp ==
    /\ pc = "wait"
    /\ listening
    /\ pc' = "start"
    /\ KeepTurn
    /\ UNCHANGED <<hasSeenEou, wireVars, command>>

\* The input channel was closed while _run was at the gate or the wait.
StopAtTurnStart ==
    /\ pc \in {"gate", "start"}
    /\ ~inputOpen
    /\ pc' = "finally"
    /\ KeepTurn
    /\ UNCHANGED <<hasSeenEou, wireVars, command>>

SendStart ==
    /\ pc = "start"
    /\ inputOpen
    /\ \/ Send(Start) /\ pc' = "read"
       \/ SendLost /\ pc' \in {"read", "reconnect"}
    /\ KeepTurn
    /\ UNCHANGED hasSeenEou

\* The second attempt after reconnecting; if it raises, so does _run.
ResendStart ==
    /\ pc = "resend"
    /\ \/ Send(Start) /\ pc' = "read"
       \/ SendLost /\ pc' \in {"read", "finally"}
    /\ KeepTurn
    /\ UNCHANGED hasSeenEou

----------------------------------------------------------------------------
(* The read loop: read_message, _handle_json, and what an "eou" does        *)

\* The inner loop goes on, unless the input channel has been closed.
ReadOn == IF inputOpen THEN "read" ELSE "finally"

\* The next message leaves the wire, and nothing is sent.
Receive == toAgent' = Tail(toAgent) /\ UNCHANGED <<link, toService, command>>

\* The next message leaves the wire, and a command is sent, if it can be.
ReceiveThenSend(cmd) ==
    /\ toAgent' = Tail(toAgent)
    /\ link => Len(toService) < MaxCommands
    /\ toService' = IF link THEN Append(toService, cmd) ELSE toService
    /\ command' = IF link THEN cmd.type ELSE command
    /\ UNCHANGED link

\* A FINAL or an END_OF_SPEECH, or both, to the event channel, which has no
\* bound.
Emit(new) ==
    /\ events' = events \o new
    /\ shown' = new[Len(new)]

Reads(type) == pc = "read" /\ toAgent # <<>> /\ Head(toAgent).type = type

\* started, stopped, error, ...: nothing _run remembers or passes on.
ReadOther ==
    /\ Reads("other")
    /\ Receive
    /\ pc' = ReadOn
    /\ KeepTurn
    /\ UNCHANGED hasSeenEou

\* An "interim" with text is passed on, and not remembered.
ReadInterim ==
    /\ Reads("interim")
    /\ Receive
    /\ pc' = ReadOn
    /\ LET text == Head(toAgent).text IN
       events' = IF text # NoText THEN Append(events, Interim(text)) ELSE events
    /\ UNCHANGED <<backoff, hasSeenEou, lastFinal, silenceCounter, inputOpen,
                   shown, listening>>

\* A "final" without text is ignored.
ReadFinal ==
    /\ Reads("final")
    /\ Receive
    /\ pc' = ReadOn
    /\ LET text == Head(toAgent).text IN
       \/ /\ text # NoText
          /\ lastFinal' = text
          /\ Emit(<<Final(text)>>)
       \/ /\ text = NoText
          /\ UNCHANGED <<lastFinal, events, shown>>
    /\ UNCHANGED <<backoff, hasSeenEou, silenceCounter, inputOpen, listening>>

\* Mutant: the transcript of a turn is remembered in the next.
ForgetFinal_Never == UNCHANGED lastFinal

\* The end of a turn.
ForgetFinal == lastFinal' = NoText

\* Mutant: the eou emits its FINAL in any case.
Finalised_Never(text) == FALSE

\* The transcript of an "eou" was already made final this turn.
Finalised(text) == text = lastFinal

\* An "eou" with text ends the turn: FINAL if it is still due, END_OF_SPEECH,
\* "stop", and out of the read loop.
ReadSpeechEou ==
    /\ Reads("eou")
    /\ Head(toAgent).text # NoText
    /\ LET text == Head(toAgent).text IN
       Emit(IF Finalised(text)
            THEN <<EndOfSpeech(text)>>
            ELSE <<Final(text), EndOfSpeech(text)>>)
    /\ hasSeenEou' = TRUE
    /\ ForgetFinal
    /\ silenceCounter' = 0
    /\ ReceiveThenSend(Stop)
    /\ pc' = "gate"
    /\ UNCHANGED <<backoff, listening, inputOpen>>

\* An "eou" without text: count the silence (the handler it spawns is in
\* CallSession), "stop", and a sleep of 0.1 s.
ReadEmptyEou ==
    /\ Reads("eou")
    /\ Head(toAgent).text = NoText
    /\ silenceCounter' = IF silenceCounter < MaxSilences
                         THEN silenceCounter + 1 ELSE silenceCounter
    /\ ReceiveThenSend(Stop)
    /\ pc' = "rest"
    /\ UNCHANGED <<backoff, hasSeenEou, lastFinal, inputOpen, events, shown,
                   listening>>

\* Mutant: the stream reads on without telling the service.
Restart_Untold ==
    /\ pc = "rest"
    /\ pc' = ReadOn
    /\ KeepTurn
    /\ UNCHANGED <<hasSeenEou, wireVars, command>>

\* The sleep is over: "start", whether or not it can be sent.
Restart ==
    /\ pc = "rest"
    /\ Send(Start) \/ SendLost
    /\ pc' = ReadOn
    /\ KeepTurn
    /\ UNCHANGED hasSeenEou

\* recv() raises once what had arrived is read: connect and start over.
ReadError ==
    /\ pc = "read"
    /\ ~link
    /\ toAgent = <<>>
    /\ pc' = IF inputOpen THEN "connect" ELSE "finally"
    /\ KeepTurn
    /\ UNCHANGED <<hasSeenEou, wireVars, command>>

\* The finally block: the WebSocket is closed.
Finish ==
    /\ pc = "finally"
    /\ pc' = "done"
    /\ link' = FALSE
    /\ toService' = <<>>
    /\ toAgent' = <<>>
    /\ KeepTurn
    /\ UNCHANGED <<hasSeenEou, command>>

----------------------------------------------------------------------------
(* Around the stream                                                       *)

\* set_listening(), from agent_state_changed and the silence handlers.
SetListening(value) ==
    /\ listening # value
    /\ listening' = value
    /\ UNCHANGED <<streamVars, wireVars>>

\* reset_silence_counter(), from the silence handler.
ResetSilenceCounter ==
    /\ silenceCounter > 0
    /\ silenceCounter' = 0
    /\ UNCHANGED <<pc, backoff, hasSeenEou, lastFinal, inputOpen, events,
                   command, shown, listening, wireVars>>

\* AgentSession takes the next speech event.
TakeEvent ==
    /\ events # <<>>
    /\ events' = Tail(events)
    /\ UNCHANGED <<pc, backoff, hasSeenEou, lastFinal, silenceCounter,
                   inputOpen, command, shown, listening, wireVars>>

\* end_input(): the channel is closed, and the coroutine finds out.
EndInput ==
    /\ inputOpen
    /\ inputOpen' = FALSE
    /\ UNCHANGED <<pc, backoff, hasSeenEou, lastFinal, silenceCounter, events,
                   command, shown, listening, wireVars>>

\* aclose(): the channel is closed and the task cancelled at its await.
Cancelled ==
    /\ pc \notin {"finally", "done"}
    /\ pc' = "finally"
    /\ inputOpen' = FALSE
    /\ UNCHANGED <<backoff, hasSeenEou, lastFinal, silenceCounter, events,
                   shown, command, listening, wireVars>>

\* The connection breaks: messages that had not arrived are lost.
LinkBreaks ==
    /\ link
    /\ link' = FALSE
    /\ toService' = <<>>
    /\ \E n \in 0 .. Len(toAgent) : toAgent' = SubSeq(toAgent, 1, n)
    /\ UNCHANGED <<streamVars, listening>>

\* The service says something, or reads a command, or both.
ServiceActs(says, reads) ==
    /\ link
    /\ says = <<>> \/ Len(toAgent) + Len(events) < MaxWire
    /\ toAgent' = toAgent \o says
    /\ \/ reads /\ toService # <<>> /\ toService' = Tail(toService)
       \/ ~reads /\ UNCHANGED toService
    /\ UNCHANGED <<streamVars, listening, link>>

----------------------------------------------------------------------------
\* connect() and the start of a turn.
TurnStart ==
    \/ Connected
    \/ ConnectFails
    \/ Redial
    \/ PassGate
    \/ GateTimeout
    \/ WakeUp
    \/ StopAtTurnStart
    \/ SendStart
    \/ ResendStart

ReadLoop ==
    \/ ReadOther
    \/ ReadInterim
    \/ ReadFinal
    \/ ReadSpeechEou
    \/ ReadEmptyEou
    \/ Restart
    \/ ReadError

\* One step of _run.
Step == TurnStart \/ ReadLoop \/ Finish

\* The rest of the agent.
Plugin ==
    \/ \E value \in BOOLEAN : SetListening(value)
    \/ ResetSilenceCounter
    \/ TakeEvent
    \/ EndInput
    \/ Cancelled

ServiceSays == \E m \in Messages : ServiceActs(<<m>>, FALSE)
ServiceReads == ServiceActs(<<>>, TRUE)
ServiceReplies == \E m \in Messages : ServiceActs(<<m>>, TRUE)

Service == ServiceSays \/ ServiceReads \/ ServiceReplies

Next == Step \/ Plugin \/ LinkBreaks \/ Service

\* _run makes its steps, and the service reads what it is sent.  Nothing is
\* assumed of the agent, of what the service says, or of the connection.
Spec ==
    /\ Init /\ [][Next]_vars
    /\ WF_vars(Step)
    /\ WF_vars(ServiceReads)

----------------------------------------------------------------------------
(* Properties                                                              *)

Dialling == {"connect", "reconnect", "sleep", "resleep"}
Places == Dialling \cup {"gate", "wait", "start", "resend", "read", "rest",
                       "finally", "done"}

TypeOK ==
    /\ pc \in Places
    /\ backoff \in RetryBase .. RetryMax
    /\ hasSeenEou \in BOOLEAN
    /\ lastFinal \in Texts \cup {NoText}
    /\ silenceCounter \in 0 .. MaxSilences
    /\ listening \in BOOLEAN
    /\ inputOpen \in BOOLEAN
    /\ link \in BOOLEAN
    /\ toService \in Seq(Commands)
    /\ toAgent \in Seq(Messages)
    /\ events \in Seq(SpeechEvents)
    /\ command \in {"none", "start", "stop"}

\* What the last command told the service is what the stream is doing: on a
\* live connection it reads only after a "start", and waits for the next turn
\* only after a "stop" (or before any command).
ServiceToldRight ==
    link => /\ pc = "read" => command = "start"
            /\ pc \in {"gate", "wait", "start", "resend"}
                    => command \in {"none", "stop"}
            /\ pc = "rest" => command = "stop"

\* The events of this step.
NewEvents == SubSeq(events', Len(events) + 1, Len(events'))

\* Whether the service sends "final" then "eou" or "eou" alone, and whatever
\* interims come in between: before AgentSession gets END_OF_SPEECH, the last
\* FINAL or END_OF_SPEECH it got was the FINAL with the same text.
EosFollowsFinal ==
    [][\A i \in DOMAIN NewEvents :
           NewEvents[i].type = "END_OF_SPEECH" =>
               (IF i = 1 THEN shown ELSE NewEvents[i - 1])
                   = Final(NewEvents[i].text)]_vars

\* "avoids a duplicate FINAL into AgentSession": the FINAL an "eou" adds does
\* not repeat the last one, with nothing but interims in between.
NoDuplicateFinal ==
    [][Len(NewEvents) = 2 => NewEvents[1] # shown]_vars

\* While the agent goes on listening and the connection holds, the stream
\* comes back to reading, also if AgentSession ignores an END_OF_SPEECH.
RejoinsTurn ==
    <>[](listening /\ inputOpen /\ link) => []<>(pc = "read")
====

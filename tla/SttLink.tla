------------------------------ MODULE SttLink ------------------------------
(***************************************************************************)
(* Speech recognition end to end: the agent's stream (SttStream) and the   *)
(* connection object that serves it (SttConnection) on one WebSocket.      *)
(*                                                                         *)
(* The two share the wires and nothing else.  A connection the agent opens *)
(* gets an object of its own; the object of a connection that was lost     *)
(* ends by itself, which SttConnection shows, and is not followed here.    *)
(***************************************************************************)
EXTENDS Integers, Sequences

CONSTANTS
    Texts, NoText,
    MaxSilences, MaxCommands, MaxWire,      \* of the agent
    QueueMax, SilentEnds, MaxTurns, MaxSays \* of the service

\* The bound of the open service leaves room for what this one may have under
\* way: what Sber says, a last word, and an answer to each command, also to
\* those that follow the messages the agent has not read.
ASSUME LinkBoundsAssumption ==
    /\ {MaxSays, MaxCommands, MaxWire} \subseteq Nat
    /\ MaxWire > 2 * MaxSays + MaxCommands + 4

VARIABLES
    \* the agent's
    pc, backoff, hasSeenEou, lastFinal, silenceCounter, listening, inputOpen,
    events, command, shown,
    \* the service's
    main, recv, gate, audioQ, iter, responded, hadText, utterance, told, turn,
    \* the wires
    link, toService, toAgent

Agent == INSTANCE SttStream
Service == INSTANCE SttConnection

agentVars == <<pc, backoff, hasSeenEou, lastFinal, silenceCounter, listening,
               inputOpen, events, command, shown>>
serviceVars == <<main, recv, gate, audioQ, iter, responded, hadText, utterance,
                 told, turn>>
vars == <<agentVars, serviceVars, link, toService, toAgent>>

\* Nothing is connected; the service has no object for this agent yet.
Init ==
    /\ Agent!Init
    /\ main = "done"
    /\ recv = "over"
    /\ gate = FALSE
    /\ audioQ = <<>>
    /\ iter = "none"
    /\ responded = FALSE
    /\ hadText = FALSE
    /\ utterance = NoText
    /\ told = FALSE
    /\ turn = 0

\* Mutant: the connection objects share one listening event.
NewGate_Shared == UNCHANGED gate

\* The event of a new connection object.
NewGate == gate' = FALSE

\* websocket_endpoint: a new WsSttConnection, and its run().
Accept ==
    /\ main' = "wait"
    /\ recv' = "reading"
    /\ NewGate
    /\ audioQ' = <<>>
    /\ iter' = "none"
    /\ responded' = FALSE
    /\ hadText' = FALSE
    /\ utterance' = NoText
    /\ told' = FALSE
    /\ turn' = 0

Connect == Agent!Connected /\ Accept

\* The steps of _run that open no connection.
Dials == Agent!ConnectFails \/ Agent!Redial

StartsTurn ==
    \/ Agent!PassGate
    \/ Agent!GateTimeout
    \/ Agent!WakeUp
    \/ Agent!StopAtTurnStart
    \/ Agent!SendStart
    \/ Agent!ResendStart

\* AgentSession keeps up: a bound on the events.
Reads == events = <<>> /\ Agent!ReadLoop

AgentRuns == Dials \/ StartsTurn \/ Reads \/ Agent!Finish

AgentStep == (AgentRuns \/ Agent!Plugin) /\ UNCHANGED serviceVars

Break == Agent!LinkBreaks /\ UNCHANGED serviceVars

ServiceStep == Service!Serve /\ UNCHANGED agentVars

StartTimesOut == Service!StartTimeout /\ UNCHANGED agentVars

Next == Connect \/ AgentStep \/ Break \/ ServiceStep \/ StartTimesOut

\* Nothing is under way, and the agent has no step to make at once: what the
\* 30 s of the service are long enough for.
Settled ==
    /\ toService = <<>>
    /\ \/ pc = "read" /\ link /\ toAgent = <<>>
       \/ pc = "wait" /\ ~listening
       \/ pc = "done"

\* Both ends run, AgentSession takes its events, and the service can be
\* reached: an attempt to connect succeeds at last.
Fairness ==
    /\ SF_vars(Connect)
    /\ WF_vars(AgentRuns /\ UNCHANGED serviceVars)
    /\ WF_vars(Agent!TakeEvent /\ UNCHANGED serviceVars)
    /\ WF_vars((Service!ReceiveStart \/ Service!ReceiveStop
                    \/ Service!ReceiveDisconnect) /\ UNCHANGED agentVars)
    /\ WF_vars(Service!Iter /\ UNCHANGED agentVars)
    /\ WF_vars(Service!Main /\ UNCHANGED agentVars)
    /\ WF_vars(Settled /\ StartTimesOut)
    /\ WF_vars(iter = "ended" /\ (Service!SberEnds \/ Service!SessionFails)
                   /\ UNCHANGED agentVars)

Spec == Init /\ [][Next]_vars /\ Fairness

----------------------------------------------------------------------------
(* Properties                                                              *)

\* The real service is one of the services SttStream is open to: all that is
\* proved of the agent there holds with this service too.
ServiceIsAdmissible == Agent!Init /\ [][Agent!Next]_(Agent!vars)

\* The service listens to no one by mistake: with no command under way, its
\* gate is open only while the agent's stream reads (or is being closed), so no
\* session runs while the agent waits for its turn or dials, also after breaks,
\* a restart within the turn, and a connection object that replaced another.
GateFollowsStream ==
    link /\ gate /\ toService = <<>> => pc \in {"read", "finally"}

\* _on_final sends "final" before "eou", so the eou of the real service never
\* makes the stream emit a FINAL of its own, whatever is lost in between.
EouAlreadyFinal ==
    [][Agent!ReadSpeechEou => Head(toAgent).text = lastFinal]_vars

\* The WebSocket is faster than Sber and than the 30 s: commands arrive before
\* Sber responds again, and the 30 s do not run out while a turn starts.
LinkIsFast ==
    [][/\ Service!Sber /\ UNCHANGED agentVars => toService = <<>>
       /\ StartTimesOut => Settled]_vars

\* The caller is heard again: if the agent goes on listening, its stream
\* lives, and the connection no longer breaks and is fast, then again and again
\* the stream reads from a service whose gate is open, also after a "start"
\* was lost.
HeardAgain ==
    /\ <>[](listening /\ inputOpen /\ pc \notin {"finally", "done"})
    /\ <>[][~Break]_vars
    /\ <>LinkIsFast
    => []<>(pc = "read" /\ gate)

\* "the agent re-opens it with start on its next listening turn"
\* (server.py:309): the agent never reads from a service that waits for its
\* "start", with nothing under way.
NoLostStart ==
    ~ /\ pc = "read" /\ inputOpen
      /\ main = "wait"
      /\ link
      /\ toService = <<>>
      /\ toAgent = <<>>
====

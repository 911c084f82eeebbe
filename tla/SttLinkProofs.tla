--------------------------- MODULE SttLinkProofs ---------------------------
(***************************************************************************)
(* Proofs about SttLink, for every set of transcripts and every bound: the *)
(* real service does nothing the agent's stream is not open to, sends the  *)
(* transcript of an "eou" as a "final" first, and listens only to a stream *)
(* that reads.                                                             *)
(***************************************************************************)
EXTENDS SttLink, FiniteSetTheorems, SequenceTheorems, TLAPS

----------------------------------------------------------------------------
(* Types                                                                   *)

WiresOK ==
    /\ link \in BOOLEAN
    /\ toService \in Seq(Agent!Commands)
    /\ toAgent \in Seq(Agent!Messages)
    /\ utterance \in Texts \cup {NoText}

\* The agent reads a message when AgentSession has taken the events of the last.
EventsOK == events \in Seq(Agent!SpeechEvents) /\ Len(events) <= 2

\* What a message carries.
LEMMA MessageParts ==
    ASSUME NEW m \in Agent!Messages
    PROVE  /\ m.type \in {"interim", "final", "eou", "other"}
           /\ m.text \in Texts \cup {NoText}
  BY DEF Agent!Messages, Agent!Message

\* What the service says is a message the agent knows.
LEMMA SaidAreMessages ==
    /\ Service!Other \in Agent!Messages
    /\ \A text \in Texts \cup {NoText} :
           /\ Service!Message("interim", text) \in Agent!Messages
           /\ Service!Message("final", text) \in Agent!Messages
           /\ Service!Message("eou", text) \in Agent!Messages
           /\ Service!FinalFirst(text) = Service!Message("final", text)
  BY DEF Service!Other, Service!Message, Service!FinalFirst, Agent!Messages,
         Agent!Message

----------------------------------------------------------------------------
(* What the steps do to the wires                                          *)

Says(m) == toAgent' = IF link THEN Append(toAgent, m) ELSE toAgent

\* The service leaves the wires alone.
Quiet ==
    /\ UNCHANGED <<link, toService, toAgent, utterance>>
    /\ main' = "eou" <=> main = "eou"
    /\ main \in {"leaving", "done"} => main' = main

\* It reads a command, and answers.
Answers ==
    /\ toService # <<>>
    /\ toService' = Tail(toService)
    /\ Says(Service!Other)
    /\ UNCHANGED <<link, utterance>>
    /\ main' = "eou" <=> main = "eou"
    /\ main \in {"leaving", "done"} => main' = main

\* It has its last word.
GivesUp ==
    /\ main \notin {"eou", "leaving", "done"}
    /\ main' = "leaving"
    /\ Says(Service!Other)
    /\ UNCHANGED <<link, toService, utterance>>

\* Sber responds, and ends an utterance.
Responds ==
    /\ main = "session"
    /\ Len(toAgent) < MaxSays
    /\ \/ /\ main' = main
          /\ \/ \E text \in Texts : Says(Service!Message("interim", text))
             \/ UNCHANGED toAgent
          /\ UNCHANGED utterance
       \/ /\ main' = "eou"
          /\ utterance' \in Texts \cup {NoText}
          /\ Says(Service!Message("final", utterance'))
    /\ UNCHANGED <<link, toService>>

EndsUtterance ==
    /\ main = "eou"
    /\ main' = "session"
    /\ Says(Service!Message("eou", utterance))
    /\ utterance' = NoText
    /\ UNCHANGED <<link, toService>>

Leaves ==
    /\ main = "leaving"
    /\ main' = "done"
    /\ link' = FALSE
    /\ toService' = <<>>
    /\ UNCHANGED <<toAgent, utterance>>

LEMMA ServiceSteps ==
    ASSUME Service!Serve \/ Service!StartTimeout
    PROVE  Quiet \/ Answers \/ GivesUp \/ Responds \/ EndsUtterance \/ Leaves
<1> USE DEF Service!wireVars, Service!sessionVars, Service!recvVars, Service!Say,
            Says
<1>1. CASE Service!ReceiveFrame \/ Service!ReceiveDisconnect
    BY <1>1 DEF Service!ReceiveFrame, Service!ReceiveDisconnect, Quiet
<1>2. CASE Service!ReceiveStart \/ Service!ReceiveStop
    BY <1>2 DEF Service!ReceiveStart, Service!ReceiveStop, Service!Receive, Answers
<1>3. CASE Service!Iter
    BY <1>3 DEF Service!Iter, Service!IterContinues, Service!IterEnds,
                Service!IterSends, Service!IterTimesOut, Quiet
<1>4. CASE Service!Main
  <2>1. CASE Service!Wake \/ Service!OpenSession \/ Service!SessionDone
                 \/ Service!LoopAgain
      BY <2>1 DEF Service!Wake, Service!OpenSession, Service!SessionDone,
                  Service!LoopAgain, Service!DropSession, Quiet
  <2>2. CASE Service!SayEou \/ Service!Leave
      BY <2>2 DEF Service!SayEou, Service!Leave, EndsUtterance, Leaves
  <2> QED
      BY <1>4, <2>1, <2>2 DEF Service!Main
<1>5. CASE Service!StartTimeout \/ Service!SessionFails
    BY <1>5 DEF Service!StartTimeout, Service!SessionFails, Service!DropSession,
                GivesUp
<1>6. CASE Service!SberInterim \/ Service!SberEnds
    BY <1>6 DEF Service!SberInterim, Service!SberEnds, Service!Responds, Responds,
                Quiet
<1>7. ASSUME NEW text \in Texts \cup {NoText}, Service!SberEou(text)
      PROVE  Responds
  <2>1. utterance' = text /\ Service!FinalFirst(text) = Service!Message("final", text)
      BY <1>7, SaidAreMessages DEF Service!SberEou
  <2> QED
      BY <1>7, <2>1 DEF Service!SberEou, Service!Responds, Responds
<1> QED
    BY <1>1, <1>2, <1>3, <1>4, <1>5, <1>6, <1>7
    DEF Service!Serve, Service!Recv, Service!Sber

----------------------------------------------------------------------------
(* What the agent does to them                                             *)

\* A "start" is still to come.
StartDue == IF pc \in {"gate", "wait", "start", "resend", "rest"} THEN 1 ELSE 0

\* The agent leaves the wires alone; AgentSession may take an event.
Thinks ==
    /\ UNCHANGED <<link, toService, toAgent, lastFinal>>
    /\ \/ events' = events
       \/ events # <<>> /\ events' = Tail(events)
    /\ link => StartDue' <= StartDue

Starts ==
    /\ link
    /\ Len(toService) < MaxCommands
    /\ toService' = Append(toService, Agent!Start)
    /\ StartDue = 1 /\ StartDue' = 0
    /\ UNCHANGED <<link, toAgent, lastFinal, events>>

\* It takes the next message.
Hears ==
    /\ events = <<>>
    /\ toAgent # <<>>
    /\ toAgent' = Tail(toAgent)
    /\ UNCHANGED link

\* ... which is no "eou".
HearsOn ==
    /\ Hears
    /\ Head(toAgent).type # "eou"
    /\ lastFinal' = IF Head(toAgent).type = "final" /\ Head(toAgent).text # NoText
                    THEN Head(toAgent).text ELSE lastFinal
    /\ StartDue = 0 /\ StartDue' = 0
    /\ UNCHANGED toService

HearsEou ==
    /\ Hears
    /\ Head(toAgent).type = "eou"
    /\ Head(toAgent).text = NoText => lastFinal' = lastFinal
    /\ StartDue = 0 /\ StartDue' = 1
    /\ link => Len(toService) < MaxCommands
    /\ toService' = IF link THEN Append(toService, Agent!Stop) ELSE toService

HangsUp ==
    /\ link' = FALSE
    /\ toService' = <<>>
    /\ toAgent' = <<>>
    /\ UNCHANGED <<lastFinal, events>>

LEMMA AgentSteps ==
    ASSUME AgentRuns \/ Agent!Plugin
    PROVE  Thinks \/ Starts \/ HearsOn \/ HearsEou \/ HangsUp
<1> USE DEF Agent!wireVars, StartDue
<1>1. CASE Dials
    BY <1>1 DEF Dials, Agent!ConnectFails, Agent!Redial, Agent!KeepDialling, Thinks
<1>2. CASE Agent!PassGate \/ Agent!GateTimeout \/ Agent!WakeUp
               \/ Agent!StopAtTurnStart
    BY <1>2 DEF Agent!PassGate, Agent!GateTimeout, Agent!WakeUp,
                Agent!StopAtTurnStart, Agent!KeepTurn, Thinks
<1>3. CASE Agent!SendStart \/ Agent!ResendStart
    BY <1>3 DEF Agent!SendStart, Agent!ResendStart, Agent!Send, Agent!SendLost,
                Agent!KeepTurn, Thinks, Starts
<1>4. CASE Reads
  <2>1. CASE Agent!ReadOther \/ Agent!ReadInterim \/ Agent!ReadFinal
      BY <1>4, <2>1 DEF Reads, Agent!ReadOther, Agent!ReadInterim,
         Agent!ReadFinal, Agent!Reads, Agent!Receive, Agent!ReadOn, Agent!KeepTurn, HearsOn, Hears
  <2>2. CASE Agent!ReadSpeechEou \/ Agent!ReadEmptyEou
      BY <1>4, <2>2 DEF Reads, Agent!ReadSpeechEou, Agent!ReadEmptyEou,
         Agent!Reads, Agent!ReceiveThenSend, HearsEou, Hears
  <2>3. CASE Agent!Restart \/ Agent!ReadError
      BY <1>4, <2>3 DEF Reads, Agent!Restart, Agent!ReadError, Agent!Send,
         Agent!SendLost, Agent!ReadOn, Agent!KeepTurn, Thinks, Starts
  <2> QED
      BY <1>4, <2>1, <2>2, <2>3 DEF Reads, Agent!ReadLoop
<1>5. CASE Agent!Finish \/ Agent!Plugin
    BY <1>5 DEF Agent!Finish, Agent!Plugin, Agent!SetListening,
       Agent!ResetSilenceCounter, Agent!TakeEvent, Agent!EndInput,
       Agent!Cancelled, Agent!KeepTurn, Agent!streamVars, Thinks, HangsUp
<1> QED
    BY <1>1, <1>2, <1>3, <1>4, <1>5 DEF AgentRuns, StartsTurn

\* The agent has dialled, or the connection broke.
Dialled ==
    /\ link' = TRUE /\ toService' = <<>> /\ toAgent' = <<>>
    /\ main' = "wait" /\ utterance' = NoText
    /\ UNCHANGED <<lastFinal, events>>

Breaks ==
    /\ link' = FALSE /\ toService' = <<>>
    /\ \E n \in 0 .. Len(toAgent) : toAgent' = SubSeq(toAgent, 1, n)
    /\ UNCHANGED <<lastFinal, events, main, utterance>>

AgentShape == Thinks \/ Starts \/ HearsOn \/ HearsEou \/ HangsUp
ServiceShape == Quiet \/ Answers \/ GivesUp \/ Responds \/ EndsUtterance \/ Leaves

LEMMA Steps ==
    ASSUME [Next]_vars
    PROVE  \/ AgentShape /\ UNCHANGED <<main, utterance>>
           \/ ServiceShape /\ UNCHANGED <<pc, lastFinal, events>>
           \/ Dialled
           \/ Breaks
           \/ UNCHANGED <<pc, lastFinal, events, main, utterance, link, toService,
                          toAgent>>
<1>1. CASE Connect
    BY <1>1 DEF Connect, Accept, Agent!Connected, Dialled
<1>2. CASE Break
    BY <1>2 DEF Break, serviceVars, Agent!LinkBreaks, Agent!streamVars, Breaks
<1>3. CASE AgentStep
    BY <1>3, AgentSteps DEF AgentStep, serviceVars, AgentShape
<1>4. CASE ServiceStep \/ StartTimesOut
    BY <1>4, ServiceSteps
    DEF ServiceStep, StartTimesOut, agentVars, ServiceShape
<1> QED
    BY <1>1, <1>2, <1>3, <1>4 DEF Next, vars, agentVars, serviceVars

----------------------------------------------------------------------------
(* Types are kept                                                          *)

\* What the agent reads from the wire becomes at most two events.
LEMMA ReadEvents ==
    ASSUME WiresOK, EventsOK, Reads
    PROVE  EventsOK'
<1>1. \A text \in Texts : /\ Agent!Interim(text) \in Agent!SpeechEvents
                          /\ Agent!Final(text) \in Agent!SpeechEvents
                          /\ Agent!EndOfSpeech(text) \in Agent!SpeechEvents
    BY DEF Agent!Interim, Agent!Final, Agent!EndOfSpeech, Agent!Event, Agent!SpeechEvents
<1>0. ASSUME toAgent # <<>>, Head(toAgent).text # NoText
      PROVE  Head(toAgent).text \in Texts
  <2>1. Head(toAgent) \in Agent!Messages
      BY <1>0 DEF WiresOK
  <2> QED
      BY <1>0, <2>1, MessageParts
<1>2. \A s, e \in Agent!SpeechEvents :
          /\ <<>> \o <<e>> \in Seq(Agent!SpeechEvents)
          /\ Len(<<>> \o <<e>>) <= 2
          /\ <<>> \o <<s, e>> \in Seq(Agent!SpeechEvents)
          /\ Len(<<>> \o <<s, e>>) <= 2
    OBVIOUS
<1>3. CASE Agent!ReadInterim \/ Agent!ReadFinal
  <2>1. \/ events' = <<>>
        \/ \E text \in Texts : \/ events' = <<>> \o <<Agent!Interim(text)>>
                              \/ events' = <<>> \o <<Agent!Final(text)>>
      BY <1>0, <1>3 DEF Reads, Agent!ReadInterim, Agent!ReadFinal, Agent!Reads,
         Agent!Emit
  <2>2. <<>> \in Seq(Agent!SpeechEvents) /\ Len(<<>>) <= 2
      OBVIOUS
  <2> QED
      BY <1>1, <1>2, <2>1, <2>2, Zenon DEF EventsOK
<1>4. CASE Agent!ReadSpeechEou
  <2>1. \E text \in Texts :
            \/ events' = <<>> \o <<Agent!EndOfSpeech(text)>>
            \/ events' = <<>> \o <<Agent!Final(text), Agent!EndOfSpeech(text)>>
      BY <1>0, <1>4 DEF Reads, Agent!ReadSpeechEou, Agent!Reads, Agent!Emit
  <2>2. PICK text \in Texts :
            \/ events' = <<>> \o <<Agent!EndOfSpeech(text)>>
            \/ events' = <<>> \o <<Agent!Final(text), Agent!EndOfSpeech(text)>>
      BY <2>1
  <2> QED
      BY <1>1, <1>2, <2>2, Zenon DEF EventsOK
<1>5. CASE Agent!ReadOther \/ Agent!ReadEmptyEou \/ Agent!Restart \/ Agent!ReadError
    BY <1>5 DEF Agent!ReadOther, Agent!ReadEmptyEou, Agent!Restart,
                Agent!ReadError, Agent!KeepTurn, EventsOK
<1> QED
    BY <1>3, <1>4, <1>5 DEF Reads, Agent!ReadLoop

LEMMA EventsStep == WiresOK /\ EventsOK /\ [Next]_vars => EventsOK'
<1> SUFFICES ASSUME WiresOK, EventsOK, [Next]_vars PROVE EventsOK'
    OBVIOUS
<1>1. CASE UNCHANGED events
    BY <1>1 DEF EventsOK
<1>2. CASE events # <<>> /\ events' = Tail(events)
    BY <1>2 DEF EventsOK
<1>3. \/ UNCHANGED events
      \/ events # <<>> /\ events' = Tail(events)
      \/ Reads
  <2>1. CASE AgentStep
      BY <2>1 DEF AgentStep, AgentRuns, Dials, StartsTurn, Agent!ConnectFails,
         Agent!Redial, Agent!KeepDialling, Agent!PassGate, Agent!GateTimeout,
         Agent!WakeUp, Agent!StopAtTurnStart, Agent!SendStart,
         Agent!ResendStart, Agent!KeepTurn, Agent!Finish, Agent!Plugin,
         Agent!SetListening, Agent!ResetSilenceCounter, Agent!TakeEvent,
         Agent!EndInput, Agent!Cancelled, Agent!streamVars
  <2>2. CASE ~AgentStep
      BY <2>2 DEF Next, vars, agentVars, Connect, Agent!Connected, Break,
         Agent!LinkBreaks, Agent!streamVars, ServiceStep, StartTimesOut
  <2> QED
      BY <2>1, <2>2
<1> QED
    BY <1>1, <1>2, <1>3, ReadEvents

\* What the service says is added to the wire.
LEMMA SaysOK ==
    ASSUME WiresOK, NEW m \in Agent!Messages, Says(m)
    PROVE  toAgent' \in Seq(Agent!Messages)
  BY DEF WiresOK, Says

LEMMA WiresStep == WiresOK /\ [Next]_vars => WiresOK'
<1> SUFFICES ASSUME WiresOK, [Next]_vars PROVE WiresOK'
    OBVIOUS
<1>1. Agent!Start \in Agent!Commands /\ Agent!Stop \in Agent!Commands
    BY DEF Agent!Commands
<1>2. <<>> \in Seq(Agent!Commands) /\ <<>> \in Seq(Agent!Messages)
    OBVIOUS
<1>3. CASE AgentShape /\ UNCHANGED utterance
  <2>1. \/ toService' = toService
        \/ toService' = <<>>
        \/ toService' = Append(toService, Agent!Start)
        \/ toService' = Append(toService, Agent!Stop)
      BY <1>3 DEF AgentShape, Thinks, Starts, HearsOn, HearsEou, HangsUp
  <2>2. \/ toAgent' = toAgent
        \/ toAgent' = <<>>
        \/ toAgent # <<>> /\ toAgent' = Tail(toAgent)
      BY <1>3
      DEF AgentShape, Thinks, Starts, HearsOn, HearsEou, Hears, HangsUp
  <2>3. toAgent # <<>> => Tail(toAgent) \in Seq(Agent!Messages)
      BY DEF WiresOK
  <2>4. \A cmd \in Agent!Commands : Append(toService, cmd) \in Seq(Agent!Commands)
      BY DEF WiresOK
  <2>5. link' \in BOOLEAN
      BY <1>3
      DEF AgentShape, Thinks, Starts, HearsOn, HearsEou, Hears, HangsUp, WiresOK
  <2> QED
      BY <1>1, <1>2, <1>3, <2>1, <2>2, <2>3, <2>4, <2>5, Zenon DEF WiresOK
<1>4. CASE Quiet \/ Leaves
    BY <1>2, <1>4 DEF Quiet, Leaves, WiresOK
<1>5. CASE Answers \/ GivesUp \/ Responds \/ EndsUtterance
  <2>1. PICK m \in Agent!Messages : Says(m) \/ UNCHANGED toAgent
      BY <1>5, SaidAreMessages
      DEF Answers, GivesUp, Responds, EndsUtterance, WiresOK
  <2>2. toAgent' \in Seq(Agent!Messages)
      BY <2>1, SaysOK DEF WiresOK
  <2>3. /\ toService' \in Seq(Agent!Commands) /\ link' \in BOOLEAN
        /\ utterance' \in Texts \cup {NoText}
    <3>1. \/ toService' = toService
          \/ toService # <<>> /\ toService' = Tail(toService)
        BY <1>5 DEF Answers, GivesUp, Responds, EndsUtterance
    <3>2. UNCHANGED link
        BY <1>5 DEF Answers, GivesUp, Responds, EndsUtterance
    <3>3. \/ UNCHANGED utterance
          \/ utterance' \in Texts \cup {NoText}
        BY <1>5 DEF Answers, GivesUp, Responds, EndsUtterance
    <3> QED
        BY <3>1, <3>2, <3>3 DEF WiresOK
  <2> QED
      BY <2>2, <2>3 DEF WiresOK
<1>6. CASE Dialled
    BY <1>2, <1>6 DEF Dialled, WiresOK
<1>7. CASE Breaks
  <2>1. PICK n \in 0 .. Len(toAgent) : toAgent' = SubSeq(toAgent, 1, n)
      BY <1>7 DEF Breaks
  <2>2. SubSeq(toAgent, 1, n) \in Seq(Agent!Messages)
      BY <2>1, SubSeqProperties DEF WiresOK
  <2> QED
      BY <1>2, <1>7, <2>1, <2>2 DEF Breaks, WiresOK
<1>8. CASE UNCHANGED <<utterance, link, toService, toAgent>>
    BY <1>8 DEF WiresOK
<1> QED
    BY <1>3, <1>4, <1>5, <1>6, <1>7, <1>8, Steps DEF ServiceShape

----------------------------------------------------------------------------
(* Every "eou" comes after its "final"                                     *)

\* When the first n messages have been read, after last, the stream's last
\* final is the text.
MadeFinal(wire, n, last, text) ==
    \/ \E k \in 1 .. n : /\ wire[k] = Agent!Message("final", text)
                         /\ \A l \in k + 1 .. n : wire[l].type \in {"interim", "other"}
    \/ /\ last = text
       /\ \A l \in 1 .. n : wire[l].type \in {"interim", "other"}

EousAreFinal ==
    \A i \in DOMAIN toAgent :
        toAgent[i].type = "eou" /\ toAgent[i].text # NoText =>
            MadeFinal(toAgent, i - 1, lastFinal, toAgent[i].text)

\* ... also the one that _on_final is about to send.
UtteranceIsFinal ==
    link /\ main = "eou" /\ utterance # NoText =>
        MadeFinal(toAgent, Len(toAgent), lastFinal, utterance)

FinalInv == EousAreFinal /\ UtteranceIsFinal

\* Only the messages read count.
LEMMA SamePrefix ==
    ASSUME NEW wire, NEW longer, NEW n \in Nat, NEW last, NEW text,
           \A l \in 1 .. n : longer[l] = wire[l]
    PROVE  MadeFinal(wire, n, last, text) <=> MadeFinal(longer, n, last, text)
  BY DEF MadeFinal

LEMMA OtherAfter ==
    ASSUME NEW wire \in Seq(Agent!Messages), NEW last, NEW text,
           NEW m, m.type \in {"interim", "other"},
           MadeFinal(wire, Len(wire), last, text)
    PROVE  MadeFinal(Append(wire, m), Len(wire) + 1, last, text)
<1> DEFINE longer == Append(wire, m)
<1>1. /\ \A l \in 1 .. Len(wire) : longer[l] = wire[l]
      /\ longer[Len(wire) + 1] = m
      /\ Len(wire) \in Nat
    OBVIOUS
<1> HIDE DEF longer
<1> SUFFICES MadeFinal(longer, Len(wire) + 1, last, text)
    BY DEF longer
<1> QED
    BY <1>1 DEF MadeFinal

LEMMA FinalAdded ==
    ASSUME NEW wire \in Seq(Agent!Messages), NEW last, NEW text
    PROVE  MadeFinal(Append(wire, Agent!Message("final", text)), Len(wire) + 1,
                     last, text)
<1> DEFINE m == Agent!Message("final", text)
           longer == Append(wire, m)
<1>1. longer[Len(wire) + 1] = m /\ Len(wire) \in Nat
    OBVIOUS
<1> HIDE DEF longer, m
<1>2. /\ Len(wire) + 1 \in 1 .. Len(wire) + 1
      /\ (Len(wire) + 1) + 1 .. Len(wire) + 1 = {}
    BY <1>1
<1>3. MadeFinal(longer, Len(wire) + 1, last, text)
    BY <1>1, <1>2 DEF MadeFinal, m
<1> QED
    BY <1>3 DEF longer, m

\* A message leaves the wire, and is remembered if it is a final with a text.
LEMMA HeadRead ==
    ASSUME NEW wire \in Seq(Agent!Messages), wire # <<>>,
           NEW n \in 1 .. Len(wire), NEW last, NEW next, NEW text, text # NoText,
           \/ Head(wire).type = "eou"
           \/ next = IF Head(wire).type = "final" /\ Head(wire).text # NoText
                     THEN Head(wire).text ELSE last,
           MadeFinal(wire, n, last, text)
    PROVE  MadeFinal(Tail(wire), n - 1, next, text)
<1> DEFINE rest == Tail(wire)
<1>1. /\ Head(wire) = wire[1] /\ n \in Nat
      /\ \A l \in 1 .. n - 1 : rest[l] = wire[l + 1]
    OBVIOUS
<1>2. Agent!Message("final", text).type = "final" /\ Agent!Message("final", text).text = text
    BY DEF Agent!Message
<1> HIDE DEF rest
<1> SUFFICES MadeFinal(rest, n - 1, next, text)
    BY DEF rest
<1>3. CASE \E k \in 1 .. n : /\ wire[k] = Agent!Message("final", text)
                             /\ \A l \in k + 1 .. n : wire[l].type \in {"interim", "other"}
  <2>1. PICK k \in 1 .. n : /\ wire[k] = Agent!Message("final", text)
                            /\ \A l \in k + 1 .. n : wire[l].type \in {"interim", "other"}
      BY <1>3
  <2>2. CASE k = 1
    <3>1. next = text
        BY <1>1, <1>2, <2>1, <2>2
    <3>2. \A l \in 1 .. n - 1 : rest[l].type \in {"interim", "other"}
        BY <1>1, <2>1, <2>2
    <3> QED
        BY <3>1, <3>2 DEF MadeFinal
  <2>3. CASE k # 1
    <3>1. /\ k - 1 \in 1 .. n - 1 /\ rest[k - 1] = wire[k]
          /\ \A l \in (k - 1) + 1 .. n - 1 : rest[l].type \in {"interim", "other"}
      <4>1. k - 1 \in 1 .. n - 1 /\ (k - 1) + 1 = k
          BY <1>1, <2>3
      <4>2. \A l \in (k - 1) + 1 .. n - 1 : /\ l \in 1 .. n - 1
                                            /\ l + 1 \in k + 1 .. n
          BY <1>1, <2>3
      <4>3. rest[k - 1] = wire[k]
          BY <1>1, <4>1
      <4>4. \A l \in (k - 1) + 1 .. n - 1 : rest[l] = wire[l + 1]
          BY <1>1, <4>2
      <4> QED
          BY <2>1, <4>1, <4>2, <4>3, <4>4, Zenon
    <3> QED
        BY <2>1, <3>1 DEF MadeFinal
  <2> QED
      BY <2>2, <2>3
<1>4. CASE last = text /\ \A l \in 1 .. n : wire[l].type \in {"interim", "other"}
  <2>1. 1 \in 1 .. n /\ \A l \in 1 .. n - 1 : l + 1 \in 1 .. n
      OBVIOUS
  <2>2. Head(wire).type \in {"interim", "other"} /\ last = text
      BY <1>1, <1>4, <2>1
  <2>3. next = text
      BY <2>2
  <2>4. \A l \in 1 .. n - 1 : rest[l].type \in {"interim", "other"}
      BY <1>1, <1>4, <2>1, Zenon
  <2> QED
      BY <2>3, <2>4 DEF MadeFinal
<1> QED
    BY <1>3, <1>4 DEF MadeFinal

\* A message is added: if it is an "eou" with a text, its final has been.
LEMMA Added ==
    ASSUME WiresOK, EousAreFinal, NEW m \in Agent!Messages,
           toAgent' = Append(toAgent, m), UNCHANGED lastFinal,
           m.type = "eou" /\ m.text # NoText =>
               MadeFinal(toAgent, Len(toAgent), lastFinal, m.text)
    PROVE  EousAreFinal'
<1> DEFINE n == Len(toAgent)
<1>1. /\ DOMAIN toAgent = 1 .. n /\ DOMAIN toAgent' = 1 .. n + 1 /\ n \in Nat
      /\ \A l \in 1 .. n : toAgent'[l] = toAgent[l]
      /\ toAgent'[n + 1] = m
    BY DEF WiresOK
<1> HIDE DEF n
<1> SUFFICES ASSUME NEW i \in 1 .. n + 1,
                    toAgent'[i].type = "eou", toAgent'[i].text # NoText
             PROVE  MadeFinal(toAgent', i - 1, lastFinal, toAgent'[i].text)
    BY <1>1 DEF EousAreFinal
<1>2. i - 1 \in Nat /\ \A l \in 1 .. i - 1 : toAgent'[l] = toAgent[l]
    BY <1>1
<1>3. MadeFinal(toAgent, i - 1, lastFinal, toAgent'[i].text)
  <2>1. CASE i = n + 1
    <3>1. i - 1 = n /\ toAgent'[i] = m
        BY <1>1, <2>1
    <3> QED
        BY <3>1, Zenon DEF n
  <2>2. CASE i # n + 1
    <3>1. i \in 1 .. n /\ toAgent'[i] = toAgent[i]
        BY <1>1, <2>2
    <3> QED
        BY <1>1, <3>1, Zenon DEF EousAreFinal
  <2> QED
      BY <2>1, <2>2
<1> QED
    BY <1>2, <1>3, SamePrefix

\* The service says something the agent does not remember.
LEMMA SaysOther ==
    ASSUME WiresOK, FinalInv, NEW m \in Agent!Messages,
           m.type \in {"interim", "other"}, Says(m), UNCHANGED <<link, lastFinal>>,
           main' = "eou" => main = "eou" /\ UNCHANGED utterance
    PROVE  FinalInv'
<1>1. CASE ~link
    BY <1>1 DEF Says, FinalInv, EousAreFinal, UtteranceIsFinal
<1>2. CASE link
  <2>1. toAgent' = Append(toAgent, m)
      BY <1>2 DEF Says
  <2>2. EousAreFinal'
      BY <2>1, Added DEF FinalInv
  <2>3. Len(toAgent') = Len(toAgent) + 1
      BY <2>1 DEF WiresOK
  <2>4. UtteranceIsFinal'
      BY <1>2, <2>1, <2>3, OtherAfter DEF FinalInv, UtteranceIsFinal, WiresOK
  <2> QED
      BY <2>2, <2>4 DEF FinalInv
<1> QED
    BY <1>1, <1>2

\* on_final sends "final" ...
LEMMA SaysFinal ==
    ASSUME WiresOK, FinalInv, utterance' \in Texts \cup {NoText},
           Says(Service!Message("final", utterance')), UNCHANGED <<link, lastFinal>>
    PROVE  FinalInv'
<1>1. CASE ~link
    BY <1>1 DEF Says, FinalInv, EousAreFinal, UtteranceIsFinal
<1>2. CASE link
  <2> DEFINE m == Service!Message("final", utterance')
  <2>1. /\ toAgent' = Append(toAgent, m) /\ m.type = "final"
        /\ m = Agent!Message("final", utterance')
      BY <1>2 DEF Says, Service!Message, Agent!Message
  <2>2. m \in Agent!Messages
      BY SaidAreMessages
  <2> HIDE DEF m
  <2>3. EousAreFinal'
      BY <2>1, <2>2, Added DEF FinalInv
  <2>4. Len(toAgent') = Len(toAgent) + 1
      BY <2>1 DEF WiresOK
  <2>5. UtteranceIsFinal'
      BY <2>1, <2>4, FinalAdded DEF UtteranceIsFinal, WiresOK
  <2> QED
      BY <2>3, <2>5 DEF FinalInv
<1> QED
    BY <1>1, <1>2

\* ... and then "eou".
LEMMA SaysEou ==
    ASSUME WiresOK, FinalInv, EndsUtterance, UNCHANGED lastFinal
    PROVE  FinalInv'
<1>1. UtteranceIsFinal' /\ UNCHANGED link
    BY DEF EndsUtterance, UtteranceIsFinal
<1>2. CASE ~link
    BY <1>1, <1>2 DEF EndsUtterance, Says, FinalInv, EousAreFinal
<1>3. CASE link
  <2> DEFINE m == Service!Message("eou", utterance)
  <2>1. toAgent' = Append(toAgent, m) /\ m.text = utterance
      BY <1>3 DEF EndsUtterance, Says, Service!Message
  <2>2. m \in Agent!Messages
      BY SaidAreMessages DEF WiresOK
  <2>3. m.text # NoText => MadeFinal(toAgent, Len(toAgent), lastFinal, m.text)
      BY <1>3, <2>1 DEF EndsUtterance, FinalInv, UtteranceIsFinal
  <2> HIDE DEF m
  <2> QED
      BY <1>1, <2>1, <2>2, <2>3, Added DEF FinalInv
<1> QED
    BY <1>2, <1>3

\* The stream reads the next message, and remembers its text or ends the turn.
LEMMA ReadStep ==
    ASSUME WiresOK, FinalInv, HearsOn \/ HearsEou, UNCHANGED <<main, utterance>>
    PROVE  FinalInv'
<1>1. /\ toAgent # <<>> /\ toAgent' = Tail(toAgent) /\ UNCHANGED link
      /\ \/ Head(toAgent).type = "eou"
         \/ lastFinal' = IF Head(toAgent).type = "final" /\ Head(toAgent).text # NoText
                         THEN Head(toAgent).text ELSE lastFinal
    BY DEF HearsOn, HearsEou, Hears
<1>2. ASSUME NEW n \in 1 .. Len(toAgent), NEW text, text # NoText,
             MadeFinal(toAgent, n, lastFinal, text)
      PROVE  MadeFinal(toAgent', n - 1, lastFinal', text)
    BY <1>1, <1>2, HeadRead DEF WiresOK
<1>3. /\ Len(toAgent) \in 1 .. Len(toAgent) /\ Len(toAgent') = Len(toAgent) - 1
      /\ DOMAIN toAgent = 1 .. Len(toAgent) /\ DOMAIN toAgent' = 1 .. Len(toAgent) - 1
      /\ \A i \in 1 .. Len(toAgent) - 1 : toAgent'[i] = toAgent[i + 1]
    BY <1>1 DEF WiresOK
<1>4. EousAreFinal'
  <2> SUFFICES ASSUME NEW i \in 1 .. Len(toAgent) - 1,
                      toAgent'[i].type = "eou", toAgent'[i].text # NoText
               PROVE  MadeFinal(toAgent', i - 1, lastFinal', toAgent'[i].text)
      BY <1>3 DEF EousAreFinal
  <2>1. /\ i \in 1 .. Len(toAgent) /\ i + 1 \in 1 .. Len(toAgent) /\ (i + 1) - 1 = i
        /\ toAgent'[i] = toAgent[i + 1]
      BY <1>3
  <2>2. MadeFinal(toAgent, i, lastFinal, toAgent'[i].text)
    <3>1. MadeFinal(toAgent, (i + 1) - 1, lastFinal, toAgent[i + 1].text)
        BY <1>3, <2>1, Zenon DEF FinalInv, EousAreFinal
    <3> QED
        BY <2>1, <3>1, Zenon
  <2> QED
      BY <1>2, <2>1, <2>2
<1>5. UtteranceIsFinal'
    BY <1>1, <1>2, <1>3 DEF FinalInv, UtteranceIsFinal
<1> QED
    BY <1>4, <1>5 DEF FinalInv

\* Messages that had not arrived are lost: those before them are not.
LEMMA BreakStep ==
    ASSUME WiresOK, FinalInv, Breaks
    PROVE  FinalInv'
<1>1. PICK n \in 0 .. Len(toAgent) : toAgent' = SubSeq(toAgent, 1, n)
    BY DEF Breaks
<1>2. /\ DOMAIN toAgent = 1 .. Len(toAgent) /\ DOMAIN toAgent' = 1 .. n
      /\ \A l \in 1 .. n : toAgent'[l] = toAgent[l]
    BY <1>1, SubSeqProperties DEF WiresOK
<1>3. EousAreFinal'
  <2> SUFFICES ASSUME NEW i \in 1 .. n,
                      toAgent'[i].type = "eou", toAgent'[i].text # NoText
               PROVE  MadeFinal(toAgent', i - 1, lastFinal, toAgent'[i].text)
      BY <1>2 DEF EousAreFinal, Breaks
  <2>1. /\ i \in 1 .. Len(toAgent) /\ toAgent'[i] = toAgent[i]
        /\ i - 1 \in Nat /\ \A l \in 1 .. i - 1 : toAgent'[l] = toAgent[l]
      BY <1>2
  <2>2. MadeFinal(toAgent, i - 1, lastFinal, toAgent'[i].text)
      BY <1>2, <2>1, Zenon DEF FinalInv, EousAreFinal
  <2> QED
      BY <2>1, <2>2, SamePrefix
<1>4. UtteranceIsFinal'
    BY DEF Breaks, UtteranceIsFinal
<1> QED
    BY <1>3, <1>4 DEF FinalInv

LEMMA FinalStep == WiresOK /\ FinalInv /\ [Next]_vars => FinalInv'
<1> SUFFICES ASSUME WiresOK, FinalInv, [Next]_vars PROVE FinalInv'
    OBVIOUS
<1>1. ASSUME UNCHANGED <<link, lastFinal, toAgent>>,
             main' = "eou" => main = "eou" /\ UNCHANGED utterance
      PROVE  FinalInv'
    BY <1>1 DEF FinalInv, EousAreFinal, UtteranceIsFinal
<1>2. ASSUME toAgent' = <<>>, link' = FALSE \/ main' # "eou" PROVE FinalInv'
  <2>1. DOMAIN toAgent' = {}
      BY <1>2
  <2> QED
      BY <1>2, <2>1 DEF FinalInv, EousAreFinal, UtteranceIsFinal
<1>3. CASE AgentShape /\ UNCHANGED <<main, utterance>>
    BY <1>1, <1>2, <1>3, ReadStep DEF AgentShape, Thinks, Starts, HangsUp
<1>4. CASE ServiceShape /\ UNCHANGED lastFinal
  <2>1. CASE Quiet
      BY <1>1, <1>4, <2>1 DEF Quiet
  <2>5. /\ Service!Other.type = "other"
        /\ \A text : Service!Message("interim", text).type = "interim"
      BY DEF Service!Other, Service!Message
  <2>2. CASE Answers \/ GivesUp
      BY <1>4, <2>2, <2>5, SaysOther, SaidAreMessages DEF Answers, GivesUp
  <2>3. CASE Responds
      BY <1>1, <1>4, <2>3, <2>5, SaysOther, SaysFinal, SaidAreMessages DEF Responds
  <2>4. CASE Leaves
      BY <1>4, <2>4 DEF Leaves, FinalInv, EousAreFinal, UtteranceIsFinal
  <2> QED
      BY <1>4, <2>1, <2>2, <2>3, <2>4, SaysEou DEF ServiceShape
<1> QED
    BY <1>1, <1>2, <1>3, <1>4, BreakStep, Steps DEF Dialled

----------------------------------------------------------------------------
(* There is room on the wire                                               *)

Eous(wire) == {i \in DOMAIN wire : wire[i].type = "eou"}
Count(wire) == Cardinality(Eous(wire))

LEMMA CountRange ==
    ASSUME NEW wire \in Seq(Agent!Messages)
    PROVE  /\ IsFiniteSet(Eous(wire))
           /\ Count(wire) \in Nat
           /\ Count(wire) <= Len(wire)
<1>1. /\ DOMAIN wire = 1 .. Len(wire) /\ Len(wire) \in Nat
      /\ Eous(wire) \subseteq 1 .. Len(wire)
    BY DEF Eous
<1>2. IsFiniteSet(1 .. Len(wire)) /\ Cardinality(1 .. Len(wire)) = Len(wire)
  <2>1. /\ IsFiniteSet(1 .. Len(wire))
        /\ Cardinality(1 .. Len(wire))
              = IF 1 > Len(wire) THEN 0 ELSE Len(wire) - 1 + 1
      BY <1>1, FS_Interval
  <2> QED
      BY <1>1, <2>1
<1> QED
    BY <1>1, <1>2, FS_Subset, FS_CardinalityType DEF Count

LEMMA CountAppend ==
    ASSUME NEW wire \in Seq(Agent!Messages), NEW m \in Agent!Messages
    PROVE  Count(Append(wire, m))
               = Count(wire) + (IF m.type = "eou" THEN 1 ELSE 0)
<1> DEFINE longer == Append(wire, m)
           n == Len(wire)
<1>1. /\ DOMAIN wire = 1 .. n /\ DOMAIN longer = 1 .. n + 1 /\ n \in Nat
      /\ \A i \in 1 .. n : longer[i] = wire[i]
      /\ longer[n + 1] = m
    OBVIOUS
<1> HIDE DEF longer, n
<1>2. CASE m.type = "eou"
  <2>1. Eous(longer) = Eous(wire) \cup {n + 1} /\ n + 1 \notin Eous(wire)
      BY <1>1, <1>2 DEF Eous
  <2> QED
      BY <1>2, <2>1, CountRange, FS_AddElement DEF Count, longer
<1>3. CASE m.type # "eou"
  <2>1. Eous(longer) = Eous(wire)
      BY <1>1, <1>3 DEF Eous
  <2> QED
      BY <1>3, <2>1, CountRange DEF Count, longer
<1> QED
    BY <1>2, <1>3

LEMMA CountTail ==
    ASSUME NEW wire \in Seq(Agent!Messages), wire # <<>>
    PROVE  Count(Tail(wire))
               <= Count(wire) - (IF Head(wire).type = "eou" THEN 1 ELSE 0)
<1> DEFINE rest == Tail(wire)
           later == Eous(wire) \ {1}
           next == [i \in Eous(rest) |-> i + 1]
<1>1. /\ DOMAIN wire = 1 .. Len(wire) /\ DOMAIN rest = 1 .. Len(wire) - 1
      /\ \A i \in 1 .. Len(wire) - 1 : rest[i] = wire[i + 1]
      /\ Len(wire) \in Nat /\ Len(wire) >= 1 /\ wire[1] = Head(wire)
      /\ rest \in Seq(Agent!Messages)
    OBVIOUS
<1> HIDE DEF rest
<1>2. next \in Injection(Eous(rest), later)
  <2>1. \A i \in Eous(rest) : i \in Int /\ i + 1 \in later
      BY <1>1 DEF Eous
  <2> QED
      BY <2>1 DEF Injection, IsInjective
<1>3. IsFiniteSet(later) /\ Cardinality(Eous(rest)) <= Cardinality(later)
  <2>1. IsFiniteSet(later)
      BY CountRange, FS_Subset
  <2> QED
      BY <1>2, <2>1, FS_Injection
<1>4. Cardinality(later) = Count(wire) - (IF 1 \in Eous(wire) THEN 1 ELSE 0)
  <2>1. IsFiniteSet(Eous(wire)) /\ Cardinality(Eous(wire)) \in Nat
      BY CountRange DEF Count
  <2>2. Cardinality(later) = IF 1 \in Eous(wire) THEN Cardinality(Eous(wire)) - 1
                                                 ELSE Cardinality(Eous(wire))
      BY <2>1, FS_RemoveElement
  <2> QED
      BY <2>1, <2>2 DEF Count
<1>5. 1 \in Eous(wire) <=> Head(wire).type = "eou"
    BY <1>1 DEF Eous
<1> QED
    BY <1>3, <1>4, <1>5 DEF Count, rest

EouDue == IF main = "eou" THEN 2 ELSE 0
LastWord == IF main \in {"leaving", "done"} THEN 0 ELSE 1

\* What is under way or will come of it: an answer to each command, two
\* commands for each "eou", a last word.
Traffic == Len(toAgent) + Count(toAgent) + Len(toService) + StartDue + EouDue
               + LastWord

MaxTraffic == 2 * MaxSays + MaxCommands + 3

RoomInv ==
    /\ Len(toService) <= MaxCommands
    /\ ~link => toService = <<>>
    /\ link => Traffic <= MaxTraffic

\* The ranges of these numbers.
Numbers ==
    /\ Len(toAgent) \in Nat /\ Count(toAgent) \in Nat /\ Len(toService) \in Nat
    /\ Count(toAgent) <= Len(toAgent)
    /\ StartDue \in {0, 1} /\ EouDue \in {0, 2} /\ LastWord \in {0, 1}
    /\ MaxSays \in Nat /\ MaxCommands \in Nat /\ MaxTraffic \in Nat

LEMMA NumbersHold == WiresOK => Numbers
<1> SUFFICES ASSUME WiresOK PROVE Numbers
    OBVIOUS
<1>1. Len(toAgent) \in Nat /\ Len(toService) \in Nat
    BY DEF WiresOK
<1>2. Count(toAgent) \in Nat /\ Count(toAgent) <= Len(toAgent)
    BY CountRange DEF WiresOK
<1> QED
    BY <1>1, <1>2, LinkBoundsAssumption
    DEF Numbers, StartDue, EouDue, LastWord, MaxTraffic

\* The service says something on a live connection.
LEMMA SaysCount ==
    ASSUME WiresOK, NEW m \in Agent!Messages, Says(m), link
    PROVE  /\ Len(toAgent') = Len(toAgent) + 1
           /\ Count(toAgent') = Count(toAgent) + (IF m.type = "eou" THEN 1 ELSE 0)
<1>1. toAgent \in Seq(Agent!Messages) /\ toAgent' = Append(toAgent, m)
    BY DEF WiresOK, Says
<1> QED
    BY <1>1, CountAppend

LEMMA AgentRoom ==
    ASSUME WiresOK, Numbers, RoomInv, AgentShape, UNCHANGED main
    PROVE  RoomInv'
<1> USE DEF Numbers
<1>1. EouDue' = EouDue /\ LastWord' = LastWord
    BY DEF EouDue, LastWord
<1>2. /\ Len(toService) <= MaxCommands
      /\ link => Len(toAgent) + Count(toAgent) + Len(toService) + StartDue
                     + EouDue + LastWord <= MaxTraffic
    BY DEF RoomInv, Traffic
<1>3. CASE Thinks
    BY <1>3 DEF Thinks, StartDue, RoomInv, Traffic, EouDue,
           LastWord
<1>4. CASE Starts
  <2>1. Len(toService') = Len(toService) + 1
      BY <1>4 DEF Starts, WiresOK
  <2> QED
      BY <1>4, <2>1 DEF Starts, StartDue, RoomInv, Traffic, EouDue,
           LastWord
<1>5. CASE HearsOn \/ HearsEou
  <2>1. /\ toAgent # <<>> /\ toAgent' = Tail(toAgent) /\ UNCHANGED link
      BY <1>5 DEF HearsOn, HearsEou, Hears
  <2>2. Len(toAgent') = Len(toAgent) - 1 /\ toAgent' \in Seq(Agent!Messages)
      BY <2>1 DEF WiresOK
  <2>3. PICK count \in Nat :
            /\ count = Count(Tail(toAgent))
            /\ count <= Count(toAgent)
            /\ Head(toAgent).type = "eou" => count <= Count(toAgent) - 1
    <3>1. Tail(toAgent) \in Seq(Agent!Messages)
        BY <2>1 DEF WiresOK
    <3>2. Count(Tail(toAgent)) \in Nat
        BY <3>1, CountRange
    <3>3. Count(Tail(toAgent))
              <= Count(toAgent) - (IF Head(toAgent).type = "eou" THEN 1 ELSE 0)
        BY <2>1, CountTail DEF WiresOK
    <3> QED
        BY <3>2, <3>3
  <2>4. /\ count <= Count(toAgent)
        /\ Head(toAgent).type = "eou" => count <= Count(toAgent) - 1
      BY <2>3, Zenon
  <2>5. CASE HearsOn
    <3>1. toService' = toService /\ StartDue' = StartDue
        BY <2>5 DEF HearsOn, StartDue
    <3>2. link => (Len(toAgent) - 1) + count + Len(toService) + StartDue + EouDue
                      + LastWord <= MaxTraffic
        BY <1>2, <2>4
    <3>3. Traffic' = (Len(toAgent) - 1) + count + Len(toService) + StartDue
                         + EouDue + LastWord
        BY <1>1, <2>1, <2>2, <2>3, <3>1, Zenon DEF Traffic
    <3>4. link' = link
        BY <2>1
    <3> QED
        BY <3>1, <3>2, <3>3, <3>4, Zenon DEF RoomInv
  <2>6. CASE HearsEou
    <3>1. StartDue = 0 /\ StartDue' = 1 /\ Head(toAgent).type = "eou"
        BY <2>6 DEF HearsEou
    <3>2. CASE link
      <4>1. Len(toService') = Len(toService) + 1 /\ Len(toService) < MaxCommands
          BY <2>6, <3>2 DEF HearsEou, WiresOK
      <4>2. Len(toService) + 1 <= MaxCommands
          BY <4>1
      <4>3. (Len(toAgent) - 1) + count + (Len(toService) + 1) + 1 + EouDue
                + LastWord <= MaxTraffic
          BY <1>2, <2>4, <3>1, <3>2
      <4>4. Traffic' = (Len(toAgent) - 1) + count + (Len(toService) + 1) + 1
                           + EouDue + LastWord
          BY <1>1, <2>1, <2>2, <2>3, <3>1, <4>1, Zenon DEF Traffic
      <4>5. link' = link
          BY <2>1
      <4> QED
          BY <3>2, <4>1, <4>2, <4>3, <4>4, <4>5, Zenon DEF RoomInv
    <3>3. CASE ~link
        BY <2>1, <2>6, <3>3 DEF HearsEou, RoomInv
    <3> QED
        BY <3>2, <3>3
  <2> QED
      BY <1>5, <2>5, <2>6
<1>6. CASE HangsUp
    BY <1>6 DEF HangsUp, RoomInv
<1> QED
    BY <1>3, <1>4, <1>5, <1>6 DEF AgentShape

\* A service that only answers a command, or leaves the wires alone, makes no
\* traffic.
LEMMA AnswerRoom ==
    ASSUME WiresOK, Numbers, RoomInv, UNCHANGED pc, Answers
    PROVE  RoomInv'
<1> USE DEF Numbers
<1>1. link /\ link' /\ Len(toService') = Len(toService) - 1
    BY DEF Answers, WiresOK, RoomInv
<1>2. /\ Len(toAgent') = Len(toAgent) + 1
      /\ Count(toAgent') = Count(toAgent)
    BY <1>1, SaysCount, SaidAreMessages
    DEF Answers, Service!Other, Service!Message
<1>3. PICK last \in {0, 1} : last = LastWord' /\ last <= LastWord
    BY DEF Answers, LastWord
<1>4. /\ Len(toService) <= MaxCommands
      /\ Len(toAgent) + Count(toAgent) + Len(toService) + StartDue + EouDue
             + LastWord <= MaxTraffic
    BY <1>1 DEF RoomInv, Traffic
<1>5. /\ Len(toService) - 1 <= MaxCommands
      /\ (Len(toAgent) + 1) + Count(toAgent) + (Len(toService) - 1) + StartDue
             + EouDue + last <= MaxTraffic
  <2>1. last <= LastWord
      BY <1>3, Zenon
  <2>2. Len(toService) - 1 <= MaxCommands
      BY <1>4
  <2>3. (Len(toAgent) + 1) + Count(toAgent) + (Len(toService) - 1) + StartDue
            + EouDue + last <= MaxTraffic
      BY <1>4, <2>1
  <2> QED
      BY <2>2, <2>3
<1>6. UNCHANGED <<StartDue, EouDue>>
    BY DEF Answers, StartDue, EouDue
<1> QED
    BY <1>1, <1>2, <1>3, <1>5, <1>6, Zenon DEF RoomInv, Traffic

\* Sber responds only while there are few messages under way.
LEMMA ResponseRoom ==
    ASSUME WiresOK, Numbers, RoomInv, UNCHANGED <<pc, link, toService>>, link,
           Len(toAgent) < MaxSays,
           NEW m \in Agent!Messages, Says(m), m.type # "eou"
    PROVE  RoomInv'
<1> USE DEF Numbers
<1>1. Len(toAgent') = Len(toAgent) + 1 /\ Count(toAgent') = Count(toAgent)
    BY SaysCount
<1>2. PICK start \in {0, 1}, eou \in {0, 2}, last \in {0, 1} :
          StartDue' = start /\ EouDue' = eou /\ LastWord' = last
    BY DEF StartDue, EouDue, LastWord
<1>3. Len(toService) <= MaxCommands
    BY DEF RoomInv
<1>4. (Len(toAgent) + 1) + Count(toAgent) + Len(toService) + start + eou + last
          <= MaxTraffic
    BY <1>3 DEF MaxTraffic
<1> QED
    BY <1>1, <1>2, <1>4, Zenon DEF RoomInv, Traffic

LEMMA ServiceRoom ==
    ASSUME WiresOK, Numbers, RoomInv, ServiceShape, UNCHANGED pc
    PROVE  RoomInv'
<1> USE DEF Numbers, RoomInv, Traffic, StartDue
<1>1. CASE Quiet
    BY <1>1 DEF Quiet, EouDue, LastWord
<1>2. CASE GivesUp
  <2>1. link => /\ Len(toAgent') = Len(toAgent) + 1
                /\ Count(toAgent') = Count(toAgent)
      BY <1>2, SaysCount, SaidAreMessages
      DEF GivesUp, Service!Other, Service!Message
  <2> QED
      BY <1>2, <2>1 DEF GivesUp, EouDue, LastWord
<1>3. CASE Responds
  <2>1. CASE ~link
      BY <1>3, <2>1 DEF Responds
  <2>2. CASE UNCHANGED <<main, toAgent>>
      BY <1>3, <2>2 DEF Responds, EouDue, LastWord
  <2>3. /\ Service!Other.type # "eou"
        /\ \A text : /\ Service!Message("interim", text).type # "eou"
                     /\ Service!Message("final", text).type # "eou"
      BY DEF Service!Other, Service!Message
  <2> QED
      BY <1>3, <2>1, <2>2, <2>3, ResponseRoom, SaidAreMessages, Zenon DEF Responds
<1>4. CASE EndsUtterance
  <2>1. link => /\ Len(toAgent') = Len(toAgent) + 1
                /\ Count(toAgent') = Count(toAgent) + 1
      BY <1>4, SaysCount, SaidAreMessages
      DEF EndsUtterance, Service!Message, WiresOK
  <2> QED
      BY <1>4, <2>1 DEF EndsUtterance, EouDue, LastWord
<1>5. CASE Leaves
    BY <1>5 DEF Leaves
<1> QED
    BY <1>1, <1>2, <1>3, <1>4, <1>5, AnswerRoom DEF ServiceShape

LEMMA RoomStep == WiresOK /\ RoomInv /\ [Next]_vars => RoomInv'
<1> SUFFICES ASSUME WiresOK, RoomInv, [Next]_vars PROVE RoomInv'
    OBVIOUS
<1>1. CASE Dialled
  <2>1. Len(<<>>) = 0 /\ Count(<<>>) = 0
      BY FS_EmptySet DEF Count, Eous
  <2> QED
      BY <1>1, <2>1, LinkBoundsAssumption
      DEF Dialled, RoomInv, Traffic, StartDue, EouDue, LastWord, MaxTraffic
<1>2. CASE Breaks
    BY <1>2, LinkBoundsAssumption DEF Breaks, RoomInv
<1>3. CASE UNCHANGED <<pc, main, link, toService, toAgent>>
    BY <1>3 DEF RoomInv, Traffic, StartDue, EouDue, LastWord
<1> QED
    BY <1>1, <1>2, <1>3, AgentRoom, ServiceRoom, Steps, NumbersHold

----------------------------------------------------------------------------
(* The gate of the service and the place of the stream                     *)

\* On a live connection: where the stream can be, what it told the service
\* last, and that the last command is either under way or what the gate says.
GateInv ==
    link =>
        /\ pc \in {"gate", "wait", "start", "resend", "read", "rest", "finally"}
        /\ pc \in {"gate", "wait", "start", "resend", "rest"} => command # "start"
        /\ pc = "read" => command = "start"
        /\ toService = <<>> /\ gate => command = "start"
        /\ toService # <<>> => toService[Len(toService)].type = command

\* The agent tells the service what it is about to do.
LEMMA AgentGate ==
    ASSUME WiresOK, GateInv, AgentRuns \/ Agent!Plugin, UNCHANGED gate
    PROVE  GateInv'
<1> USE DEF GateInv, Agent!wireVars
<1>1. ASSUME NEW cmd, Agent!Send(cmd) \/ (link /\ Agent!ReceiveThenSend(cmd))
      PROVE  /\ toService' # <<>>
             /\ toService'[Len(toService')].type = command'
             /\ command' = cmd.type
  <2>1. toService' = Append(toService, cmd) /\ command' = cmd.type
      BY <1>1 DEF Agent!Send, Agent!ReceiveThenSend
  <2> QED
      BY <2>1 DEF WiresOK
<1>2. Agent!Start.type = "start" /\ Agent!Stop.type = "stop"
    BY DEF Agent!Start, Agent!Stop
<1>3. CASE Dials
    BY <1>3 DEF Dials, Agent!ConnectFails, Agent!Redial, Agent!KeepDialling
<1>4. CASE Agent!PassGate \/ Agent!GateTimeout \/ Agent!WakeUp
               \/ Agent!StopAtTurnStart
    BY <1>4 DEF Agent!PassGate, Agent!GateTimeout, Agent!WakeUp,
                Agent!StopAtTurnStart
<1>5. CASE Agent!SendStart \/ Agent!ResendStart
  <2>1. CASE Agent!Send(Agent!Start) /\ pc' = "read"
      BY <1>1, <1>2, <2>1
  <2>2. CASE ~link'
      BY <2>2
  <2> QED
      BY <1>5, <2>1, <2>2 DEF Agent!SendStart, Agent!ResendStart, Agent!SendLost
<1>6. CASE Reads
  <2>1. CASE Agent!ReadOther \/ Agent!ReadInterim \/ Agent!ReadFinal
      BY <2>1 DEF Agent!ReadOther, Agent!ReadInterim, Agent!ReadFinal, Agent!Reads,
         Agent!Receive, Agent!ReadOn
  <2>2. CASE Agent!ReadSpeechEou \/ Agent!ReadEmptyEou
    <3>1. /\ Agent!ReceiveThenSend(Agent!Stop) /\ UNCHANGED link
          /\ pc' \in {"gate", "rest"}
        BY <2>2 DEF Agent!ReadSpeechEou, Agent!ReadEmptyEou, Agent!ReceiveThenSend
    <3> QED
        BY <1>1, <1>2, <3>1
  <2>3. CASE Agent!Restart \/ Agent!ReadError
    <3>1. CASE Agent!Send(Agent!Start) /\ pc' \in {"read", "finally"}
        BY <1>1, <1>2, <3>1
    <3> QED
        BY <2>3, <3>1 DEF Agent!Restart, Agent!ReadError, Agent!SendLost,
           Agent!ReadOn
  <2> QED
      BY <1>6, <2>1, <2>2, <2>3 DEF Reads, Agent!ReadLoop
<1>7. CASE Agent!Finish \/ Agent!Plugin
    BY <1>7 DEF Agent!Finish, Agent!Plugin, Agent!SetListening,
       Agent!ResetSilenceCounter, Agent!TakeEvent, Agent!EndInput,
       Agent!Cancelled, Agent!streamVars
<1> QED
    BY <1>3, <1>4, <1>5, <1>6, <1>7 DEF AgentRuns, StartsTurn

\* The service does what it is told, command by command.
LEMMA ServiceGate ==
    ASSUME WiresOK, GateInv, Service!Serve \/ Service!StartTimeout,
           UNCHANGED <<pc, command>>
    PROVE  GateInv'
<1> USE DEF GateInv, Service!wireVars, Service!sessionVars, Service!recvVars
<1>1. CASE Service!ReceiveStart \/ Service!ReceiveStop
  <2>1. /\ toService # <<>> /\ toService' = Tail(toService) /\ UNCHANGED link
        /\ Service!ReceiveStart => Head(toService) = Service!Start
        /\ Service!ReceiveStop => gate' = FALSE
      BY <1>1 DEF Service!ReceiveStart, Service!ReceiveStop, Service!Receive
  <2>2. CASE toService' = <<>>
    <3>1. /\ Len(toService') = Len(toService) - 1 /\ Len(toService) \in Nat
          /\ Head(toService) = toService[1]
        BY <2>1 DEF WiresOK
    <3>2. Len(toService) = 1
        BY <2>2, <3>1
    <3>3. toService[Len(toService)] = Head(toService)
        BY <3>1, <3>2
    <3> QED
        BY <1>1, <2>1, <2>2, <3>3 DEF Service!Start
  <2>3. CASE toService' # <<>>
    <3>1. toService'[Len(toService')] = toService[Len(toService)]
        BY <2>1, <2>3 DEF WiresOK
    <3> QED
        BY <2>1, <2>3, <3>1
  <2> QED
      BY <2>2, <2>3
<1>2. ASSUME UNCHANGED <<link, toService>>, gate' => gate PROVE GateInv'
    BY <1>2
<1>3. CASE Service!ReceiveFrame \/ Service!ReceiveDisconnect
    BY <1>2, <1>3 DEF Service!ReceiveFrame, Service!ReceiveDisconnect,
       Service!CloseGate
<1>4. CASE Service!Iter
    BY <1>2, <1>4 DEF Service!Iter, Service!IterContinues, Service!IterEnds,
       Service!IterSends, Service!IterTimesOut
<1>5. CASE Service!Main
  <2>1. CASE Service!Wake \/ Service!OpenSession \/ Service!SessionDone
                 \/ Service!LoopAgain \/ Service!SayEou
      BY <1>2, <2>1 DEF Service!Wake, Service!OpenSession, Service!SessionDone,
         Service!LoopAgain, Service!SayEou
  <2>2. CASE Service!Leave
      BY <2>2 DEF Service!Leave
  <2> QED
      BY <1>5, <2>1, <2>2 DEF Service!Main
<1>6. CASE Service!Sber \/ Service!StartTimeout
    BY <1>2, <1>6 DEF Service!Sber, Service!SberInterim, Service!SberEou,
       Service!SberEnds, Service!SessionFails, Service!Responds,
       Service!StartTimeout
<1> QED
    BY <1>1, <1>3, <1>4, <1>5, <1>6 DEF Service!Serve, Service!Recv

LEMMA GateStep == WiresOK /\ GateInv /\ [Next]_vars => GateInv'
<1> SUFFICES ASSUME WiresOK, GateInv, [Next]_vars PROVE GateInv'
    OBVIOUS
<1>1. CASE Connect
    BY <1>1 DEF Connect, Accept, NewGate, Agent!Connected, GateInv
<1>2. CASE Break \/ UNCHANGED vars
    BY <1>2 DEF Break, Agent!LinkBreaks, vars, agentVars, serviceVars, GateInv
<1>3. CASE AgentStep
    BY <1>3, AgentGate DEF AgentStep, serviceVars
<1>4. CASE ServiceStep \/ StartTimesOut
    BY <1>4, ServiceGate DEF ServiceStep, StartTimesOut, agentVars
<1> QED
    BY <1>1, <1>2, <1>3, <1>4 DEF Next

----------------------------------------------------------------------------
(* The theorems                                                            *)

LinkInv == WiresOK /\ EventsOK /\ FinalInv /\ RoomInv

LEMMA InitInv == Init => LinkInv
<1> SUFFICES ASSUME Init PROVE LinkInv
    OBVIOUS
<1>1. /\ link = FALSE /\ toService = <<>> /\ toAgent = <<>> /\ events = <<>>
      /\ utterance = NoText
    BY DEF Init, Agent!Init
<1>2. /\ <<>> \in Seq(Agent!Commands) /\ <<>> \in Seq(Agent!Messages)
      /\ <<>> \in Seq(Agent!SpeechEvents) /\ Len(<<>>) = 0 /\ DOMAIN <<>> = {}
    OBVIOUS
<1>3. WiresOK /\ EventsOK
  <2>1. Len(<<>>) <= 2 /\ FALSE \in BOOLEAN
      OBVIOUS
  <2> QED
      BY <1>1, <1>2, <2>1, Zenon DEF WiresOK, EventsOK
<1>4. FinalInv
    BY <1>1, <1>2 DEF FinalInv, EousAreFinal, UtteranceIsFinal
<1>5. RoomInv
    BY <1>1, <1>2, LinkBoundsAssumption DEF RoomInv
<1> QED
    BY <1>3, <1>4, <1>5 DEF LinkInv

LEMMA LinkInvariant == Spec => []LinkInv
<1>1. LinkInv /\ [Next]_vars => LinkInv'
    BY WiresStep, EventsStep, FinalStep, RoomStep DEF LinkInv
<1> QED
    BY InitInv, <1>1, PTL DEF Spec

\* The bound of the open service is wide enough whenever this one speaks.
LEMMA RoomToSay ==
    ASSUME LinkInv, link, Answers \/ GivesUp \/ Responds \/ EndsUtterance
    PROVE  Len(toAgent) + Len(events) < MaxWire
<1>1. /\ Len(toAgent) \in Nat /\ Count(toAgent) \in Nat /\ Len(toService) \in Nat
      /\ Len(events) \in Nat /\ Len(events) <= 2
    BY NumbersHold DEF LinkInv, Numbers, EventsOK
<1>2. Len(toAgent) + 1 <= MaxTraffic
  <2>1. CASE Responds
      BY <1>1, <2>1, LinkBoundsAssumption DEF Responds, MaxTraffic
  <2>2. CASE Answers \/ GivesUp \/ EndsUtterance
    <3>1. Answers => Len(toService) >= 1
        BY DEF Answers, LinkInv, WiresOK
    <3>2. GivesUp \/ EndsUtterance => LastWord = 1
        BY DEF GivesUp, EndsUtterance, LastWord
    <3>3. Len(toAgent) + Count(toAgent) + Len(toService) + StartDue + EouDue
              + LastWord <= MaxTraffic
        BY DEF LinkInv, RoomInv, Traffic
    <3> QED
        BY <1>1, <2>2, <3>1, <3>2, <3>3, NumbersHold DEF LinkInv, Numbers
  <2> QED
      BY <2>1, <2>2
<1>3. /\ MaxSays \in Nat /\ MaxCommands \in Nat /\ MaxWire \in Nat
      /\ MaxWire > MaxTraffic + 1
    BY LinkBoundsAssumption DEF MaxTraffic
<1> QED
    BY <1>1, <1>2, <1>3 DEF MaxTraffic

\* What the service says, and reads, is a step of the open service.
LEMMA Speaks ==
    ASSUME LinkInv, link, UNCHANGED <<agentVars, link>>,
           Len(toAgent) + Len(events) < MaxWire,
           NEW m \in Agent!Messages, toAgent' = Append(toAgent, m),
           \/ UNCHANGED toService
           \/ toService # <<>> /\ toService' = Tail(toService)
    PROVE  Agent!Next
<1>1. toAgent' = toAgent \o <<m>>
    BY DEF LinkInv, WiresOK
<1>2. UNCHANGED <<Agent!streamVars, listening>>
    BY DEF agentVars, Agent!streamVars
<1>3. Agent!ServiceActs(<<m>>, FALSE) \/ Agent!ServiceActs(<<m>>, TRUE)
    BY <1>1, <1>2 DEF Agent!ServiceActs
<1> QED
    BY <1>3 DEF Agent!Next, Agent!Service, Agent!ServiceSays, Agent!ServiceReplies

LEMMA ServiceSimulates ==
    ASSUME LinkInv, ServiceShape, UNCHANGED agentVars
    PROVE  [Agent!Next]_(Agent!vars)
<1>1. ASSUME UNCHANGED <<link, toService, toAgent>>
      PROVE  UNCHANGED Agent!vars
    BY <1>1 DEF agentVars, Agent!vars, Agent!streamVars, Agent!wireVars
<1>2. CASE Quiet
    BY <1>1, <1>2 DEF Quiet
<1>3. CASE Answers \/ GivesUp \/ Responds \/ EndsUtterance
  <2>1. CASE link /\ ~ UNCHANGED toAgent
    <3>1. PICK m \in Agent!Messages : Says(m)
        BY <1>3, <2>1, SaidAreMessages
        DEF Answers, GivesUp, Responds, EndsUtterance, LinkInv, WiresOK
    <3>2. toAgent' = Append(toAgent, m)
        BY <2>1, <3>1 DEF Says
    <3>3. /\ UNCHANGED link
          /\ \/ UNCHANGED toService
             \/ toService # <<>> /\ toService' = Tail(toService)
        BY <1>3 DEF Answers, GivesUp, Responds, EndsUtterance
    <3> QED
        BY <1>3, <2>1, <3>2, <3>3, RoomToSay, Speaks
  <2>2. CASE link /\ UNCHANGED toAgent
    <3>1. \A m \in Agent!Messages : ~Says(m)
        BY <2>2 DEF Says, LinkInv, WiresOK
    <3>2. Responds /\ UNCHANGED <<link, toService>>
        BY <1>3, <3>1, SaidAreMessages
        DEF Answers, GivesUp, Responds, EndsUtterance, LinkInv, WiresOK
    <3> QED
        BY <1>1, <2>2, <3>2
  <2>3. CASE ~link
    <3>1. UNCHANGED <<link, toService, toAgent>>
        BY <1>3, <2>3
        DEF Answers, GivesUp, Responds, EndsUtterance, Says, LinkInv, RoomInv
    <3> QED
        BY <1>1, <3>1
  <2> QED
      BY <2>1, <2>2, <2>3
<1>4. CASE Leaves
  <2>1. CASE link
    <3>1. Len(toAgent) \in 0 .. Len(toAgent)
          /\ toAgent' = SubSeq(toAgent, 1, Len(toAgent))
        BY <1>4, SubSeqFull DEF Leaves, LinkInv, WiresOK
    <3>2. Agent!LinkBreaks
        BY <1>4, <2>1, <3>1
        DEF Leaves, Agent!LinkBreaks, agentVars, Agent!streamVars
    <3> QED
        BY <3>2 DEF Agent!Next
  <2>2. CASE ~link
      BY <1>1, <1>4, <2>2 DEF Leaves, LinkInv, RoomInv, WiresOK
  <2> QED
      BY <2>1, <2>2
<1> QED
    BY <1>2, <1>3, <1>4 DEF ServiceShape

\* Every step of the agent, the service and the connection is a step of the
\* agent's stream with an open service, or leaves it as it is: the service the
\* agent has does nothing SttStream does not allow for.
THEOREM ServiceFits == Spec => ServiceIsAdmissible
<1>1. Init => Agent!Init
    BY DEF Init
<1>2. LinkInv /\ [Next]_vars => [Agent!Next]_(Agent!vars)
  <2> SUFFICES ASSUME LinkInv, [Next]_vars PROVE [Agent!Next]_(Agent!vars)
      OBVIOUS
  <2>1. CASE Connect \/ Break \/ AgentStep
      BY <2>1 DEF Connect, Break, AgentStep, AgentRuns, Dials, StartsTurn, Reads,
         Agent!Next, Agent!Step, Agent!TurnStart
  <2>2. CASE ServiceStep \/ StartTimesOut
      BY <2>2, ServiceSteps, ServiceSimulates
      DEF ServiceStep, StartTimesOut, ServiceShape
  <2>3. CASE UNCHANGED vars
      BY <2>3 DEF vars, agentVars, Agent!vars, Agent!streamVars, Agent!wireVars
  <2> QED
      BY <2>1, <2>2, <2>3 DEF Next
<1> QED
    BY <1>1, <1>2, LinkInvariant, PTL DEF Spec, ServiceIsAdmissible

\* The text of an "eou" is the stream's last final when it is read, however the
\* two ends interleave and whatever a connection that breaks has lost: the
\* stream never emits a FINAL of its own with this service.
THEOREM EouComesFinal == Spec => EouAlreadyFinal
<1>1. LinkInv /\ Agent!ReadSpeechEou => Head(toAgent).text = lastFinal
  <2> SUFFICES ASSUME LinkInv, Agent!ReadSpeechEou
               PROVE  Head(toAgent).text = lastFinal
      OBVIOUS
  <2>1. /\ toAgent # <<>> /\ Head(toAgent).type = "eou"
        /\ Head(toAgent).text # NoText
      BY DEF Agent!ReadSpeechEou, Agent!Reads
  <2>2. 1 \in DOMAIN toAgent /\ Head(toAgent) = toAgent[1] /\ 1 - 1 = 0
      BY <2>1 DEF LinkInv, WiresOK
  <2>3. MadeFinal(toAgent, 0, lastFinal, Head(toAgent).text)
      BY <2>1, <2>2 DEF LinkInv, FinalInv, EousAreFinal
  <2> QED
      BY <2>3 DEF MadeFinal
<1> QED
    BY <1>1, LinkInvariant, PTL DEF Spec, EouAlreadyFinal

\* The service listens only to a stream that reads (or is being closed), once
\* the commands under way have arrived: for any number of turns, breaks and
\* connection objects, with queues and bounds of any size.
THEOREM GateIsFollowed == Spec => []GateFollowsStream
<1>1. Init => GateInv
    BY DEF Init, Agent!Init, GateInv
<1>2. WiresOK /\ GateInv /\ [Next]_vars => GateInv'
    BY GateStep
<1>3. LinkInv => WiresOK
    BY DEF LinkInv
<1>4. GateInv => GateFollowsStream
    BY DEF GateInv, GateFollowsStream
<1> QED
    BY <1>1, <1>2, <1>3, <1>4, LinkInvariant, PTL DEF Spec
====

--------------------------- MODULE SttStreamProofs ---------------------------
(***************************************************************************)
(* What holds of the agent's STT stream with any service, any agent and    *)
(* any connection, for every set of transcripts and every bound.           *)
(***************************************************************************)
EXTENDS SttStream, SequenceTheorems, TLAPS

\* NextDelay stays within the range of the delays.
LEMMA DelayRange ==
    ASSUME backoff \in RetryBase .. RetryMax
    PROVE  NextDelay \in RetryBase .. RetryMax
  BY DEF NextDelay, RetryBase, RetryMax

\* The variables of _run that are no sequence.
ScalarsOK ==
    /\ pc \in Places
    /\ backoff \in RetryBase .. RetryMax
    /\ hasSeenEou \in BOOLEAN
    /\ lastFinal \in Texts \cup {NoText}
    /\ silenceCounter \in 0 .. MaxSilences
    /\ listening \in BOOLEAN
    /\ inputOpen \in BOOLEAN
    /\ link \in BOOLEAN
    /\ command \in {"none", "start", "stop"}

WiresOK == toService \in Seq(Commands) /\ toAgent \in Seq(Messages)

EventsOK == events \in Seq(SpeechEvents)

\* TypeOK in three parts, which different steps disturb.
LEMMA TypeParts == TypeOK <=> ScalarsOK /\ WiresOK /\ EventsOK
  BY DEF TypeOK, ScalarsOK, WiresOK, EventsOK

\* The text of the message at the head of the wire.
LEMMA HeadText ==
    ASSUME toAgent \in Seq(Messages), toAgent # <<>>
    PROVE  /\ Head(toAgent) \in Messages
           /\ Head(toAgent).text \in Texts \cup {NoText}
<1>1. Head(toAgent) \in Messages
    OBVIOUS
<1> QED
    BY <1>1 DEF Messages, Message

\* A counter that starts over is in its range.
LEMMA NoSilences == 0 \in 0 .. MaxSilences
  BY MaxSilencesAssumption

\* Every step of the stream or around it keeps the scalars' types.
LEMMA ScalarsStep == TypeOK /\ [Next]_vars => ScalarsOK'
<1> SUFFICES ASSUME TypeOK, [Next]_vars PROVE ScalarsOK'
    OBVIOUS
<1>0. ScalarsOK /\ WiresOK
    BY TypeParts
<1> USE <1>0 DEF ScalarsOK, Places, Dialling
<1>1. CASE TurnStart
  <2>1. CASE Connected
    BY <2>1 DEF Connected, RetryBase, RetryMax
  <2>2. CASE ConnectFails
    BY <2>2 DEF ConnectFails, KeepDialling, wireVars
  <2>3. CASE Redial
    BY <2>3, DelayRange DEF Redial, KeepDialling, wireVars
  <2>4. CASE PassGate \/ GateTimeout \/ WakeUp \/ StopAtTurnStart
    BY <2>4 DEF PassGate, GateTimeout, WakeUp, StopAtTurnStart, KeepTurn,
                wireVars
  <2>5. CASE SendStart \/ ResendStart
    BY <2>5 DEF SendStart, ResendStart, Send, SendLost, Start, KeepTurn,
                wireVars
  <2> QED
    BY <1>1, <2>1, <2>2, <2>3, <2>4, <2>5 DEF TurnStart
<1>2. CASE ReadLoop
  <2>1. CASE ReadOther
    BY <2>1 DEF ReadOther, Receive, ReadOn, KeepTurn
  <2>7. CASE ReadInterim
    BY <2>7 DEF ReadInterim, Receive, ReadOn
  <2>2. CASE ReadFinal
    BY <2>2, HeadText DEF ReadFinal, Reads, Receive, ReadOn, Emit,
                          WiresOK
  <2>3. CASE ReadSpeechEou
    <3>1. /\ pc' = "gate" /\ hasSeenEou' = TRUE
          /\ lastFinal' = NoText /\ silenceCounter' = 0
          /\ UNCHANGED <<backoff, listening, inputOpen, link>>
          /\ command' = IF link THEN "stop" ELSE command
      BY <2>3 DEF ReadSpeechEou, ReceiveThenSend, ForgetFinal, Stop
    <3> QED
      BY <3>1, NoSilences
  <2>4. CASE ReadEmptyEou
    BY <2>4, MaxSilencesAssumption
       DEF ReadEmptyEou, ReceiveThenSend, Stop
  <2>5. CASE Restart
    BY <2>5 DEF Restart, Send, SendLost, Start, ReadOn, KeepTurn,
                wireVars
  <2>6. CASE ReadError
    BY <2>6 DEF ReadError, KeepTurn, wireVars
  <2> QED
    BY <1>2, <2>1, <2>2, <2>3, <2>4, <2>5, <2>6, <2>7 DEF ReadLoop
<1>3. CASE Finish \/ Plugin
  <2>1. CASE Finish \/ TakeEvent \/ EndInput \/ Cancelled
    BY <2>1 DEF Finish, TakeEvent, EndInput, Cancelled, KeepTurn,
                wireVars
  <2>2. CASE ResetSilenceCounter
    BY <2>2, NoSilences DEF ResetSilenceCounter, wireVars
  <2>3. ASSUME NEW value \in BOOLEAN, SetListening(value) PROVE ScalarsOK'
    BY <2>3 DEF SetListening, streamVars, wireVars
  <2> QED
    BY <1>3, <2>1, <2>2, <2>3 DEF Plugin
<1>4. CASE LinkBreaks \/ Service \/ UNCHANGED vars
    BY <1>4 DEF LinkBreaks, Service, ServiceSays, ServiceReads, ServiceReplies,
                ServiceActs, vars, streamVars, wireVars
<1> QED
    BY <1>1, <1>2, <1>3, <1>4 DEF Next, Step

\* The two wires carry commands one way and messages the other.
LEMMA WiresStep == WiresOK /\ [Next]_vars => WiresOK'
<1> SUFFICES ASSUME WiresOK, [Next]_vars PROVE WiresOK'
    OBVIOUS
<1> USE DEF WiresOK
<1>1. Start \in Commands /\ Stop \in Commands
    BY DEF Commands
<1>0. <<>> \in Seq(Commands) /\ <<>> \in Seq(Messages)
    OBVIOUS
<1>2. CASE TurnStart
  <2>1. CASE Connected
    <3>1. toService' = <<>> /\ toAgent' = <<>>
      BY <2>1 DEF Connected
    <3> QED
      BY <1>0, <3>1, Zenon
  <2>2. CASE SendStart \/ ResendStart
    <3>1. toAgent' = toAgent
      BY <2>2 DEF SendStart, ResendStart, Send, SendLost, wireVars
    <3>2. toService' = Append(toService, Start) \/ toService' = toService
      BY <2>2 DEF SendStart, ResendStart, Send, SendLost, wireVars
    <3> QED
      BY <1>1, <3>1, <3>2
  <2>3. CASE ConnectFails \/ Redial \/ PassGate \/ GateTimeout \/ WakeUp
                 \/ StopAtTurnStart
    BY <2>3 DEF ConnectFails, Redial, PassGate, GateTimeout, WakeUp,
                StopAtTurnStart, KeepDialling, wireVars
  <2> QED
    BY <1>2, <2>1, <2>2, <2>3 DEF TurnStart
<1>3. CASE ReadLoop
  <2>1. toAgent # <<>> => Tail(toAgent) \in Seq(Messages)
    OBVIOUS
  <2>2. CASE ReadOther \/ ReadInterim \/ ReadFinal
    BY <2>1, <2>2 DEF ReadOther, ReadInterim, ReadFinal, Reads, Receive
  <2>3. CASE ReadSpeechEou \/ ReadEmptyEou
    <3>1. toAgent # <<>> /\ ReceiveThenSend(Stop)
      BY <2>3 DEF ReadSpeechEou, ReadEmptyEou, Reads
    <3> QED
      BY <1>1, <2>1, <3>1 DEF ReceiveThenSend
  <2>4. CASE Restart \/ ReadError
    <3>1. toAgent' = toAgent
      BY <2>4 DEF Restart, ReadError, Send, SendLost, wireVars
    <3>2. toService' = Append(toService, Start) \/ toService' = toService
      BY <2>4 DEF Restart, ReadError, Send, SendLost, wireVars
    <3> QED
      BY <1>1, <3>1, <3>2
  <2> QED
    BY <1>3, <2>2, <2>3, <2>4 DEF ReadLoop
<1>4. CASE Finish \/ Plugin
    BY <1>0, <1>4 DEF Finish, Plugin, SetListening, ResetSilenceCounter, TakeEvent,
                EndInput, Cancelled, wireVars
<1>5. CASE LinkBreaks
  <2>1. PICK n \in 0 .. Len(toAgent) : toAgent' = SubSeq(toAgent, 1, n)
    BY <1>5 DEF LinkBreaks
  <2>2. SubSeq(toAgent, 1, n) \in Seq(Messages)
    BY <2>1, SubSeqProperties
  <2> QED
    BY <1>5, <2>1, <2>2 DEF LinkBreaks
<1>6. CASE Service
  <2>1. ASSUME NEW m \in Messages PROVE toAgent \o <<m>> \in Seq(Messages)
    BY <2>1
  <2>2. toAgent \o <<>> \in Seq(Messages)
    OBVIOUS
  <2>3. toService # <<>> => Tail(toService) \in Seq(Commands)
    OBVIOUS
  <2> QED
    BY <1>6, <2>1, <2>2, <2>3 DEF Service, ServiceSays, ServiceReads,
       ServiceReplies, ServiceActs
<1>7. CASE UNCHANGED vars
    BY <1>7 DEF vars, wireVars
<1> QED
    BY <1>2, <1>3, <1>4, <1>5, <1>6, <1>7 DEF Next, Step

\* Events leave the channel one by one, and three steps add to it.
LEMMA EventsFrame ==
    [Next]_vars =>
        \/ UNCHANGED <<events, shown, lastFinal>>
        \/ events # <<>> /\ events' = Tail(events) /\ UNCHANGED <<shown, lastFinal>>
        \/ ReadInterim /\ Head(toAgent).text # NoText
        \/ ReadFinal /\ Head(toAgent).text # NoText
        \/ ReadSpeechEou
<1> SUFFICES ASSUME [Next]_vars,
                    ~(ReadInterim /\ Head(toAgent).text # NoText),
                    ~(ReadFinal /\ Head(toAgent).text # NoText), ~ReadSpeechEou
             PROVE  \/ UNCHANGED <<events, shown, lastFinal>>
                    \/ /\ events # <<>> /\ events' = Tail(events)
                       /\ UNCHANGED <<shown, lastFinal>>
    OBVIOUS
<1>1. CASE TurnStart
    BY <1>1 DEF TurnStart, Connected, ConnectFails, Redial, PassGate,
       GateTimeout, WakeUp, StopAtTurnStart, SendStart, ResendStart,
       KeepDialling, KeepTurn
<1>2. CASE ReadLoop
    BY <1>2 DEF ReadLoop, ReadOther, ReadInterim, ReadFinal, ReadEmptyEou,
                Restart, ReadError, KeepTurn
<1>3. CASE Finish \/ Plugin
    BY <1>3 DEF Finish, Plugin, SetListening, ResetSilenceCounter, TakeEvent,
                EndInput, Cancelled, KeepTurn, streamVars
<1>4. CASE LinkBreaks \/ Service \/ UNCHANGED vars
    BY <1>4 DEF LinkBreaks, Service, ServiceSays, ServiceReads, ServiceReplies,
                ServiceActs, vars, streamVars
<1> QED
    BY <1>1, <1>2, <1>3, <1>4 DEF Next, Step

\* An interim is passed on, and nothing else changes.
LEMMA InterimPassed ==
    ASSUME WiresOK, ReadInterim, Head(toAgent).text # NoText
    PROVE  \E text \in Texts : /\ events' = Append(events, Interim(text))
                               /\ UNCHANGED <<shown, lastFinal>>
<1>1. Head(toAgent).text \in Texts
    BY HeadText DEF ReadInterim, Reads, WiresOK
<1> QED
    BY <1>1 DEF ReadInterim

\* What the other two steps emit.
LEMMA Emitted ==
    ASSUME WiresOK
    PROVE  /\ ReadFinal /\ Head(toAgent).text # NoText =>
                \E text \in Texts :
                    /\ Emit(<<Final(text)>>)
                    /\ lastFinal' = text
           /\ ReadSpeechEou =>
                \E text \in Texts :
                    /\ Emit(IF text = lastFinal
                            THEN <<EndOfSpeech(text)>>
                            ELSE <<Final(text), EndOfSpeech(text)>>)
                    /\ lastFinal' = NoText
<1>1. ASSUME ReadFinal, Head(toAgent).text # NoText
      PROVE  \E text \in Texts : /\ Emit(<<Final(text)>>)
                                 /\ lastFinal' = text
  <2>1. Head(toAgent).text \in Texts
    BY <1>1, HeadText DEF ReadFinal, Reads, WiresOK
  <2>2. /\ Emit(<<Final(Head(toAgent).text)>>)
        /\ lastFinal' = Head(toAgent).text
    BY <1>1 DEF ReadFinal
  <2> QED
    BY <2>1, <2>2
<1>2. ASSUME ReadSpeechEou
      PROVE  \E text \in Texts : /\ Emit(IF text = lastFinal
                                         THEN <<EndOfSpeech(text)>>
                                         ELSE <<Final(text), EndOfSpeech(text)>>)
                                 /\ lastFinal' = NoText
  <2>1. Head(toAgent).text \in Texts
    BY <1>2, HeadText DEF ReadSpeechEou, Reads, WiresOK
  <2> DEFINE text == Head(toAgent).text
  <2>2. /\ Emit(IF text = lastFinal
                THEN <<EndOfSpeech(text)>>
                ELSE <<Final(text), EndOfSpeech(text)>>)
        /\ lastFinal' = NoText
    BY <1>2 DEF ReadSpeechEou, Finalised, ForgetFinal
  <2> QED
    BY <2>1, <2>2
<1> QED
    BY <1>1, <1>2

\* The events on the channel carry transcripts.
LEMMA EventsStep == WiresOK /\ EventsOK /\ [Next]_vars => EventsOK'
<1> SUFFICES ASSUME WiresOK, EventsOK, [Next]_vars PROVE EventsOK'
    OBVIOUS
<1>1. ASSUME NEW text \in Texts
      PROVE  /\ Interim(text) \in SpeechEvents
             /\ Final(text) \in SpeechEvents
             /\ EndOfSpeech(text) \in SpeechEvents
    BY DEF SpeechEvents, Interim, Final, EndOfSpeech, Event
<1>2. CASE UNCHANGED <<events, shown, lastFinal>>
    BY <1>2 DEF EventsOK
<1>3. CASE events # <<>> /\ events' = Tail(events)
    BY <1>3 DEF EventsOK
<1>6. CASE ReadInterim /\ Head(toAgent).text # NoText
    BY <1>1, <1>6, InterimPassed DEF EventsOK
<1>4. CASE ReadFinal /\ Head(toAgent).text # NoText
  <2>1. PICK text \in Texts : Emit(<<Final(text)>>)
    BY <1>4, Emitted
  <2> QED
    BY <1>1, <2>1 DEF Emit, EventsOK
<1>5. CASE ReadSpeechEou
  <2>1. PICK text \in Texts : Emit(IF text = lastFinal
                                   THEN <<EndOfSpeech(text)>>
                                   ELSE <<Final(text), EndOfSpeech(text)>>)
    BY <1>5, Emitted
  <2> QED
    BY <1>1, <2>1 DEF Emit, EventsOK
<1> QED
    BY <1>2, <1>3, <1>4, <1>5, <1>6, EventsFrame

\* Every variable keeps its type: the delay its bounds, the wires their
\* messages, the events their transcripts, for every set of transcripts and
\* every bound.
THEOREM TypeCorrect == Spec => []TypeOK
<1>1. ASSUME Init PROVE TypeOK
  <2>1. ScalarsOK
    <3>1. RetryBase \in RetryBase .. RetryMax
      BY DEF RetryBase, RetryMax
    <3> QED
      BY <1>1, <3>1, NoSilences, Zenon DEF Init, ScalarsOK, Places, Dialling
  <2>2. WiresOK /\ EventsOK
    BY <1>1 DEF Init, WiresOK, EventsOK
  <2> QED
    BY <2>1, <2>2, TypeParts
<1>2. TypeOK /\ [Next]_vars => TypeOK'
  <2>1. TypeOK' <=> ScalarsOK' /\ WiresOK' /\ EventsOK'
    BY DEF TypeOK, ScalarsOK, WiresOK, EventsOK
  <2> QED
    BY <2>1, TypeParts, ScalarsStep, WiresStep, EventsStep
<1> QED
    BY <1>1, <1>2, PTL DEF Spec

\* Every step keeps what the last command told the service in line with what
\* the stream is doing.
LEMMA ToldStep == ServiceToldRight /\ [Next]_vars => ServiceToldRight'
<1> SUFFICES ASSUME ServiceToldRight, [Next]_vars PROVE ServiceToldRight'
    OBVIOUS
<1> USE DEF ServiceToldRight
<1>1. CASE TurnStart
    BY <1>1 DEF TurnStart, Connected, ConnectFails, Redial, PassGate,
       GateTimeout, WakeUp, StopAtTurnStart, SendStart, ResendStart, Send,
       SendLost, Start, KeepDialling, wireVars
<1>2. CASE ReadLoop
    BY <1>2 DEF ReadLoop, ReadOther, ReadInterim, ReadFinal, ReadSpeechEou,
       ReadEmptyEou, Restart, ReadError, Reads, Receive, ReceiveThenSend, ReadOn, Send,
       SendLost, Start, Stop, wireVars
<1>3. CASE Finish \/ Plugin
    BY <1>3 DEF Finish, Plugin, SetListening, ResetSilenceCounter, TakeEvent,
                EndInput, Cancelled, wireVars, streamVars
<1>4. CASE LinkBreaks \/ Service \/ UNCHANGED vars
    BY <1>4 DEF LinkBreaks, Service, ServiceSays, ServiceReads, ServiceReplies,
                ServiceActs, vars, streamVars, wireVars
<1> QED
    BY <1>1, <1>2, <1>3, <1>4 DEF Next, Step

\* On a live connection the stream reads only from a service it has told to
\* start, and waits for the next turn only after a stop, with any service and
\* however often the connection breaks.
THEOREM ToldRight == Spec => []ServiceToldRight
<1>1. Init => ServiceToldRight
    BY DEF Init, ServiceToldRight
<1> QED
    BY <1>1, ToldStep, PTL DEF Spec

\* The tail of a concatenation is what was appended.
LEMMA NewPart ==
    ASSUME NEW S, NEW old \in Seq(S), NEW new \in Seq(S), new # <<>>
    PROVE  SubSeq(old \o new, Len(old) + 1, Len(old \o new)) = new
<1>1. Len(old \o new) = Len(old) + Len(new) /\ Len(new) > 0
    OBVIOUS
<1>2. /\ Len(old) + 1 \in Len(old) + 1 .. Len(old) + Len(new)
      /\ Len(old) + Len(new) \in Len(old) + 1 .. Len(old) + Len(new)
    BY <1>1
<1>3. SubSeq(old \o new, Len(old) + 1, Len(old) + Len(new))
          = SubSeq(new, Len(old) + 1 - Len(old), Len(old) + Len(new) - Len(old))
    BY <1>2, SubSeqOfConcat2
<1>4. Len(old) + 1 - Len(old) = 1 /\ Len(old) + Len(new) - Len(old) = Len(new)
    OBVIOUS
<1> QED
    BY <1>1, <1>3, <1>4, SubSeqFull

\* What a step adds to the channel.
LEMMA AddedEvents ==
    ASSUME EventsOK, NEW new \in Seq(SpeechEvents), new # <<>>, Emit(new)
    PROVE  NewEvents = new
  BY NewPart DEF Emit, NewEvents, EventsOK

\* A step that adds nothing to the channel has no new events.
LEMMA NothingAdded ==
    ASSUME EventsOK,
           events' = events \/ (events # <<>> /\ events' = Tail(events))
    PROVE  NewEvents = <<>>
<1>1. Len(events') \in Int /\ Len(events) + 1 \in Int
      /\ Len(events') < Len(events) + 1
    BY DEF EventsOK
<1> QED
    BY <1>1, SubSeqEmpty DEF NewEvents

\* The transcript that is final in this turn is the one shown last, and a FINAL
\* shown last is this turn's.
FinalShown == \A text \in Texts : (lastFinal = text) <=> (shown = Final(text))

StreamInv == TypeOK /\ FinalShown

\* Every step keeps it: what is remembered of a turn was shown last.
LEMMA FinalStep == TypeOK /\ FinalShown /\ [Next]_vars => FinalShown'
<1> SUFFICES ASSUME TypeOK, FinalShown, [Next]_vars PROVE FinalShown'
    OBVIOUS
<1>0. WiresOK
    BY TypeParts
<1>1. CASE UNCHANGED <<shown, lastFinal>>
    BY <1>1 DEF FinalShown
<1>4. CASE ReadInterim /\ Head(toAgent).text # NoText
    BY <1>0, <1>1, <1>4, InterimPassed
<1>2. CASE ReadFinal /\ Head(toAgent).text # NoText
  <2>1. PICK text \in Texts : Emit(<<Final(text)>>) /\ lastFinal' = text
    BY <1>0, <1>2, Emitted
  <2>2. shown' = Final(text)
    BY <2>1 DEF Emit
  <2> QED
    BY <2>1, <2>2 DEF FinalShown, Final, Event
<1>3. CASE ReadSpeechEou
  <2>1. PICK text \in Texts :
            /\ Emit(IF text = lastFinal
                    THEN <<EndOfSpeech(text)>>
                    ELSE <<Final(text), EndOfSpeech(text)>>)
            /\ lastFinal' = NoText
    BY <1>0, <1>3, Emitted
  <2>2. shown' = EndOfSpeech(text)
    BY <2>1 DEF Emit
  <2> QED
    BY <2>1, <2>2, NoTextAssumption DEF FinalShown, Final, EndOfSpeech, Event
<1> QED
    BY <1>1, <1>2, <1>3, <1>4, EventsFrame

\* StreamInv holds in every state.
LEMMA StreamInvariance == Spec => []StreamInv
<1>1. Init => FinalShown
    BY NoTextAssumption DEF Init, FinalShown, Final, Event
<1> QED
    BY <1>1, TypeCorrect, FinalStep, PTL DEF Spec, StreamInv

\* A step's new events, if it has any, report an interim or a final, or end an
\* open turn.
LEMMA NewEventsCases ==
    ASSUME StreamInv, [Next]_vars
    PROVE  \/ NewEvents = <<>>
           \/ \E text \in Texts :
                \/ NewEvents = <<Interim(text)>>
                \/ NewEvents = <<Final(text)>>
                \/ NewEvents = <<EndOfSpeech(text)>> /\ shown = Final(text)
                \/ /\ NewEvents = <<Final(text), EndOfSpeech(text)>>
                   /\ shown # Final(text)
<1>0. WiresOK /\ EventsOK
    BY TypeParts DEF StreamInv
<1>1. ASSUME NEW text \in Texts
      PROVE  /\ <<Interim(text)>> \in Seq(SpeechEvents)
             /\ <<Final(text)>> \in Seq(SpeechEvents)
             /\ <<EndOfSpeech(text)>> \in Seq(SpeechEvents)
             /\ <<Final(text), EndOfSpeech(text)>> \in Seq(SpeechEvents)
    BY DEF SpeechEvents, Interim, Final, EndOfSpeech, Event
<1>2. CASE \/ UNCHANGED <<events, shown, lastFinal>>
           \/ events # <<>> /\ events' = Tail(events)
    BY <1>0, <1>2, NothingAdded
<1>5. CASE ReadInterim /\ Head(toAgent).text # NoText
  <2>1. PICK text \in Texts : events' = Append(events, Interim(text))
    BY <1>0, <1>5, InterimPassed
  <2>2. events' = events \o <<Interim(text)>>
    BY <1>0, <2>1 DEF EventsOK
  <2> QED
    BY <1>0, <1>1, <2>2, NewPart DEF NewEvents, EventsOK
<1>3. CASE ReadFinal /\ Head(toAgent).text # NoText
  <2>1. PICK text \in Texts : Emit(<<Final(text)>>)
    BY <1>0, <1>3, Emitted
  <2> QED
    BY <1>0, <1>1, <2>1, AddedEvents
<1>4. CASE ReadSpeechEou
  <2>1. PICK text \in Texts : Emit(IF text = lastFinal
                                   THEN <<EndOfSpeech(text)>>
                                   ELSE <<Final(text), EndOfSpeech(text)>>)
    BY <1>0, <1>4, Emitted
  <2>2. CASE text = lastFinal
    <3>1. shown = Final(text)
      BY <2>2 DEF StreamInv, FinalShown
    <3>2. NewEvents = <<EndOfSpeech(text)>>
      BY <1>0, <1>1, <2>1, <2>2, AddedEvents
    <3> QED
      BY <3>1, <3>2
  <2>3. CASE text # lastFinal
    <3>1. NewEvents = <<Final(text), EndOfSpeech(text)>>
      BY <1>0, <1>1, <2>1, <2>3, AddedEvents
    <3>2. shown # Final(text)
      BY <2>3 DEF StreamInv, FinalShown
    <3> QED
      BY <3>1, <3>2
  <2> QED
    BY <2>2, <2>3
<1> QED
    BY <1>2, <1>3, <1>4, <1>5, EventsFrame

\* AgentSession gets END_OF_SPEECH only after the FINAL with its text, with
\* nothing but interims in between, whatever the service sends and however it
\* orders "interim", "final" and "eou".
THEOREM EosAfterFinal == Spec => EosFollowsFinal
<1>1. StreamInv /\ [Next]_vars =>
        [\A i \in DOMAIN NewEvents :
            NewEvents[i].type = "END_OF_SPEECH" =>
                (IF i = 1 THEN shown ELSE NewEvents[i - 1])
                    = Final(NewEvents[i].text)]_vars
  <2> SUFFICES ASSUME StreamInv, [Next]_vars, NEW i \in DOMAIN NewEvents,
                      NewEvents[i].type = "END_OF_SPEECH"
               PROVE  (IF i = 1 THEN shown ELSE NewEvents[i - 1])
                          = Final(NewEvents[i].text)
    OBVIOUS
  <2>1. ASSUME NEW text \in Texts,
               NewEvents = <<Interim(text)>> \/ NewEvents = <<Final(text)>>
        PROVE  FALSE
    BY <2>1 DEF Interim, Final, Event
  <2>2. ASSUME NEW text \in Texts, NewEvents = <<EndOfSpeech(text)>>,
               shown = Final(text)
        PROVE  (IF i = 1 THEN shown ELSE NewEvents[i - 1])
                   = Final(NewEvents[i].text)
    BY <2>2 DEF EndOfSpeech, Event
  <2>3. ASSUME NEW text \in Texts,
               NewEvents = <<Final(text), EndOfSpeech(text)>>
        PROVE  (IF i = 1 THEN shown ELSE NewEvents[i - 1])
                   = Final(NewEvents[i].text)
    BY <2>3 DEF Final, EndOfSpeech, Event
  <2> QED
    BY <2>1, <2>2, <2>3, NewEventsCases
<1> QED
    BY <1>1, StreamInvariance, PTL DEF Spec, EosFollowsFinal

\* The FINAL an eou adds never repeats the last one, with nothing but interims
\* in between.
THEOREM NoFinalTwice == Spec => NoDuplicateFinal
<1>1. StreamInv /\ [Next]_vars =>
        [Len(NewEvents) = 2 => NewEvents[1] # shown]_vars
  <2> SUFFICES ASSUME StreamInv, [Next]_vars, Len(NewEvents) = 2
               PROVE  NewEvents[1] # shown
    OBVIOUS
  <2>1. ASSUME NEW text \in Texts,
               NewEvents = <<Final(text), EndOfSpeech(text)>>,
               shown # Final(text)
        PROVE  NewEvents[1] # shown
    BY <2>1
  <2>2. ASSUME NEW text \in Texts,
               \/ NewEvents = <<Interim(text)>>
               \/ NewEvents = <<Final(text)>>
               \/ NewEvents = <<EndOfSpeech(text)>>
        PROVE  FALSE
    BY <2>2
  <2>3. NewEvents # <<>>
    OBVIOUS
  <2> QED
    BY <2>1, <2>2, <2>3, NewEventsCases
<1> QED
    BY <1>1, StreamInvariance, PTL DEF Spec, NoDuplicateFinal
=============================================================================

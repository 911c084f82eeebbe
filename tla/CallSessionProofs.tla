------------------------- MODULE CallSessionProofs -------------------------
(***************************************************************************)
(* What holds of a call for every set of transcripts and handler tasks,    *)
(* every SilenceMax and EarlyMax, and every bound.                         *)
(*                                                                         *)
(* The properties of the silence handling are not inductive one by one.    *)
(* They share the inductive invariant IInv: the types, the lock, the gate, *)
(* the cap, and where the AgentSession is while run() is at each place.    *)
(***************************************************************************)
EXTENDS CallSession, TLAPS

\* No handler runs without a live session.
NoSessionNoHandlers ==
    session # "live" => spawned = <<>> /\ silenceLock = Free

\* Before session.start nothing has happened.
BeforeStart ==
    /\ run \in {"connecting", "greeting"} => session = "none"
    /\ session = "none" => earlyCloseCount = 0 /\ agentState = "initializing"

\* session.aclose() comes before the plugins.
AfterClose == run \in {"plugins", "ended"} => session # "live"

IInv ==
    /\ TypeOK
    /\ LockHeldByPhrase
    /\ NeverDeaf
    /\ EarlyCapEndsCall
    /\ NoSessionNoHandlers
    /\ BeforeStart
    /\ AfterClose

\* Bump stays in its range, grows by at most one, and is monotone.
LEMMA BumpFacts ==
    ASSUME NEW n \in 0 .. SilenceMax
    PROVE  /\ Bump(n) \in 1 .. SilenceMax
           /\ n <= Bump(n)
           /\ \A m \in 0 .. SilenceMax : m <= n => Bump(m) <= Bump(n)
  BY SilenceMaxAssumption DEF Bump

USE DEF SetUp, TearDown, AgentStates, Phases

\* The states run() starts in satisfy the invariant.
LEMMA InitInv == Init => IInv
<1> SUFFICES ASSUME Init PROVE IInv
    OBVIOUS
<1>1. TypeOK
  <2>1. LifeOK /\ PlaybackOK
    BY DEF Init, LifeOK, PlaybackOK
  <2>2. SilenceOK
    <3>1. CountersOK
      BY SilenceMaxAssumption, EarlyMaxAssumption DEF Init, CountersOK
    <3> QED
      BY <3>1 DEF Init, SilenceOK
  <2>3. HandlersOK
    BY DEF Init, HandlersOK
  <2>4. FeedbackOK
    <3>1. apologies \in 0 .. 2
      BY DEF Init
    <3> QED
      BY <3>1 DEF Init, FeedbackOK
  <2> QED
    BY <2>1, <2>2, <2>3, <2>4 DEF TypeOK
<1>2. LockHeldByPhrase
    BY FreeAssumption DEF Init, LockHeldByPhrase
<1>3. NeverDeaf /\ EarlyCapEndsCall
    BY EarlyMaxAssumption DEF Init, NeverDeaf, EarlyCapEndsCall
<1>4. NoSessionNoHandlers /\ BeforeStart /\ AfterClose
    BY DEF Init, NoSessionNoHandlers, BeforeStart, AfterClose
<1> QED
    BY <1>1, <1>2, <1>3, <1>4 DEF IInv

\* run(), the session and the gate: LifeOK is kept by every step.
LEMMA LifeStep == LifeOK /\ [Next]_vars => LifeOK'
<1> SUFFICES ASSUME LifeOK, [Next]_vars PROVE LifeOK'
    OBVIOUS
<1> USE DEF LifeOK
<1>1. CASE Callbacks
    BY <1>1 DEF Callbacks, OnAgentState,
                GateAfter, OnUserInput, OnError, OnClose,
                CloseSession, lifeVars
<1>2. CASE StreamEvents
    BY <1>2 DEF StreamEvents, EmptyEou, SilenceTimeout, SpeechEou, lifeVars
<1>3. CASE Handlers
    BY <1>3 DEF Handlers, HandlerStarts, HandlerResumes, SkipSilence,
                IgnoreEarlyClose, StartReminder, StartFarewell, StartPhrase,
                ReminderDone, FarewellDone, PauseDone, ResumeListening,
                HangUp, lifeVars
<1>4. CASE Playbacks
    BY <1>4 DEF Playbacks, PlaybackDone, PlaybackCancelled, KeepCall, lifeVars
<1>5. CASE Run
    BY <1>5 DEF Run, Connected, GreetingDone, SessionStarted, SetUpFails,
                CallEnds, ParticipantsRemoved, CancelPlaybacks,
                PlaybacksGathered, SessionClosed, Shutdown, CloseSession,
                Goto, KeepCall
<1>6. CASE TimePasses \/ Hangup \/ UNCHANGED vars
    BY <1>6 DEF TimePasses, Hangup, vars, lifeVars
<1> QED
    BY <1>1, <1>2, <1>3, <1>4, <1>5, <1>6 DEF Next

\* Only two callbacks touch what is remembered of the caller's turn.
LEMMA FeedbackFrame ==
    [Next]_vars => \/ \E text \in Texts : OnUserInput(text)
                   \/ \E recoverable \in BOOLEAN : OnError(recoverable)
                   \/ UNCHANGED feedbackVars
<1> SUFFICES ASSUME [Next]_vars,
                    ~ \E text \in Texts : OnUserInput(text),
                    ~ \E recoverable \in BOOLEAN : OnError(recoverable)
             PROVE  UNCHANGED feedbackVars
    OBVIOUS
<1>1. CASE Callbacks
    BY <1>1 DEF Callbacks, OnAgentState, GateAfter, OnClose, CloseSession
<1>2. CASE StreamEvents
    BY <1>2 DEF StreamEvents, EmptyEou, SilenceTimeout, SpeechEou
<1>3. CASE Handlers
    BY <1>3 DEF Handlers, HandlerStarts, HandlerResumes, SkipSilence,
       IgnoreEarlyClose, StartReminder, StartFarewell, StartPhrase,
       ReminderDone, FarewellDone, PauseDone
<1>4. CASE Playbacks
    BY <1>4 DEF Playbacks, PlaybackDone, PlaybackCancelled, KeepCall
<1>5. CASE Run
    BY <1>5 DEF Run, Connected, GreetingDone, SessionStarted, SetUpFails,
       CallEnds, ParticipantsRemoved, CancelPlaybacks, PlaybacksGathered,
       SessionClosed, Shutdown, CloseSession, KeepCall
<1>6. CASE TimePasses \/ Hangup \/ UNCHANGED vars
    BY <1>6 DEF TimePasses, Hangup, vars
<1> QED
    BY <1>1, <1>2, <1>3, <1>4, <1>5, <1>6 DEF Next

\* Only the silence handlers, and what cancels them, touch phases and lock.
LEMMA PhaseFrame ==
    [Next]_vars => \/ UNCHANGED <<phase, silenceLock>>
                   \/ CancelHandlers
                   \/ \E t \in Tasks : StartReminder(t) \/ StartFarewell(t)
                   \/ \E t \in Tasks : HandlerResumes(t)
<1> SUFFICES ASSUME [Next]_vars,
                    ~CancelHandlers,
                    ~ \E t \in Tasks : StartReminder(t) \/ StartFarewell(t),
                    ~ \E t \in Tasks : HandlerResumes(t)
             PROVE  UNCHANGED <<phase, silenceLock>>
    OBVIOUS
<1>1. CASE Callbacks
    BY <1>1 DEF Callbacks, OnAgentState,
                GateAfter, OnUserInput, OnError, OnClose,
       CloseSession, handlerVars
<1>2. CASE StreamEvents
    BY <1>2 DEF StreamEvents, EmptyEou, SilenceTimeout, SpeechEou, handlerVars
<1>3. CASE Handlers
    BY <1>3 DEF Handlers, HandlerStarts, SkipSilence, IgnoreEarlyClose
<1>4. CASE Playbacks
    BY <1>4 DEF Playbacks, PlaybackDone, PlaybackCancelled, KeepCall,
       handlerVars
<1>5. CASE Run
    BY <1>5 DEF Run, Connected, GreetingDone, SessionStarted, SetUpFails,
       CallEnds, ParticipantsRemoved, CancelPlaybacks, PlaybacksGathered,
       SessionClosed, Shutdown, CloseSession, KeepCall, handlerVars
<1>6. CASE TimePasses \/ Hangup \/ UNCHANGED vars
    BY <1>6 DEF TimePasses, Hangup, vars, handlerVars
<1> QED
    BY <1>1, <1>2, <1>3, <1>4, <1>5, <1>6 DEF Next

\* A handler that proceeds has not reached the early-close cap yet.
LEMMA BelowCap == IInv /\ HandlerProceeds => earlyCloseCount < EarlyMax
<1> SUFFICES ASSUME IInv, HandlerProceeds PROVE earlyCloseCount < EarlyMax
    OBVIOUS
<1>1. \A t \in Tasks : phase[t] = "idle"
    BY FreeAssumption DEF IInv, LockHeldByPhrase, HandlerProceeds, HandlerBusy
<1>2. session = "live" /\ ~closeEv
    BY DEF IInv, NoSessionNoHandlers, HandlerProceeds
<1>3. earlyCloseCount \in Int /\ EarlyMax \in Int
    BY EarlyMaxAssumption DEF IInv, TypeOK, SilenceOK, CountersOK
<1> QED
    BY <1>1, <1>2, <1>3 DEF IInv, EarlyCapEndsCall

\* The counters stay in their ranges; the early-close count needs BelowCap.
LEMMA CountersStep == IInv /\ [Next]_vars => CountersOK'
<1> SUFFICES ASSUME IInv, [Next]_vars PROVE CountersOK'
    OBVIOUS
<1> USE SilenceMaxAssumption, EarlyMaxAssumption DEF CountersOK
<1>0. CountersOK
    BY DEF IInv, TypeOK, SilenceOK
<1>1. CASE Callbacks
    BY <1>0, <1>1 DEF Callbacks, OnAgentState,
                GateAfter, OnUserInput, OnError, OnClose,
       CloseSession, silenceVars
<1>2. CASE StreamEvents
  <2>1. CASE EmptyEou
    <3>1. /\ silenceCounter' \in 0 .. SilenceMax
          /\ silentEous' \in 0 .. SilenceMax
      BY <1>0, <2>1, BumpFacts DEF EmptyEou
    <3> QED
      BY <1>0, <2>1, <3>1 DEF EmptyEou
  <2>2. CASE \E count \in TimeoutCounts : SilenceTimeout(count)
    BY <1>0, <2>2 DEF SilenceTimeout, silenceVars
  <2>3. CASE SpeechEou
    BY <1>0, <2>3 DEF SpeechEou, ResetSilenceCounter
  <2> QED
    BY <1>2, <2>1, <2>2, <2>3 DEF StreamEvents
<1>3. CASE Handlers
  <2>1. CASE SkipSilence
    BY <1>0, <2>1 DEF SkipSilence, silenceVars
  <2>2. CASE IgnoreEarlyClose
    <3>1. earlyCloseCount < EarlyMax
      BY <2>2, BelowCap DEF IgnoreEarlyClose
    <3> QED
      BY <1>0, <2>2, <3>1 DEF IgnoreEarlyClose, CountEarlyClose,
         ResetSilenceCounter
  <2>3. ASSUME NEW t \in Tasks, StartReminder(t) \/ StartFarewell(t)
        PROVE  CountersOK'
    <3>1. earlyCloseCount < EarlyMax
      BY <2>3, BelowCap DEF StartReminder, StartFarewell
    <3>2. /\ CountStreak
          /\ UNCHANGED <<silenceCounter, silentEous>>
      BY <2>3 DEF StartReminder, StartFarewell, StartPhrase
    <3> QED
      BY <1>0, <3>1, <3>2, BumpFacts DEF CountStreak, CountEarlyClose
  <2>4. ASSUME NEW t \in Tasks, HandlerResumes(t) PROVE CountersOK'
    BY <1>0, <2>4 DEF HandlerResumes, ReminderDone, FarewellDone, PauseDone,
       silenceVars
  <2> QED
    BY <1>3, <2>1, <2>2, <2>3, <2>4 DEF Handlers, HandlerStarts
<1>4. CASE Playbacks
    BY <1>0, <1>4 DEF Playbacks, PlaybackDone, PlaybackCancelled, KeepCall,
       silenceVars
<1>5. CASE Run
    BY <1>0, <1>5 DEF Run, Connected, GreetingDone, SessionStarted,
       SetUpFails, CallEnds, ParticipantsRemoved, CancelPlaybacks,
       PlaybacksGathered, SessionClosed, Shutdown, CloseSession, KeepCall,
       silenceVars
<1>6. CASE TimePasses \/ Hangup \/ UNCHANGED vars
    BY <1>0, <1>6 DEF TimePasses, Hangup, vars, silenceVars
<1> QED
    BY <1>1, <1>2, <1>3, <1>4, <1>5, <1>6 DEF Next

\* The no-speech clock stays Boolean.
LEMMA ClockStep == SilenceOK /\ [Next]_vars => longSinceResume' \in BOOLEAN
<1> SUFFICES ASSUME SilenceOK, [Next]_vars
             PROVE  longSinceResume' \in BOOLEAN
    OBVIOUS
<1> USE DEF SilenceOK
<1>1. CASE Callbacks
    BY <1>1 DEF Callbacks, OnAgentState,
                GateAfter, OnUserInput, OnError, OnClose,
       CloseSession, silenceVars
<1>2. CASE StreamEvents
    BY <1>2 DEF StreamEvents, EmptyEou, SilenceTimeout, SpeechEou, silenceVars
<1>3. CASE Handlers
  <2>1. CASE SkipSilence
    BY <2>1 DEF SkipSilence, silenceVars
  <2>2. CASE IgnoreEarlyClose
    BY <2>2 DEF IgnoreEarlyClose, ResumeListening
  <2>3. ASSUME NEW t \in Tasks, StartReminder(t) \/ StartFarewell(t)
        PROVE  longSinceResume' \in BOOLEAN
    BY <2>3 DEF StartReminder, StartFarewell, StartPhrase, CountStreak
  <2>4. ASSUME NEW t \in Tasks, HandlerResumes(t)
        PROVE  longSinceResume' \in BOOLEAN
    BY <2>4 DEF HandlerResumes, ReminderDone, FarewellDone, PauseDone,
       ResumeListening, silenceVars
  <2> QED
    BY <1>3, <2>1, <2>2, <2>3, <2>4 DEF Handlers, HandlerStarts
<1>4. CASE Playbacks
    BY <1>4 DEF Playbacks, PlaybackDone, PlaybackCancelled, KeepCall,
       silenceVars
<1>5. CASE Run
    BY <1>5 DEF Run, Connected, GreetingDone, SessionStarted, SetUpFails,
       CallEnds, ParticipantsRemoved, CancelPlaybacks, PlaybacksGathered,
       SessionClosed, Shutdown, CloseSession, KeepCall, silenceVars
<1>6. CASE TimePasses \/ Hangup \/ UNCHANGED vars
    BY <1>6 DEF TimePasses, Hangup, vars, silenceVars
<1> QED
    BY <1>1, <1>2, <1>3, <1>4, <1>5, <1>6 DEF Next

\* The pending events, the phases and the lock keep their types.
LEMMA HandlersStep == TypeOK /\ [Next]_vars => HandlersOK'
<1> SUFFICES ASSUME TypeOK, [Next]_vars PROVE HandlersOK'
    OBVIOUS
<1>0. HandlersOK /\ CountersOK
    BY DEF TypeOK, SilenceOK
<1> USE DEF HandlersOK
<1>1. CASE Callbacks
  <2>1. CASE OnClose
    BY <2>1 DEF OnClose, CloseSession, CancelHandlers
  <2>2. CASE Callbacks /\ ~OnClose
    BY <1>0, <2>2 DEF Callbacks, OnAgentState, GateAfter, OnUserInput, OnError,
       handlerVars
  <2> QED
    BY <1>1, <2>1, <2>2
<1>2. CASE StreamEvents
  <2>1. CASE EmptyEou
    <3>1. SilenceEvent(Bump(silenceCounter), "eou") \in SilenceEvents
      BY <1>0, BumpFacts DEF CountersOK, SilenceEvent, SilenceEvents, Messages
    <3> QED
      BY <1>0, <2>1, <3>1 DEF EmptyEou
  <2>2. ASSUME NEW count \in TimeoutCounts, SilenceTimeout(count)
        PROVE  HandlersOK'
    <3>1. SilenceEvent(count, "silence_timeout") \in SilenceEvents
      BY CountsAssumption DEF SilenceEvent, SilenceEvents, Messages
    <3> QED
      BY <1>0, <2>2, <3>1 DEF SilenceTimeout
  <2>3. CASE SpeechEou
    BY <1>0, <2>3 DEF SpeechEou, handlerVars
  <2> QED
    BY <1>2, <2>1, <2>2, <2>3 DEF StreamEvents
<1>3. CASE Handlers
  <2>1. CASE SkipSilence
    BY <1>0, <2>1 DEF SkipSilence
  <2>2. CASE IgnoreEarlyClose
    BY <1>0, <2>2 DEF IgnoreEarlyClose, HandlerProceeds
  <2>3. ASSUME NEW t \in Tasks, StartReminder(t) \/ StartFarewell(t)
        PROVE  HandlersOK'
    BY <1>0, <2>3 DEF StartReminder, StartFarewell, StartPhrase,
       HandlerProceeds
  <2>4. ASSUME NEW t \in Tasks, HandlerResumes(t) PROVE HandlersOK'
    BY <1>0, <2>4 DEF HandlerResumes, ReminderDone, FarewellDone, PauseDone
  <2> QED
    BY <1>3, <2>1, <2>2, <2>3, <2>4 DEF Handlers, HandlerStarts
<1>4. CASE Playbacks
    BY <1>0, <1>4 DEF Playbacks, PlaybackDone, PlaybackCancelled, KeepCall,
       handlerVars
<1>5. CASE Run
  <2>1. CASE SessionClosed
    <3>1. CASE CancelHandlers
      BY <3>1 DEF CancelHandlers
    <3>2. CASE UNCHANGED handlerVars
      BY <1>0, <3>2 DEF handlerVars
    <3> QED
      BY <2>1, <3>1, <3>2 DEF SessionClosed, CloseSession, KeepCall
  <2>2. CASE Run /\ ~SessionClosed
    <3>1. UNCHANGED handlerVars
      BY <2>2 DEF Run, Connected, GreetingDone, SessionStarted, SetUpFails,
         CallEnds, ParticipantsRemoved, CancelPlaybacks, PlaybacksGathered,
         Shutdown, KeepCall
    <3> QED
      BY <1>0, <3>1 DEF handlerVars
  <2> QED
    BY <1>5, <2>1, <2>2
<1>6. CASE TimePasses \/ Hangup \/ UNCHANGED vars
    BY <1>0, <1>6 DEF TimePasses, Hangup, vars, handlerVars
<1> QED
    BY <1>1, <1>2, <1>3, <1>4, <1>5, <1>6 DEF Next

\* What the callbacks remember of the caller's turn keeps its types.
LEMMA FeedbackStep == FeedbackOK /\ [Next]_vars => FeedbackOK'
<1> SUFFICES ASSUME FeedbackOK, [Next]_vars PROVE FeedbackOK'
    OBVIOUS
<1> USE DEF FeedbackOK
<1>1. ASSUME NEW text \in Texts, OnUserInput(text) PROVE FeedbackOK'
  <2>1. repeated' \in BOOLEAN /\ failed' \in BOOLEAN /\ llmErrored' \in BOOLEAN
    BY <1>1 DEF OnUserInput
  <2>2. apologies' \in 0 .. 2
    BY <1>1 DEF OnUserInput
  <2> QED
    BY <1>1, <2>1, <2>2 DEF OnUserInput
<1>2. ASSUME NEW recoverable \in BOOLEAN, OnError(recoverable)
      PROVE  FeedbackOK'
  <2>1. failed' \in BOOLEAN
    BY <1>2 DEF OnError
  <2>2. llmErrored' \in BOOLEAN
    BY <1>2 DEF OnError
  <2>3. apologies' \in 0 .. 2
    BY <1>2 DEF OnError
  <2> QED
    BY <1>2, <2>1, <2>2, <2>3 DEF OnError
<1>3. CASE UNCHANGED feedbackVars
    BY <1>3 DEF feedbackVars, turnVars
<1>4. \/ \E text \in Texts : OnUserInput(text)
      \/ \E recoverable \in BOOLEAN : OnError(recoverable)
      \/ UNCHANGED feedbackVars
    BY FeedbackFrame
<1> QED
    BY <1>1, <1>2, <1>3, <1>4

\* The number of playback tasks is a natural number.
LEMMA PlaybackStep == PlaybackOK /\ [Next]_vars => PlaybackOK'
<1> SUFFICES ASSUME PlaybackOK, [Next]_vars PROVE PlaybackOK'
    OBVIOUS
<1> USE DEF PlaybackOK
<1>1. CASE Callbacks
    BY <1>1 DEF Callbacks, OnAgentState,
                GateAfter, OnUserInput, OnError, OnClose, Spawn,
       CloseSession, playbackVars
<1>2. CASE StreamEvents
    BY <1>2 DEF StreamEvents, EmptyEou, SilenceTimeout, SpeechEou,
       playbackVars
<1>3. CASE Handlers
    BY <1>3 DEF Handlers, HandlerStarts, HandlerResumes, SkipSilence,
       IgnoreEarlyClose, StartReminder, StartFarewell, StartPhrase,
       ReminderDone, FarewellDone, PauseDone, playbackVars
<1>4. CASE Playbacks
    BY <1>4 DEF Playbacks, PlaybackDone, PlaybackCancelled
<1>5. CASE Run
    BY <1>5 DEF Run, Connected, GreetingDone, SessionStarted, SetUpFails,
       CallEnds, ParticipantsRemoved, CancelPlaybacks, PlaybacksGathered,
       SessionClosed, Shutdown, CloseSession, playbackVars
<1>6. CASE TimePasses \/ Hangup \/ UNCHANGED vars
    BY <1>6 DEF TimePasses, Hangup, vars, playbackVars
<1> QED
    BY <1>1, <1>2, <1>3, <1>4, <1>5, <1>6 DEF Next

\* Every step keeps every variable in its type.
LEMMA TypeStep == IInv /\ [Next]_vars => TypeOK'
  BY LifeStep, CountersStep, ClockStep, HandlersStep, FeedbackStep,
     PlaybackStep DEF IInv, TypeOK, SilenceOK

\* The lock and the phases move together: a task that starts a phrase takes
\* the free lock, one that finishes gives it back.
LEMMA LockStep == IInv /\ [Next]_vars => LockHeldByPhrase'
<1> SUFFICES ASSUME IInv, [Next]_vars PROVE LockHeldByPhrase'
    OBVIOUS
<1> USE FreeAssumption DEF LockHeldByPhrase
<1>0. LockHeldByPhrase /\ phase \in [Tasks -> Phases]
    BY DEF IInv, TypeOK, HandlersOK
<1>1. CASE UNCHANGED <<phase, silenceLock>>
    BY <1>0, <1>1
<1>2. CASE CancelHandlers
    BY <1>2 DEF CancelHandlers
<1>3. ASSUME NEW t \in Tasks, StartReminder(t) \/ StartFarewell(t)
      PROVE  LockHeldByPhrase'
    BY <1>0, <1>3 DEF StartReminder, StartFarewell, StartPhrase,
       HandlerProceeds, HandlerBusy
<1>4. ASSUME NEW t \in Tasks, HandlerResumes(t) PROVE LockHeldByPhrase'
    BY <1>0, <1>4 DEF HandlerResumes, ReminderDone, FarewellDone, PauseDone
<1>5. \/ UNCHANGED <<phase, silenceLock>>
      \/ CancelHandlers
      \/ \E t \in Tasks : StartReminder(t) \/ StartFarewell(t)
      \/ \E t \in Tasks : HandlerResumes(t)
    BY PhaseFrame
<1> QED
    BY <1>1, <1>2, <1>3, <1>4, <1>5

\* While the caller is being listened to and nobody has hung up, the gate is
\* open: only a phrase closes it, and its end opens it again.
LEMMA NeverDeafStep == IInv /\ [Next]_vars => NeverDeaf'
<1> SUFFICES ASSUME IInv, [Next]_vars PROVE NeverDeaf'
    OBVIOUS
<1> USE FreeAssumption DEF NeverDeaf
<1>0. /\ NeverDeaf
      /\ agentState \in AgentStates
      /\ closeEv \in BOOLEAN
    BY DEF IInv, TypeOK, LifeOK
<1>1. CASE Callbacks
    BY <1>0, <1>1 DEF Callbacks, OnAgentState,
                GateAfter, OnUserInput, OnError, OnClose,
       CloseSession, lifeVars, handlerVars
<1>2. CASE StreamEvents
    BY <1>0, <1>2 DEF StreamEvents, EmptyEou, SilenceTimeout, SpeechEou,
       lifeVars, handlerVars
<1>3. CASE Handlers
  <2>1. CASE SkipSilence \/ IgnoreEarlyClose
    BY <1>0, <2>1 DEF SkipSilence, IgnoreEarlyClose, ResumeListening, lifeVars
  <2>2. ASSUME NEW t \in Tasks, StartReminder(t) \/ StartFarewell(t)
        PROVE  NeverDeaf'
    BY <2>2 DEF StartReminder, StartFarewell, StartPhrase
  <2>3. ASSUME NEW t \in Tasks, HandlerResumes(t) PROVE NeverDeaf'
    BY <1>0, <2>3 DEF HandlerResumes, ReminderDone, FarewellDone, PauseDone,
       ResumeListening, HangUp, lifeVars
  <2> QED
    BY <1>3, <2>1, <2>2, <2>3 DEF Handlers, HandlerStarts
<1>4. CASE Playbacks
    BY <1>0, <1>4 DEF Playbacks, PlaybackDone, PlaybackCancelled, KeepCall,
       lifeVars, handlerVars
<1>5. CASE Run
  <2>1. CASE GreetingDone
    BY <1>0, <2>1 DEF GreetingDone, Goto, KeepCall, IInv, BeforeStart
  <2>2. CASE SessionClosed
    BY <1>0, <2>2 DEF SessionClosed, CloseSession, KeepCall
  <2>3. CASE Run /\ ~GreetingDone /\ ~SessionClosed
    BY <1>0, <2>3 DEF Run, Connected, SessionStarted, SetUpFails, CallEnds,
       ParticipantsRemoved, CancelPlaybacks, PlaybacksGathered, Shutdown,
       KeepCall, handlerVars
  <2> QED
    BY <1>5, <2>1, <2>2, <2>3
<1>6. CASE TimePasses \/ Hangup \/ UNCHANGED vars
    BY <1>0, <1>6 DEF TimePasses, Hangup, vars, lifeVars, handlerVars
<1> QED
    BY <1>1, <1>2, <1>3, <1>4, <1>5, <1>6 DEF Next

\* The cap: a streak that reaches it starts a farewell, the farewell is
\* followed by the hang-up, and nothing that cancels it leaves the call live.
LEMMA CapStep == IInv /\ [Next]_vars => EarlyCapEndsCall'
<1> SUFFICES ASSUME IInv, [Next]_vars PROVE EarlyCapEndsCall'
    OBVIOUS
<1> USE EarlyMaxAssumption DEF EarlyCapEndsCall
<1>0. /\ EarlyCapEndsCall
      /\ earlyCloseCount \in 0 .. EarlyMax
      /\ phase \in [Tasks -> Phases]
    BY DEF IInv, TypeOK, SilenceOK, CountersOK, HandlersOK
<1>1. CASE Callbacks
    BY <1>0, <1>1 DEF Callbacks, OnAgentState,
                GateAfter, OnUserInput, OnError, OnClose,
       CloseSession, lifeVars, handlerVars, silenceVars
<1>2. CASE StreamEvents
    BY <1>0, <1>2 DEF StreamEvents, EmptyEou, SilenceTimeout, SpeechEou,
       lifeVars, handlerVars, silenceVars
<1>3. CASE Handlers
  <2>1. CASE SkipSilence
    BY <1>0, <2>1 DEF SkipSilence, lifeVars, silenceVars
  <2>2. CASE IgnoreEarlyClose
    BY <1>0, <2>2 DEF IgnoreEarlyClose, RetriesEarlyClose, CountEarlyClose
  <2>3. ASSUME NEW t \in Tasks, StartReminder(t) PROVE EarlyCapEndsCall'
    <3>1. earlyCloseCount' = 0
      BY <2>3 DEF StartReminder, Escalates, StartPhrase, CountStreak
    <3> QED
      BY <3>1
  <2>4. ASSUME NEW t \in Tasks, StartFarewell(t) PROVE EarlyCapEndsCall'
    <3>1. phase'[t] = "farewell"
      BY <1>0, <2>4 DEF StartFarewell, StartPhrase
    <3> QED
      BY <3>1
  <2>5. ASSUME NEW t \in Tasks, ReminderDone(t) PROVE EarlyCapEndsCall'
    BY <1>0, <2>5 DEF ReminderDone, lifeVars
  <2>6. ASSUME NEW t \in Tasks, FarewellDone(t) PROVE EarlyCapEndsCall'
    <3>1. phase'[t] = "pause"
      BY <1>0, <2>6 DEF FarewellDone
    <3> QED
      BY <3>1
  <2>7. ASSUME NEW t \in Tasks, PauseDone(t) PROVE EarlyCapEndsCall'
    BY <2>7 DEF PauseDone, HangUp
  <2> QED
    BY <1>3, <2>1, <2>2, <2>3, <2>4, <2>5, <2>6, <2>7
    DEF Handlers, HandlerStarts, HandlerResumes
<1>4. CASE Playbacks
    BY <1>0, <1>4 DEF Playbacks, PlaybackDone, PlaybackCancelled, KeepCall,
       lifeVars, handlerVars, silenceVars
<1>5. CASE Run
  <2>1. CASE GreetingDone
    BY <2>1 DEF GreetingDone, Goto, KeepCall, silenceVars, IInv, BeforeStart
  <2>2. CASE SessionClosed
    BY <1>0, <2>2 DEF SessionClosed, CloseSession, KeepCall, handlerVars,
       silenceVars
  <2>3. CASE Run /\ ~GreetingDone /\ ~SessionClosed
    BY <1>0, <2>3 DEF Run, Connected, SessionStarted, SetUpFails, CallEnds,
       ParticipantsRemoved, CancelPlaybacks, PlaybacksGathered, Shutdown,
       KeepCall, handlerVars, silenceVars
  <2> QED
    BY <1>5, <2>1, <2>2, <2>3
<1>6. CASE TimePasses \/ Hangup \/ UNCHANGED vars
    BY <1>0, <1>6 DEF TimePasses, Hangup, vars, lifeVars, handlerVars,
       silenceVars
<1> QED
    BY <1>1, <1>2, <1>3, <1>4, <1>5, <1>6 DEF Next

SessionInv == NoSessionNoHandlers /\ BeforeStart /\ AfterClose

\* The session is live only between session.start and session.aclose, and
\* handlers exist only while it is.
LEMMA SessionStep == IInv /\ [Next]_vars => SessionInv'
<1> SUFFICES ASSUME IInv, [Next]_vars PROVE SessionInv'
    OBVIOUS
<1> USE DEF SessionInv, NoSessionNoHandlers, BeforeStart, AfterClose
<1>0. /\ SessionInv
      /\ spawned \in Seq(SilenceEvents)
      /\ LockHeldByPhrase
    BY DEF IInv, TypeOK, HandlersOK
<1>1. CASE Callbacks
    BY <1>0, <1>1 DEF Callbacks, OnAgentState,
                GateAfter, OnUserInput, OnError, OnClose,
       CloseSession, CancelHandlers, lifeVars, handlerVars, silenceVars
<1>2. CASE StreamEvents
    BY <1>0, <1>2 DEF StreamEvents, StreamReads, EmptyEou, SilenceTimeout,
       SpeechEou, lifeVars
<1>3. CASE Handlers
  <2>1. CASE SkipSilence \/ IgnoreEarlyClose
    BY <1>0, <2>1 DEF SkipSilence, IgnoreEarlyClose, HandlerProceeds,
       lifeVars, silenceVars
  <2>2. ASSUME NEW t \in Tasks, StartReminder(t) \/ StartFarewell(t)
        PROVE  SessionInv'
    BY <1>0, <2>2 DEF StartReminder, StartFarewell, StartPhrase,
       HandlerProceeds, lifeVars
  <2>3. ASSUME NEW t \in Tasks, HandlerResumes(t) PROVE SessionInv'
    BY <1>0, <2>3, FreeAssumption DEF HandlerResumes, ReminderDone,
       FarewellDone, PauseDone, LockHeldByPhrase, lifeVars, silenceVars
  <2> QED
    BY <1>3, <2>1, <2>2, <2>3 DEF Handlers, HandlerStarts
<1>4. CASE Playbacks
    BY <1>0, <1>4 DEF Playbacks, PlaybackDone, PlaybackCancelled, KeepCall,
       lifeVars, handlerVars, silenceVars
<1>5. CASE Run
  <2>1. CASE SessionClosed
    BY <1>0, <2>1 DEF SessionClosed, CloseSession, CancelHandlers, KeepCall,
       Goto, handlerVars, silenceVars
  <2>2. CASE Run /\ ~SessionClosed
    BY <1>0, <2>2 DEF Run, Connected, GreetingDone, SessionStarted,
       SetUpFails, CallEnds, ParticipantsRemoved, CancelPlaybacks,
       PlaybacksGathered, Shutdown, KeepCall, Goto, handlerVars, silenceVars
  <2> QED
    BY <1>5, <2>1, <2>2
<1>6. CASE TimePasses \/ Hangup \/ UNCHANGED vars
    BY <1>0, <1>6 DEF TimePasses, Hangup, vars, lifeVars, handlerVars,
       silenceVars
<1> QED
    BY <1>1, <1>2, <1>3, <1>4, <1>5, <1>6 DEF Next

\* IInv holds in every state of every call.
THEOREM Invariance == Spec => []IInv
<1>1. IInv /\ [Next]_vars => IInv'
    BY TypeStep, LockStep, NeverDeafStep, CapStep, SessionStep
    DEF IInv, SessionInv
<1> QED
    BY InitInv, <1>1, PTL DEF Spec

\* Every variable keeps its type, and the early-close count its cap, for
\* every STT_SILENCE_MAX_COUNT and STT_EARLY_CLOSE_MAX_COUNT.
THEOREM TypeCorrect == Spec => []TypeOK
<1>1. IInv => TypeOK
    BY DEF IInv
<1> QED
    BY Invariance, <1>1, PTL

\* _silence_lock does what its comment says: reminder, farewell and pause
\* never overlap, however many silence events the stream emits.
THEOREM HandlersExclude == Spec => []LockHeldByPhrase
<1>1. IInv => LockHeldByPhrase
    BY DEF IInv
<1> QED
    BY Invariance, <1>1, PTL

\* The listening gate is never left closed on a caller the agent listens to.
THEOREM GateIsOpen == Spec => []NeverDeaf
<1>1. IInv => NeverDeaf
    BY DEF IInv
<1> QED
    BY Invariance, <1>1, PTL

\* A streak of early closes that reaches the cap is on its way to a hang-up.
THEOREM CapEndsCall == Spec => []EarlyCapEndsCall
<1>1. IInv => EarlyCapEndsCall
    BY DEF IInv
<1> QED
    BY Invariance, <1>1, PTL

\* When run() returns, no silence handler is left and nobody holds the lock.
THEOREM EndsQuietly == Spec => []EndedQuietly
<1>1. IInv => EndedQuietly
    BY DEF IInv, NoSessionNoHandlers, AfterClose, EndedQuietly
<1> QED
    BY Invariance, <1>1, PTL

----------------------------------------------------------------------------
(* The caller's turns.                                                     *)

\* What links the once-a-turn flag to the apologies of the turn.
TurnInv ==
    /\ FeedbackOK
    /\ ApologisedOnce
    /\ ~llmErrored => apologies = 0
    /\ llmErrored /\ ~repeated => apologies = 1

\* Every step keeps it: only a new text resets the flag, and it starts a turn.
LEMMA TurnStep == TurnInv /\ [Next]_vars => TurnInv'
<1> SUFFICES ASSUME TurnInv, [Next]_vars PROVE TurnInv'
    OBVIOUS
<1>0. FeedbackOK'
    BY FeedbackStep DEF TurnInv
<1> USE DEF TurnInv, ApologisedOnce
<1>1. ASSUME NEW text \in Texts, OnUserInput(text) PROVE TurnInv'
  <2>1. apologies' = 0 /\ failed' = FALSE
    BY <1>1 DEF OnUserInput
  <2>2. llmErrored' /\ ~repeated' => FALSE
    BY <1>1 DEF OnUserInput
  <2> QED
    BY <1>0, <2>1, <2>2
<1>2. ASSUME NEW recoverable \in BOOLEAN, OnError(recoverable) PROVE TurnInv'
  <2>1. CASE ApologyDue(recoverable)
    <3>1. apologies = 0
      BY <2>1 DEF ApologyDue
    <3>2. apologies' = 1
      BY <1>2, <2>1, <3>1 DEF OnError
    <3>3. llmErrored' = TRUE
      BY <1>2, <2>1 DEF OnError
    <3> QED
      BY <1>0, <3>2, <3>3
  <2>2. CASE ~ApologyDue(recoverable)
    <3>1. UNCHANGED <<llmErrored, apologies, repeated>>
      BY <1>2, <2>2 DEF OnError
    <3>2. failed' => failed \/ llmErrored
      BY <1>2, <2>2 DEF OnError, ApologyDue
    <3> QED
      BY <1>0, <3>1, <3>2
  <2> QED
    BY <2>1, <2>2
<1>3. CASE UNCHANGED feedbackVars
    BY <1>0, <1>3 DEF feedbackVars, turnVars
<1> QED
    BY <1>1, <1>2, <1>3, FeedbackFrame

\* At most one apology a turn, and one for each failure the caller must hear
\* of unless the turn repeats the text of the one before.
THEOREM TurnsAnswered == Spec => []ApologisedOnce
<1>1. Init => TurnInv
    BY InitInv DEF Init, IInv, TypeOK, TurnInv, ApologisedOnce
<1>2. TurnInv => ApologisedOnce
    BY DEF TurnInv
<1> QED
    BY <1>1, <1>2, TurnStep, PTL DEF Spec

----------------------------------------------------------------------------
(* The echo                                                                *)

\* A step that opens the gate, or leaves it open, while the agent thinks or
\* speaks: nothing changed, or a handler did.
LEMMA GateStep ==
    ASSUME TypeOK, [Next]_vars,
           agentState' \in {"thinking", "speaking"}, listening'
    PROVE  \/ listening /\ agentState' = agentState
           \/ handlerVars' # handlerVars
<1>1. ASSUME NEW new \in AgentStates, OnAgentState(new) PROVE FALSE
  <2>1. agentState' = new /\ listening' = GateAfter(new)
      BY <1>1 DEF OnAgentState
  <2> QED
      BY <2>1 DEF GateAfter
<1>2. CASE IgnoreEarlyClose
  <2>1. spawned \in Seq(SilenceEvents) /\ spawned # <<>> /\ spawned' = Tail(spawned)
      BY <1>2 DEF IgnoreEarlyClose, HandlerProceeds, TypeOK, HandlersOK
  <2>2. Len(spawned') # Len(spawned)
      BY <2>1
  <2> QED
      BY <2>2 DEF handlerVars
<1>3. ASSUME NEW t \in Tasks, ReminderDone(t)
      PROVE  handlerVars' # handlerVars
  <2>1. phase \in [Tasks -> Phases]
      BY DEF TypeOK, HandlersOK
  <2>2. phase[t] = "reminder" /\ phase'[t] = "idle"
      BY <1>3, <2>1 DEF ReminderDone
  <2>3. phase' # phase
      BY <2>2
  <2> QED
      BY <2>3 DEF handlerVars
<1>4. CASE UNCHANGED <<agentState, listening>>
    BY <1>4
<1>5. ASSUME NEW t \in Tasks, StartReminder(t) \/ StartFarewell(t) PROVE FALSE
    BY <1>5 DEF StartReminder, StartFarewell, StartPhrase
<1> QED
  <2>1. CASE Callbacks
      BY <1>1, <1>4, <2>1 DEF Callbacks, OnUserInput, OnError, OnClose,
         CloseSession
  <2>2. CASE StreamEvents
      BY <1>4, <2>2 DEF StreamEvents, EmptyEou, SilenceTimeout, SpeechEou
  <2>3. CASE Handlers
      BY <1>2, <1>3, <1>4, <1>5, <2>3
      DEF Handlers, HandlerStarts, HandlerResumes, SkipSilence, FarewellDone,
          PauseDone
  <2>4. CASE Playbacks \/ Run \/ TimePasses \/ Hangup \/ UNCHANGED vars
      BY <1>4, <2>4
      DEF Playbacks, PlaybackDone, PlaybackCancelled, Run, Connected,
          GreetingDone, SessionStarted, SetUpFails, CallEnds,
          ParticipantsRemoved, CancelPlaybacks, PlaybacksGathered,
          SessionClosed, CloseSession, Shutdown, KeepCall, TimePasses, Hangup,
          vars
  <2> QED
      BY <2>1, <2>2, <2>3, <2>4 DEF Next

\* The agent hears its own voice only if a silence handler opened the gate.
THEOREM EchoFromHandlers == Spec => OnlyHandlersEcho
<1>1. TypeOK /\ [Next]_vars =>
         [agentState' \in {"thinking", "speaking"} /\ listening' =>
             \/ listening /\ agentState' = agentState
             \/ handlerVars' # handlerVars]_vars
    BY GateStep
<1> QED
    BY TypeCorrect, <1>1, PTL DEF Spec, OnlyHandlersEcho

----------------------------------------------------------------------------
(* The farewell for silence, with a service that sends no silence_timeout  *)
(* of its own, as the one in stt_service.                                  *)

\* Neither the counter nor a pending count is ahead of the empty EOUs.
CountInv ==
    /\ silenceCounter <= silentEous
    /\ \A i \in DOMAIN spawned : /\ spawned[i].message = "eou"
                                 /\ spawned[i].count <= silentEous

\* The silence counts and the pending handlers move in these steps only.
LEMMA CountFrame ==
    ASSUME TimeoutCounts = {}, [Next]_vars
    PROVE  \/ EmptyEou
           \/ SpeechEou
           \/ spawned' = Tail(spawned) /\ spawned # <<>>
                 /\ UNCHANGED silentEous /\ silenceCounter' \in {0, silenceCounter}
           \/ spawned' = <<>> /\ UNCHANGED <<silentEous, silenceCounter>>
           \/ UNCHANGED <<spawned, silentEous, silenceCounter>>
<1>1. CASE Callbacks
    BY <1>1 DEF Callbacks, OnAgentState,
                GateAfter, OnUserInput, OnError, OnClose,
       CloseSession, CancelHandlers, handlerVars, silenceVars
<1>2. CASE StreamEvents
    BY <1>2 DEF StreamEvents
<1>3. CASE Handlers
    BY <1>3 DEF Handlers, HandlerStarts, HandlerResumes, SkipSilence,
       IgnoreEarlyClose, StartReminder, StartFarewell, StartPhrase,
       ReminderDone, FarewellDone, PauseDone, HandlerProceeds,
       ResetSilenceCounter, silenceVars
<1>4. CASE Playbacks
    BY <1>4 DEF Playbacks, PlaybackDone, PlaybackCancelled, KeepCall,
       handlerVars, silenceVars
<1>5. CASE Run
    BY <1>5 DEF Run, Connected, GreetingDone, SessionStarted, SetUpFails,
       CallEnds, ParticipantsRemoved, CancelPlaybacks, PlaybacksGathered,
       SessionClosed, Shutdown, CloseSession, CancelHandlers, KeepCall,
       handlerVars, silenceVars
<1>6. CASE TimePasses \/ Hangup \/ UNCHANGED vars
    BY <1>6 DEF TimePasses, Hangup, vars, handlerVars, silenceVars
<1> QED
    BY <1>1, <1>2, <1>3, <1>4, <1>5, <1>6 DEF Next

\* A stream that reads has no handler pending, if only EOUs create them.
LEMMA ReadsMeansDrained ==
    ASSUME CountInv, spawned \in Seq(SilenceEvents), StreamReads
    PROVE  spawned = <<>>
  BY DEF CountInv, StreamReads

\* Every step keeps CountInv: an empty EOU adds one to both counts, speech
\* zeroes both, and nothing else raises the plugin's.
LEMMA CountStep ==
    ASSUME TimeoutCounts = {}, TypeOK, CountInv, [Next]_vars
    PROVE  CountInv'
<1>0. /\ spawned \in Seq(SilenceEvents)
      /\ silenceCounter \in 0 .. SilenceMax
      /\ silentEous \in 0 .. SilenceMax
    BY DEF TypeOK, HandlersOK, SilenceOK, CountersOK
<1>1. CASE EmptyEou
  <2>1. spawned = <<>>
    BY <1>0, <1>1, ReadsMeansDrained DEF EmptyEou
  <2>2. Bump(silenceCounter) <= Bump(silentEous)
    BY <1>0, BumpFacts DEF CountInv
  <2>3. /\ silenceCounter' = Bump(silenceCounter)
        /\ silentEous' = Bump(silentEous)
        /\ spawned' = <<SilenceEvent(Bump(silenceCounter), "eou")>>
    BY <1>1, <2>1 DEF EmptyEou
  <2> QED
    BY <2>2, <2>3 DEF CountInv, SilenceEvent
<1>2. CASE SpeechEou
  <2>1. spawned = <<>>
    BY <1>0, <1>2, ReadsMeansDrained DEF SpeechEou
  <2>2. spawned' = <<>> /\ silenceCounter' = 0 /\ silentEous' = 0
    BY <1>2, <2>1 DEF SpeechEou, ResetSilenceCounter, handlerVars
  <2> QED
    BY <2>2 DEF CountInv
<1>3. CASE /\ spawned' = Tail(spawned) /\ spawned # <<>>
           /\ UNCHANGED silentEous /\ silenceCounter' \in {0, silenceCounter}
  <2>1. ASSUME NEW i \in DOMAIN Tail(spawned)
        PROVE  i + 1 \in DOMAIN spawned /\ Tail(spawned)[i] = spawned[i + 1]
    BY <1>0, <1>3
  <2>2. silenceCounter' <= silentEous'
    BY <1>0, <1>3 DEF CountInv
  <2> QED
    BY <1>3, <2>1, <2>2 DEF CountInv
<1>4. CASE spawned' = <<>> /\ UNCHANGED <<silentEous, silenceCounter>>
    BY <1>4 DEF CountInv
<1>5. CASE UNCHANGED <<spawned, silentEous, silenceCounter>>
    BY <1>5 DEF CountInv
<1> QED
    BY <1>1, <1>2, <1>3, <1>4, <1>5, CountFrame

\* Only StartFarewell makes a task await the farewell.
LEMMA OnlyStartFarewell ==
    ASSUME TypeOK, [Next]_vars, FarewellStarts
    PROVE  \E t \in Tasks : StartFarewell(t)
<1>0. phase \in [Tasks -> Phases]
    BY DEF TypeOK, HandlersOK
<1>1. CASE UNCHANGED <<phase, silenceLock>>
    BY <1>1 DEF FarewellStarts
<1>2. CASE CancelHandlers
    BY <1>2 DEF CancelHandlers, FarewellStarts
<1>3. ASSUME NEW t \in Tasks, StartReminder(t) PROVE FALSE
    BY <1>0, <1>3 DEF StartReminder, StartPhrase, FarewellStarts
<1>4. ASSUME NEW t \in Tasks, HandlerResumes(t) PROVE FALSE
    BY <1>0, <1>4 DEF HandlerResumes, ReminderDone, FarewellDone, PauseDone,
       FarewellStarts
<1> QED
    BY <1>1, <1>2, <1>3, <1>4, PhaseFrame

\* A caller who has just spoken is not hung up on for silence: there are
\* SilenceMax empty EOUs between their last words and the farewell, whatever
\* reminders, skipped events and early closes come in between.
THEOREM FarewellIsEarned ==
    ASSUME TimeoutCounts = {}
    PROVE  Spec => FarewellNeedsSilence
<1>1. Init => CountInv
    BY DEF Init, CountInv
<1>2. TypeOK /\ CountInv /\ [Next]_vars => CountInv'
    BY CountStep
<1>3. TypeOK /\ CountInv /\ [Next]_vars
        => [FarewellStarts /\ longSinceResume => silentEous >= SilenceMax]_vars
  <2> SUFFICES ASSUME TypeOK, CountInv, [Next]_vars, FarewellStarts,
                      longSinceResume
               PROVE  silentEous >= SilenceMax
    OBVIOUS
  <2>1. PICK t \in Tasks : StartFarewell(t)
    BY OnlyStartFarewell
  <2>2. spawned \in Seq(SilenceEvents) /\ silentEous \in Int
    BY DEF TypeOK, HandlersOK, SilenceOK, CountersOK
  <2>3. spawned # <<>> /\ spawned[1].count >= SilenceMax
    BY <2>1, <2>2 DEF StartFarewell, HandlerProceeds, Escalates, EarlyClose
  <2>4. spawned[1] \in SilenceEvents /\ spawned[1].count <= silentEous
    BY <2>2, <2>3 DEF CountInv
  <2> QED
    BY <2>2, <2>3, <2>4, SilenceMaxAssumption DEF SilenceEvents
<1> QED
    BY <1>1, <1>2, <1>3, TypeCorrect, PTL DEF Spec, FarewellNeedsSilence

====

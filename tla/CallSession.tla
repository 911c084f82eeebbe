---------------------------- MODULE CallSession ----------------------------
(***************************************************************************)
(* One phone call: my_agent/session.py, class CallSession.                 *)
(*                                                                         *)
(* The event loop runs one callback or coroutine step at a time, so every  *)
(* action below is the code between two awaits.  What interleaves: the     *)
(* coroutine run() (set-up, the wait for close_ev, tear-down), the tasks   *)
(* of _on_silence_timeout spawned by the STT stream, the playback tasks    *)
(* spawned by the AgentSession callbacks, and those callbacks themselves.  *)
(*                                                                         *)
(* Time is the boolean longSinceResume: whether STT_NO_SPEECH_TIMEOUT has  *)
(* elapsed since _last_resume_time, which is all the code asks of a clock. *)
(***************************************************************************)
EXTENDS Integers, Sequences

CONSTANTS
    Texts,          \* transcripts the caller's turns may have
    NoText,         \* None, before the first confirmation
    Tasks,          \* silence-handler tasks that may be suspended in an await
    Free,           \* the silence lock held by nobody
    SilenceMax,     \* STT_SILENCE_MAX_COUNT
    EarlyMax,       \* STT_EARLY_CLOSE_MAX_COUNT
    TimeoutCounts,  \* counts a "silence_timeout" message may carry
    MaxPending,     \* bound: handler tasks created and not yet started
    MaxPlaybacks    \* bound: playback tasks alive at once

ASSUME SilenceMaxAssumption == SilenceMax \in Nat \ {0}
ASSUME EarlyMaxAssumption == EarlyMax \in Nat \ {0}
ASSUME BoundsAssumption == MaxPending \in Nat /\ MaxPlaybacks \in Nat
ASSUME CountsAssumption == TimeoutCounts \subseteq 1 .. SilenceMax
ASSUME FreeAssumption == Free \notin Tasks
ASSUME NoTextAssumption == NoText \notin Texts

VARIABLES
    run,              \* where the coroutine run() is
    session,          \* the AgentSession: "none", "live", "closed"
    closeEv,          \* close_ev
    agentState,       \* _agent_state
    listening,        \* the STT plugin's _listening_event
    silenceCounter,   \* the STT plugin's _silence_counter, saturated
    longSinceResume,  \* elapsed >= STT_NO_SPEECH_TIMEOUT
    earlyCloseCount,  \* _early_close_count
    spawned,          \* handler tasks created and not yet started, FIFO
    phase,            \* what each suspended handler task awaits
    silenceLock,      \* _silence_lock: its holder
    lastConfirmation, \* _last_confirmation
    llmErrored,       \* _llm_errored_this_turn
    playbacks,        \* playback tasks in _bg_tasks
    dying,            \* playback tasks cancelled and not yet finished
    silentEous,       \* history: empty EOUs since the caller last spoke
    failed,           \* history: a failure the caller must be told of ...
    apologies,        \* history: ... and apologies, since the last FINAL
    repeated          \* history: that FINAL's text was the one before it

silenceVars == <<silenceCounter, longSinceResume, earlyCloseCount,
                 silentEous>>
handlerVars == <<spawned, phase, silenceLock>>
turnVars == <<failed, apologies, repeated>>
feedbackVars == <<lastConfirmation, llmErrored, turnVars>>
playbackVars == <<playbacks, dying>>
lifeVars == <<run, session>>
vars == <<lifeVars, closeEv, agentState, listening, silenceVars, handlerVars,
          feedbackVars, playbackVars>>

AgentStates == {"initializing", "listening", "thinking", "speaking"}
SetUp == {"connecting", "greeting", "starting", "active"}
TearDown == {"removing", "cancelling", "gathering", "closing", "plugins"}
Phases == {"idle", "reminder", "farewell", "pause"}

\* A saturating increment: the code only compares the counter with the cap.
Bump(n) == IF n < SilenceMax THEN n + 1 ELSE SilenceMax

\* A handler task's argument, and the type of the message that created it.
Messages == {"eou", "silence_timeout"}
SilenceEvents == [count : 1 .. SilenceMax, message : Messages]
SilenceEvent(n, message) == [count |-> n, message |-> message]

----------------------------------------------------------------------------
\* __init__ and _build_plugins: run() has registered the call, nothing
\* listens yet.
Init ==
    /\ run = "connecting"
    /\ session = "none"
    /\ closeEv = FALSE
    /\ agentState = "initializing"
    /\ listening = FALSE
    /\ silenceCounter = 0
    /\ longSinceResume = FALSE
    /\ earlyCloseCount = 0
    /\ spawned = <<>>
    /\ phase = [t \in Tasks |-> "idle"]
    /\ silenceLock = Free
    /\ lastConfirmation = NoText
    /\ llmErrored = FALSE
    /\ playbacks = 0
    /\ dying = 0
    /\ silentEous = 0
    /\ failed = FALSE
    /\ apologies = 0
    /\ repeated = FALSE

----------------------------------------------------------------------------
(* AgentSession callbacks: they run to completion, while it is live.       *)

\* Mutant: only thinking closes the gate.
GateAfter_Thinking(new) == new = "listening" \/ (listening /\ new # "thinking")

\* set_listening(True), set_listening(False), or neither.
GateAfter(new) == new = "listening" \/ (listening /\ new = "initializing")

\* agent_state_changed drives the listening gate.
OnAgentState(new) ==
    /\ session = "live"
    /\ agentState' = new
    /\ listening' = GateAfter(new)
    /\ longSinceResume' = (longSinceResume /\ new # "listening")
    /\ UNCHANGED <<lifeVars, closeEv, silenceCounter, earlyCloseCount,
                   silentEous, handlerVars, feedbackVars, playbackVars>>

\* _spawn: one more playback task, kept in _bg_tasks.
Spawn ==
    /\ playbacks + dying < MaxPlaybacks
    /\ playbacks' = playbacks + 1
    /\ UNCHANGED dying

\* user_input_transcribed with a final transcript: a confirmation phrase,
\* unless the text is the one confirmed last.
OnUserInput(text) ==
    /\ session = "live"
    /\ failed' = FALSE
    /\ apologies' = 0
    /\ repeated' = (text = lastConfirmation)
    /\ \/ /\ text = lastConfirmation
          /\ UNCHANGED <<lastConfirmation, llmErrored, playbackVars>>
       \/ /\ text # lastConfirmation
          /\ lastConfirmation' = text
          /\ llmErrored' = FALSE
          /\ Spawn
    /\ UNCHANGED <<lifeVars, closeEv, agentState, listening, silenceVars,
                   handlerVars>>

\* A partial reply is being spoken and the session survives the error.
ReplyIsAudible(recoverable) == recoverable /\ agentState = "speaking"

\* Mutant: the once-a-turn flag is ignored.
ApologyDue_Repeats(recoverable) == ~ReplyIsAudible(recoverable)

\* The caller is left without an answer, and has not been told so.
ApologyDue(recoverable) == ~llmErrored /\ ~ReplyIsAudible(recoverable)

\* An "error" event whose source is the LLM: an apology, once a turn.
OnError(recoverable) ==
    /\ session = "live"
    /\ failed' = (failed \/ ~ReplyIsAudible(recoverable))
    /\ \/ /\ ~ApologyDue(recoverable)
          /\ UNCHANGED <<llmErrored, apologies, playbackVars>>
       \/ /\ ApologyDue(recoverable)
          /\ llmErrored' = TRUE
          /\ apologies' = IF apologies < 2 THEN apologies + 1 ELSE 2
          /\ Spawn
    /\ UNCHANGED <<lifeVars, closeEv, agentState, listening, silenceVars,
                   handlerVars, lastConfirmation, repeated>>

PlaybackDone ==
    /\ playbacks > 0
    /\ playbacks' = playbacks - 1
    /\ UNCHANGED <<lifeVars, closeEv, agentState, listening, silenceVars,
                   handlerVars, feedbackVars, dying>>

----------------------------------------------------------------------------
(* What the STT stream makes of the service's messages.                    *)

\* Mutant: the counter survives.
ResetSilenceCounter_Forgets == UNCHANGED silenceCounter

\* The plugin's reset_silence_counter().
ResetSilenceCounter == silenceCounter' = 0

\* After an empty EOU the stream sleeps 0.1 s, so the handler it created
\* starts before the stream reads again; other messages may come in a row.
StreamReads ==
    /\ session = "live"
    /\ \A i \in DOMAIN spawned : spawned[i].message # "eou"

\* An "eou" without text: one more silence, a handler task with the count.
EmptyEou ==
    /\ StreamReads
    /\ silenceCounter' = Bump(silenceCounter)
    /\ spawned' = Append(spawned, SilenceEvent(Bump(silenceCounter), "eou"))
    /\ silentEous' = Bump(silentEous)
    /\ UNCHANGED <<lifeVars, closeEv, agentState, listening, longSinceResume,
                   earlyCloseCount, phase, silenceLock, feedbackVars,
                   playbackVars>>

\* A "silence_timeout" message: the count is the service's.
SilenceTimeout(count) ==
    /\ StreamReads
    /\ Len(spawned) < MaxPending
    /\ spawned' = Append(spawned, SilenceEvent(count, "silence_timeout"))
    /\ UNCHANGED <<lifeVars, closeEv, agentState, listening, silenceVars,
                   phase, silenceLock, feedbackVars, playbackVars>>

\* An "eou" with text: END_OF_SPEECH, and the silence counter starts over.
SpeechEou ==
    /\ StreamReads
    /\ ResetSilenceCounter
    /\ silentEous' = 0
    /\ UNCHANGED <<lifeVars, closeEv, agentState, listening, longSinceResume,
                   earlyCloseCount, handlerVars, feedbackVars, playbackVars>>

----------------------------------------------------------------------------
(* _on_silence_timeout.  Up to its first await a handler runs in one step. *)

\* Mutant: no lock.
HandlerBusy_NoLock == FALSE

\* locked(): the test and the acquisition below have no await between them.
HandlerBusy == silenceLock # Free

\* The stream closed before STT_NO_SPEECH_TIMEOUT: not a real silence.
EarlyClose == ~longSinceResume

\* Mutants: the streak is not counted; it is counted, and has no cap.
CountEarlyClose_Forgets == UNCHANGED earlyCloseCount
RetriesEarlyClose_NoCap == EarlyClose

CountEarlyClose == earlyCloseCount' = earlyCloseCount + 1

\* Early closes that have not reached the cap are retried, not escalated.
RetriesEarlyClose == EarlyClose /\ earlyCloseCount + 1 < EarlyMax

\* Mutant: the gate stays as it is.
ResumeListening_Deaf == longSinceResume' = FALSE /\ UNCHANGED listening

\* The caller is listened to again, and the no-speech clock restarts.
ResumeListening ==
    /\ listening' = TRUE
    /\ longSinceResume' = FALSE

\* The handler for the oldest event runs and does not return at its guards.
HandlerProceeds ==
    /\ spawned # <<>>
    /\ spawned' = Tail(spawned)
    /\ ~closeEv
    /\ ~HandlerBusy

\* A closing call, or a handler at work: the event is dropped.
SkipSilence ==
    /\ spawned # <<>>
    /\ closeEv \/ HandlerBusy
    /\ spawned' = Tail(spawned)
    /\ UNCHANGED <<lifeVars, closeEv, agentState, listening, silenceVars,
                   phase, silenceLock, feedbackVars, playbackVars>>

\* The lock is taken and released within the step.
IgnoreEarlyClose ==
    /\ HandlerProceeds
    /\ RetriesEarlyClose
    /\ CountEarlyClose
    /\ ResetSilenceCounter
    /\ ResumeListening
    /\ UNCHANGED <<lifeVars, closeEv, agentState, silentEous, phase,
                   silenceLock, feedbackVars, playbackVars>>

\* The early-close streak as the handler of a silence period leaves it.
CountStreak ==
    IF EarlyClose THEN CountEarlyClose ELSE earlyCloseCount' = 0

\* Stop listening and play a phrase with the lock held.
StartPhrase(t, phrase) ==
    /\ phase[t] = "idle"
    /\ phase' = [phase EXCEPT ![t] = phrase]
    /\ silenceLock' = t
    /\ listening' = FALSE
    /\ CountStreak
    /\ UNCHANGED <<lifeVars, closeEv, agentState, silenceCounter, silentEous,
                   longSinceResume, feedbackVars, playbackVars>>

\* Mutant: off by one.
Escalates_Late(count) == EarlyClose \/ count > SilenceMax

\* too_many_early, or the count the event carries has reached the cap.
Escalates(count) == EarlyClose \/ count >= SilenceMax

StartReminder(t) ==
    /\ HandlerProceeds
    /\ ~RetriesEarlyClose
    /\ ~Escalates(Head(spawned).count)
    /\ StartPhrase(t, "reminder")

StartFarewell(t) ==
    /\ HandlerProceeds
    /\ ~RetriesEarlyClose
    /\ Escalates(Head(spawned).count)
    /\ StartPhrase(t, "farewell")

\* play_phrase returns, played or failed; the caller is listened to again.
ReminderDone(t) ==
    /\ phase[t] = "reminder"
    /\ phase' = [phase EXCEPT ![t] = "idle"]
    /\ silenceLock' = Free
    /\ ResumeListening
    /\ UNCHANGED <<lifeVars, closeEv, agentState, silenceCounter,
                   earlyCloseCount, silentEous, spawned, feedbackVars,
                   playbackVars>>

FarewellDone(t) ==
    /\ phase[t] = "farewell"
    /\ phase' = [phase EXCEPT ![t] = "pause"]
    /\ UNCHANGED <<lifeVars, closeEv, agentState, listening, silenceVars,
                   spawned, silenceLock, feedbackVars, playbackVars>>

HangUp == closeEv' = TRUE

\* sleep(2.0) is over: hang up.
PauseDone(t) ==
    /\ phase[t] = "pause"
    /\ phase' = [phase EXCEPT ![t] = "idle"]
    /\ silenceLock' = Free
    /\ HangUp
    /\ UNCHANGED <<lifeVars, agentState, listening, silenceVars, spawned,
                   feedbackVars, playbackVars>>

\* STT_NO_SPEECH_TIMEOUT elapses; tasks that are ready have run by then.
TimePasses ==
    /\ ~longSinceResume
    /\ spawned = <<>>
    /\ longSinceResume' = TRUE
    /\ UNCHANGED <<lifeVars, closeEv, agentState, listening, silenceCounter,
                   earlyCloseCount, silentEous, handlerVars, feedbackVars,
                   playbackVars>>

----------------------------------------------------------------------------
(* run()                                                                   *)

\* The coroutine moves from one of its awaits to the next.
Goto(from, to) == run \in from /\ run' = to

\* What a step of run() before the tear-down leaves alone.
KeepCall == UNCHANGED <<closeEv, agentState, listening, silenceVars,
                        handlerVars, feedbackVars>>

\* ctx.connect() returns; the greeting comes before session.start.
Connected ==
    /\ Goto({"connecting"}, "greeting")
    /\ KeepCall
    /\ UNCHANGED <<session, playbackVars>>

\* The AgentSession is created, its callbacks registered, and it starts.
GreetingDone ==
    /\ Goto({"greeting"}, "starting")
    /\ session' = "live"
    /\ KeepCall
    /\ UNCHANGED playbackVars

SessionStarted ==
    /\ Goto({"starting"}, "active")
    /\ KeepCall
    /\ UNCHANGED <<session, playbackVars>>

\* connect() or session.start() raises: logged, and then the finally block.
SetUpFails ==
    /\ Goto({"connecting", "starting"}, "removing")
    /\ KeepCall
    /\ UNCHANGED <<session, playbackVars>>

\* Mutant: run() waits for the session to become inactive instead.
CallOver_Inactive == session # "live"

CallOver == closeEv

\* close_ev.wait() returns; unregister_call, then the participants go.
CallEnds ==
    /\ CallOver
    /\ Goto({"active"}, "removing")
    /\ KeepCall
    /\ UNCHANGED <<session, playbackVars>>

ParticipantsRemoved ==
    /\ Goto({"removing"}, "cancelling")
    /\ KeepCall
    /\ UNCHANGED <<session, playbackVars>>

\* Cancelled, and waited for if there are any.
CancelPlaybacks ==
    /\ Goto({"cancelling"}, IF playbacks = 0 THEN "closing" ELSE "gathering")
    /\ dying' = dying + playbacks
    /\ playbacks' = 0
    /\ KeepCall
    /\ UNCHANGED session

PlaybackCancelled ==
    /\ dying > 0
    /\ dying' = dying - 1
    /\ KeepCall
    /\ UNCHANGED <<lifeVars, playbacks>>

\* gather() waits for the tasks that were cancelled, and for no others.
PlaybacksGathered ==
    /\ dying = 0
    /\ Goto({"gathering"}, "closing")
    /\ KeepCall
    /\ UNCHANGED <<session, playbackVars>>

\* Mutant: the stream ends and its tasks go on.
CancelHandlers_Forgets == UNCHANGED handlerVars

\* The finally block of the stream: a cancelled holder releases the lock.
CancelHandlers ==
    /\ spawned' = <<>>
    /\ phase' = [t \in Tasks |-> "idle"]
    /\ silenceLock' = Free

\* The AgentSession closes its STT stream, then emits "close", which sets
\* close_ev.
CloseSession ==
    /\ session' = "closed"
    /\ closeEv' = TRUE
    /\ CancelHandlers
    /\ UNCHANGED <<agentState, listening, silenceVars, feedbackVars,
                   playbackVars>>

\* session.aclose() in the finally block.
SessionClosed ==
    /\ Goto({"closing"}, "plugins")
    /\ IF session = "live"
       THEN CloseSession
       ELSE KeepCall /\ UNCHANGED <<session, playbackVars>>

\* _aclose_plugins and ctx.shutdown.
Shutdown ==
    /\ Goto({"plugins"}, "ended")
    /\ KeepCall
    /\ UNCHANGED <<session, playbackVars>>

\* The library closes the session by itself: the caller left, or errors.
OnClose ==
    /\ session = "live"
    /\ CloseSession
    /\ UNCHANGED run

\* POST /hangup found the call registered; the loop sets close_ev later.
Hangup ==
    /\ run # "ended"
    /\ ~closeEv
    /\ closeEv' = TRUE
    /\ UNCHANGED <<lifeVars, agentState, listening, silenceVars, handlerVars,
                   feedbackVars, playbackVars>>

----------------------------------------------------------------------------
Callbacks ==
    \/ \E new \in AgentStates : OnAgentState(new)
    \/ \E text \in Texts : OnUserInput(text)
    \/ \E recoverable \in BOOLEAN : OnError(recoverable)
    \/ OnClose

StreamEvents ==
    \/ EmptyEou
    \/ \E count \in TimeoutCounts : SilenceTimeout(count)
    \/ SpeechEou

\* The first step of the handler task that was created first.
HandlerStarts ==
    \/ SkipSilence
    \/ IgnoreEarlyClose
    \/ \E t \in Tasks : StartReminder(t) \/ StartFarewell(t)

HandlerResumes(t) == ReminderDone(t) \/ FarewellDone(t) \/ PauseDone(t)

Handlers == HandlerStarts \/ \E t \in Tasks : HandlerResumes(t)

Playbacks == PlaybackDone \/ PlaybackCancelled

Run ==
    \/ Connected
    \/ GreetingDone
    \/ SessionStarted
    \/ SetUpFails
    \/ CallEnds
    \/ ParticipantsRemoved
    \/ CancelPlaybacks
    \/ PlaybacksGathered
    \/ SessionClosed
    \/ Shutdown

Next == Callbacks \/ StreamEvents \/ Handlers \/ Playbacks \/ Run
            \/ TimePasses \/ Hangup

\* The event loop runs every ready task, and what they await returns: HTTP
\* requests and the library's calls have time-outs, the pause is a timer, a
\* cancelled task ends.  Nothing is assumed of the caller, the service, the
\* LLM or the clock.
Fairness ==
    /\ WF_vars(HandlerStarts)
    /\ \A t \in Tasks : WF_vars(HandlerResumes(t))
    /\ WF_vars(PlaybackDone)
    /\ WF_vars(PlaybackCancelled)
    /\ WF_vars(Run)

Spec == Init /\ [][Next]_vars /\ Fairness

----------------------------------------------------------------------------
(* Properties                                                              *)

LifeOK ==
    /\ run \in SetUp \cup TearDown \cup {"ended"}
    /\ session \in {"none", "live", "closed"}
    /\ closeEv \in BOOLEAN
    /\ agentState \in AgentStates
    /\ listening \in BOOLEAN

CountersOK ==
    /\ silenceCounter \in 0 .. SilenceMax
    /\ earlyCloseCount \in 0 .. EarlyMax
    /\ silentEous \in 0 .. SilenceMax

SilenceOK ==
    /\ CountersOK
    /\ longSinceResume \in BOOLEAN

HandlersOK ==
    /\ spawned \in Seq(SilenceEvents)
    /\ phase \in [Tasks -> Phases]
    /\ silenceLock \in Tasks \cup {Free}

FeedbackOK ==
    /\ lastConfirmation \in Texts \cup {NoText}
    /\ llmErrored \in BOOLEAN
    /\ failed \in BOOLEAN
    /\ apologies \in 0 .. 2
    /\ repeated \in BOOLEAN

PlaybackOK == playbacks \in Nat /\ dying \in Nat

\* Every variable keeps its type; the early-close count stays within its cap.
TypeOK == LifeOK /\ SilenceOK /\ HandlersOK /\ FeedbackOK /\ PlaybackOK

\* Silence handlers never overlap: a task that awaits a phrase or the pause
\* holds the lock, and the lock is held by no other task, whatever order
\* events, phrases and tear-down come in ("overlapping reminders/farewell
\* would race the listening-gate and double-play phrases").
LockHeldByPhrase == \A t \in Tasks : (phase[t] # "idle") <=> (silenceLock = t)

\* The call never goes deaf: while the agent is listening, no phrase is
\* being played and nobody has hung up, the STT listening gate is open.
NeverDeaf ==
    /\ session = "live"
    /\ agentState = "listening"
    /\ silenceLock = Free
    /\ ~closeEv
    => listening

\* The agent hears its own voice (plugin_stt.py:490: "echo prevention") only
\* if a silence handler opened the gate over its head: whatever the callbacks
\* do, a gate that is open while the agent thinks or speaks was opened by a
\* handler, and no longer ago than the agent's last change of state.
OnlyHandlersEcho ==
    [][agentState' \in {"thinking", "speaking"} /\ listening' =>
          \/ listening /\ agentState' = agentState
          \/ handlerVars' # handlerVars]_vars

\* A streak of early closes that reaches the cap is on its way to a hang-up:
\* it cannot go on with the caller left in the call.
EarlyCapEndsCall ==
    earlyCloseCount >= EarlyMax =>
        \/ closeEv
        \/ session # "live"
        \/ \E t \in Tasks : phase[t] \in {"farewell", "pause"}

\* The farewell starts here.
FarewellStarts ==
    \E t \in Tasks : phase[t] = "idle" /\ phase'[t] = "farewell"

\* A caller who has just spoken is not hung up on for silence: a farewell for
\* the silence count comes after SilenceMax empty EOUs without speech.
FarewellNeedsSilence ==
    [][FarewellStarts /\ longSinceResume => silentEous >= SilenceMax]_vars

\* The caller hears at most one apology between two turns of theirs, whatever
\* errors and retries the LLM has in between; and exactly one if the request
\* failed outside an audible reply, also when a recoverable error came first.
\* The turns whose text repeats the one before are the exception (see
\* FailureApologised).
ApologisedOnce ==
    /\ apologies <= 1
    /\ failed /\ ~repeated => apologies = 1

\* "In every other situation the user is left in silence and must be told to
\* repeat" (session.py:192), with no exception.
FailureApologised == failed => apologies > 0

\* After the tear-down has cancelled the playback tasks none is left to
\* publish a track (session.py:497).
NoPlaybackAfterCancel ==
    run \in {"closing", "plugins", "ended"} => playbacks = 0

\* The tear-down leaves no silence handler behind, and no lock held.
EndedQuietly ==
    run = "ended" => /\ spawned = <<>>
                     /\ silenceLock = Free
                     /\ session # "live"

\* Once close_ev is set, by whichever party, the coroutine run() ends.
ClosedCallEnds == closeEv ~> (run = "ended")

\* Endless early closes end the call: if the service keeps closing the stream
\* and none of them lasts STT_NO_SPEECH_TIMEOUT, close_ev is set.
EarlyClosesHangUp ==
    []<><<EmptyEou>>_vars /\ <>[](~longSinceResume) => <>closeEv

\* Real silence ends the call: if the service keeps reporting silence, the
\* caller never speaks again and no stream closes early any more, close_ev is
\* set.
RealSilenceHangsUp ==
    /\ []<><<EmptyEou>>_vars
    /\ <>[][~SpeechEou]_vars
    /\ <>[][~IgnoreEarlyClose]_vars
    => <>closeEv
====

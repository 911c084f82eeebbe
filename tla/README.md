# The voice agent, specified

A TLA+ development of the LiveKit voice agent in `livekit-agent/`: what its
coroutines, callbacks, locks, queues and connections do, checked by TLC on small
instances, and proved by TLAPS where a proof is within reach.

Paths below are relative to the repository; `session.py`, `plugin_stt.py`,
`plugin_tts.py` and `http_api.py` are in `livekit-agent/my_agent/`, `server.py`,
`sber_stt.py` and `token_manager.py` in `livekit-agent/stt_service/`, where
`server.py` without more is. The TTS service is `livekit-agent/tts_service/`.

1. [The system](#1-the-system)
2. [The modules](#2-the-modules)
3. [The runs](#3-the-runs)
4. [Fairness](#4-fairness)
5. [What is proved](#5-what-is-proved)
6. [Where the code departs from its documentation](#6-where-the-code-departs-from-its-documentation)
7. [Limits](#7-limits)
8. [What is left](#8-what-is-left)

## 1. The system

A caller is in a LiveKit room. The agent transcribes what the caller says over a
WebSocket to the STT service (which streams to Sber over gRPC), asks an LLM, and
speaks through the TTS service (HTTP). LiveKit's `AgentSession` ties speech
recognition, LLM and speech together, and is external: it is modelled by the
callbacks it makes.

| component | state it keeps | operations | what makes it correct |
|---|---|---|---|
| Call session (`session.py`) | `close_ev`, agent state, silence lock, early-close count, once-a-turn apology flag, last confirmed text, playback tasks | `run()` from set-up to tear-down; `_on_agent_state`, `_on_user_input`, `_on_error`, `_on_close`; `_on_silence_timeout` | whoever hangs up, `run()` ends; silence handlers exclude each other; the caller is never left unheard; a farewell is earned; one apology per failed turn; nothing survives the call |
| STT stream (`plugin_stt.py`) | the await `_run` is at, back-off, `_has_seen_eou`, `_last_final_text`, silence counter, listening gate, audio queue | `connect`, turn-start gate, `start`/`stop`, read loop, dispatch of messages, audio tasks | the service is told what the stream is doing; END_OF_SPEECH comes after its FINAL, with at most interims in between; an `eou` does not repeat the last FINAL; the stream comes back to reading |
| STT connection (`server.py`, `sber_stt.py`) | listening gate, bounded audio queue, one gRPC session at a time with `responses_count` and `had_text` | receiver, `run()`, request iterator, `_on_final`, the no-text guard, the 30 s wait | a session hears fresh audio only; commands are processed under a flood of audio; a lost connection is cleaned up |
| OAuth tokens (`token_manager.py`, refresh loop of `server.py`) | token, expiry, lock | `get_token`, `_fetch_token` with retries, start-up fetch, background refresh | the cache gives up before the token; no herd of fetches; every call ends; sessions find a warm cache |
| Phrase playback (`plugin_tts.py`) | `_last_phrase`, `_play_lock`, one source and track per call | `play`, `play_phrase`, `play_text`, `_request` with retries, `_play_pcm` | phrases never overlap; sources are closed; every call ends |
| LiveKit TTS plugin (`plugin_tts.py`) | none; one request under way | one request per sentence, with its retries | the caller hears the reply, all of it and in order, but for sentences the model refuses; a reply ends |
| HTTP API and registry (`http_api.py`) | `_active_calls` under a thread lock | `register_call`, `unregister_call`, `POST /call`, `POST /hangup` | a registered call can be hung up, and no other is |
| Job dispatch (`main.py`) | none | inbound or outbound, dial, wait for the callee | a job that does not reach `run()` shuts down |
| TTS service (`tts_service/`) | warm-up caches, one-worker executor and its queue | warm-up, `synthesize`, `select_phrase`, `get_phrase` | phrases never wait behind the worker, and are there once it serves; retries do not pile up behind it |
| Text functions (`sentence_splitter.py`, `plugin_tts_transforms.py`, `translit.py`, `tts_engine.py`) | none | split, place, spell, transliterate, sanitise | together they lose, double and reorder nothing the caller should hear |
| Audio levels (`stt_service/audio.py`) | none | peak, gain | saturation at 16 bits |
| Configuration, entry points, stubs | none | | no behaviour of their own |

How they interact:

* `AgentSession` calls `CallSession`'s callbacks; they run to completion on the
  agent's event loop. `CallSession` opens and closes the STT plugin's listening
  gate (`set_listening`) and resets its silence counter.
* The STT stream creates a task of `_on_silence_timeout` for every empty `eou`
  and every `silence_timeout` message, and sends interims, FINAL and END_OF_SPEECH to
  `AgentSession` through an unbounded channel.
* Stream and service exchange commands (`start`, `stop`), audio frames and JSON
  messages over one WebSocket, which may break in either direction.
* The LLM's chunks pass the text transforms and a sentence stream; the TTS plugin
  asks the TTS service for one sentence after the other.
* Silence handlers and playback tasks call the `ConfirmationPlayer`, which
  asks the TTS service and publishes a track in the room.
* Sessions of the STT service ask the one `TokenManager`.
* The HTTP thread posts `close_ev.set` to a call's loop.

What is hard to test in it, in the order of the damage done: silence handlers,
agent-state callbacks and the stream changing one listening gate; two counters
that reset each other; a WebSocket that breaks between any two messages while
both ends restart their session; the service's no-text guard, which reads the
gate after it has closed a session; cancellation at each await of the playback;
a tear-down that runs while the session is still live; timeouts (10 s, 30 s, the
no-speech time) that race the event they wait for; a token that expires while
callers queue for the lock; audio frames in three places (queue, sender, wire)
when a turn begins or a connection breaks; a worker whose queue holds requests
nobody waits for any more; text that is cut at places found again by searching.
`PROJECT.json` lists each at its line, with the
properties that watch it.

## 2. The modules

| module | models | its proofs |
|---|---|---|
| `CallSession` | one call, `session.py` | `CallSessionProofs` |
| `SttStream` | the agent's end of speech recognition, as an open specification: any service, any connection | `SttStreamProofs` |
| `SttAudio` | the audio tasks of the same stream, and what its loop does to them | `SttAudioProofs` |
| `AudioFeed` | abstract: what the recognition of a turn may count on | implemented by `SttAudio` |
| `SttConnection` | one WebSocket of the STT service, with its gRPC sessions | `SttConnectionProofs` |
| `SttLink` | `SttStream` and `SttConnection` on one WebSocket | `SttLinkProofs` |
| `ConfirmationPlayer` | phrases played beside the session, with `select_phrase` of the TTS service | `ConfirmationPlayerProofs` |
| `TokenManager` | the OAuth token, and those who ask for it | `TokenManagerProofs` |
| `TtsService` | the TTS service with its worker, and the clients' retries | `SpeechProofs` |
| `SentenceSplitter` | the text functions from the LLM to the TTS model | `SpeechProofs` |
| `Speech` | a reply on its way to the caller: the text functions and the TTS plugin over `TtsService` | `SpeechProofs` |
| `MCCallSession`, `MCSttConnection`, `MCSpeech` | instances for TLC: a symmetry set; an arbitrary agent on the other end of the service's wires; the replies | |

In every module an action is the code between two awaits, which is what one
event loop makes atomic, and the variable that names a coroutine's place
(`run`, `pc`, `main`, `at`) has one value per await. `vars` groups and history
variables are declared as such; a history variable is read by properties and
by no guard, with one exception named below. Operators called `..._Something` under a
`Mutant:` comment are not part of the specification: they are wrong variants of
the operator they are named after, kept to show that a property notices.

**CallSession.** `run` walks through `run()`: connecting, greeting, starting,
active, then the five awaits of the `finally` block. `session` is the
`AgentSession`; its callbacks can fire while it is `"live"`, which it is from
its creation until `session.aclose()`, so also during most of the tear-down.
A silence event is a task: appended to `spawned` when the stream creates it, it
runs `_on_silence_timeout` up to its first await in one step (`SkipSilence`,
`IgnoreEarlyClose`, `StartReminder` or `StartFarewell`) and then occupies a
member of `Tasks` until its phrase and pause are over. After an empty `eou` the
stream sleeps 0.1 s, so that handler starts before another event
(`StreamReads`); `silence_timeout` messages may come in a row, up to
`MaxPending`. Time is the one Boolean the code asks a clock for,
`longSinceResume`; `TimePasses` may set it whenever no handler is ready to run.
The closing of the stream inside `session.aclose()` cancels the handlers, and a
cancelled holder releases the lock.

**SttStream.** `pc` names the await of `_run`; `toService` and `toAgent` are the
two directions of the WebSocket, `link` whether it is up. When it breaks, what
was on its way to the service is lost, and of what was on its way to the agent a
prefix arrives. A send on a broken connection either vanishes or raises. The
environment is arbitrary: `ServiceActs` says any message at any time,
`SetListening` moves the gate at will, `EndInput` and `Cancelled` end the stream.
`connect()` is modelled with its real exit condition, which no attempt reaches.
Interims with text are passed on (`ReadInterim`) and change nothing `_run`
remembers; the history variable `shown` is the last FINAL or END_OF_SPEECH, which
is what `_last_final_text` and the two properties are about.

**SttAudio.** The same `_run` with its waits collapsed to those that matter to
`drain_input` and `send_audio`: a frame is its number, and is in `audioQ`, `held`
by the sender in its `send`, or has been `heard` since the last `start`. Messages
of the service are choices (`TurnEnds`, `SilentRestart`), the gate moves at will,
the connection breaks at any time. The flush at the turn start empties the queue
but not the sender's hand; a sender whose send fails puts the frame back at the
tail (or loses it to a full queue) and ends, and the next `_ensure_send_task`
creates another. A send on a broken connection may also vanish: the frame is
lost and the sender goes on (`SendVanishes`), and so may a `start`
(`StartVanishes`). What the service has heard it forgets with the connection.
A sender that waits in `audio_q.get()` outlives the loss of a
connection and serves the next. One timing fact is used: a send that
was under way when the connection broke has ended by the time the loop has
dialled again, which takes many turns of the event loop (`Connected`).

**AudioFeed.** What remains of a turn's audio when all of that has happened:
frames may be lost, but those that come are later than the last flush, in order,
and never twice, apart from a single stray frame. Its three actions (a frame is
captured, a `start` or the end of a connection, a frame is heard) are what `FeedsTurn` maps every step of
`SttAudio` to. The natural promise, a lossy FIFO of the turn's frames, is not
what the code implements; the stray is what it costs.

**SttConnection.** Three coroutines: `recv` (the receiver task), `main`
(`run()`) and `iter` (the gRPC request iterator). Sber is external: it sends
interim results, an end of utterance, an end of stream or an error in any order,
at most one `eou` to a session (the requests do not ask for multi-utterance), and
with `SilentEnds` it may also end a stream without one. An audio frame is the
number of `start` commands processed before it came, which is what
`OnlyFreshAudio` needs; `turn` is the history variable that a frame is copied
from. `told`, whether the session has sent its `eou`, is the exception announced
above: it also stands for Sber's having ended its utterance, so `Responds` and
`SberEnds` read it. A lost connection is followed until its object ends.

**SttLink.** Instantiates both on the same wires. A connection the agent opens gets
a fresh service object; the object of a lost one ends by itself, as
`SttConnection` shows, and is not followed further. Two substitutions do the work
of a composition: `Agent!...` actions leave the service's variables alone, and
the other way round. `ServiceIsAdmissible` is the refinement: the closed system
implements the open specification `SttStream`, so every safety property proved
of the stream against any service holds with this one. It is a theorem
(`ServiceFits`) and no run checks it: the open specification allows so much that
little in the code could break it. What the composition itself is about is
`GateFollowsStream`, `EouAlreadyFinal`, `HeardAgain` and `NoLostStart`.

**ConfirmationPlayer.** Each task is one call of `play`, `play_phrase` or
`play_text`: a request with its retries, the FIFO playback lock, publish, play,
unpublish, `aclose`. `CallSession`'s tear-down may cancel it once, at any await.
`publish_track` cancelled may or may not have left a track; `unpublish_track`
may fail. The source is closed in the same step that ends the block, since
closing it comes last.

**TokenManager.** Calls interleave at the lock and at the fetch. Time is counted
in minutes and as what is left (`cacheLeft`, `tokenLeft`, `timer`), so no clock
grows. `tokenLeft` is the truth, `cacheLeft` what the code believes; the clock is
read before the fetch (`age`), and the 300 s margin is subtracted when the token
is cached and again when it is read, as in the code. An answer 200 without an
`access_token` is cached as `None`, which is no token to the next call
(`FetchedNone`).

**TtsService.** A request is sent, handled (from a cache, rejected, or queued for
the one worker), answered, tried again after a back-off, or cancelled. A client
that gives up takes nothing back: its job stays in the queue. Whether the first
job is still waited for (`Awaited`) is read off the queue and the clients: an answer
belongs to the connection of the client's last attempt. That is HTTP's doing and
not the program's, and no property is about it.
The service warms up before it accepts connections, and may crash at any time;
caches and queue go with it. Any number of clients, no fairness: the module is
the open specification that the theorems are about.

**SentenceSplitter.** Text as a sequence of characters, one character for each
class the code tells apart (a stop, a break, a space, a newline, a digit, two
Latin letters with their digraph, Cyrillic letters). `FirstEnd` is where the
first piece of `_SEP.split` ends, `Parts` goes on behind it; `Chop` is the loop of
`_post_split_parts`, `PartEnds` the positions `_split_stream` finds again with
`str.find`; `Emitted`, `Drain` and `Flushed` are the library's `BufferedTokenStream`, taken
from how the tokenizer is given to it. `Letters` is what the model is asked to
pronounce.

**Speech.** The LLM's reply comes in chunks of any size; each passes `Spell`, is
pushed, and may free tokens; the plugin asks `TtsService` for one after the
other, while another client competes for the worker. `heard` is the history of
letters played. Two branches of the code are dead here and left out: an empty
text (no token is empty), and the 422 of the server for one. Audio that the model
refuses with `ValueError` is 300 ms of silence under HTTP 200 in the code: in
`heard` it is as many `Silence`s as the sentence has letters (`Played`). Which texts
are refused the library alone knows, so any may be.

### Correspondence

`PROJECT.json` maps every definition that models code to its lines. The
constants stand for: `SilenceMax` `STT_SILENCE_MAX_COUNT` (3), `EarlyMax`
`STT_EARLY_CLOSE_MAX_COUNT` (10), `RetryBase`/`RetryMax` the stream's 1 s and
16 s, `QueueMax` the `maxsize` of `_audio_q`, `MaxRetries` `_MAX_RETRIES` (2),
`MaxAttempts` `_MAX_AUTH_RETRIES`, `Margin`, `RefreshPeriod` and `RetryDelay` the
300 s, 300 s and 60 s of the token's life; `WordLen`, `SoftMax`, `CutFrom`, `CutTo` the 6,
90, 60 and 100 of the splitter, `MinLen`, `MinCtx` the 15 and 10 of
`create_tts_plugin`. In `SttAudio`, `QueueMax` is the 500 of `audio_q`.

## 3. The runs

| run | expects | shows |
|---|---|---|
| `CallSession_safety` | pass | the whole call: types, exclusion of the handlers, an open gate, the only way to an echo, the early-close cap, a quiet end, apologies |
| `CallSession_liveness` | pass | a farewell for silence is earned; closed calls end; endless early closes, or endless real silence, end the call |
| `CallSession_repeated_text` | violation | `FailureApologised` |
| `CallSession_teardown` | violation | `NoPlaybackAfterCancel` |
| `SttStream_turns` | pass | the stream against any service: what the service was told, FINAL before END_OF_SPEECH, no FINAL repeated by an `eou`, return to reading |
| `SttAudio_frames` | pass | refinement of `AudioFeed`; a sender for every reading stream; no frame is stuck |
| `SttConnection_sessions` | pass | the service against any agent: bounded queue, fresh audio, commands, cleanup |
| `SttLink_turns` | pass | the service's gate follows the stream; its `eou` is already final; the caller is heard again and again |
| `SttLink_lost_start` | violation | `NoLostStart` |
| `ConfirmationPlayer_phrases` | pass | one voice, no leak but one, a repeat only by overlapping requests, every call ends |
| `TokenManager_calls` | pass | the cache is conservative, no herd, warm cache, calls end |
| `Speech_replies` | pass | every letter of a reply in order, or silence for a refused sentence; retries do not pile up; warm phrases never queue or fail; replies end |

The properties, and what it takes to break them:

* `NeverDeaf`: gate open whenever the agent listens, no handler holds the lock
  and nobody hung up. Four places move the gate; forgetting one of them breaks it
  several steps later.
* `OnlyHandlersEcho`: the gate is open on the agent's own voice only after a
  silence handler has moved, and until the agent's next change of state at most.
  A callback that leaves the gate open for the wrong state breaks it.
* `EarlyClosesHangUp`, `FarewellNeedsSilence`: the escalation is neither missed nor
  early. The second compares the count a handler was created with to what the
  caller has really done since (`silentEous`). It holds when silence is reported
  by `eou` messages alone (`TimeoutCounts = {}`), which is what this service
  sends; a `silence_timeout` message carries a count of its own.
* `ApologisedOnce`: any sequence of recoverable and final LLM errors, replies and
  transcripts.
* `ServiceToldRight`: three places send `start` and two `stop`, with a
  reconnection possible in each; on a live connection the last command agrees
  with what the stream is doing.
* `EosFollowsFinal`, `NoDuplicateFinal`: the pair `final`, `eou` and the lone
  `eou`, with interims anywhere, across lost connections and stale messages. The
  second is about the FINAL an `eou` adds and no other: a service that sends
  `final` twice is believed.
* `FeedsTurn`, `FramesFlow`: a flush, a gate and a broken connection in any order
  with two tasks. The stray takes a sender that holds a frame while the next turn
  begins, or a send that fails; two strays would take two of them with no `start`
  in between, which the sender's end rules out. `FramesFlow` fails if a sender
  that ended with a lost connection is not created again.
* `OnlyFreshAudio`: also when `stop` and `start` come between two looks of the
  request iterator at the gate, so that one session spans two turns.
* `GateFollowsStream`: with no command under way the service's gate is open only
  while the stream reads. Three places of the stream send commands, two of the
  service change the gate, and a new connection begins with a closed one; the
  property fails if a connection object inherits the gate of the one before. It
  does not say the converse: that is `NoLostStart`, which is false.
* `EouAlreadyFinal`: `_on_final` always sends `final` first, so the stream's
  suppression of a duplicate FINAL is always the branch taken with this service.
* `HeardAgain`: the composed system recovers from a lost `start` and from any
  loss of the connection. The recovery from a lost `start` is the service's 30 s
  timeout and nothing else: with the timeout taken out the property fails.
* `OneVoice`, `OnlyLateCancelLeaks`, `EveryPhraseEnds`: any interleaving of
  failures and cancellations with the lock's queue.
* `OnlyOverlapsRepeat`: "no repeat" with the exception the code has. It fails if
  the server forgets the phrase it was told, or the player any of its answers.
* `PhraseServed`: a phrase asked for while the service crashes and starts again, by
  any of the three endpoints, is neither synthesised nor rejected.
* `NoPileUp`: when a sentence is answered, no job of its earlier attempts is left in
  the queue, so the next sentence waits for none of them. It rests on the one
  worker's order ("serialises calls", `tts_service/server.py:40`): with a second worker
  the late attempt may be done first, and over a long reply the jobs nobody
  waits for add up.
* `SaidInOrder`: letters of the whole reply, spelled and transliterated at once,
  against what was played piece by piece, place by place: a letter or, in a refused
  sentence, silence in its stead. It fails if a part is cut inside a
  digraph, cut at a wrong place, or lost. `PlacesAreExact` says why it holds: the
  fallback of `_split_stream` for a part that is not found is never taken.
* `NoHerd`, `CacheStaysWarm`: calls that waited behind a successful fetch use its
  token; while fetches succeed, the refresh comes early enough for the doubled
  margin. Both hold for lifetimes that are long against twice the margin, the
  refresh period and the duration of a fetch (`expires_in` is 3600 s if Sber
  does not say); a token that lives less than the two margins is stale at once,
  by the code's own reckoning.

### Bounds

* Two handler tasks are one more than the lock lets through, so every overlap
  that is possible occurs; `SilenceMax = EarlyMax = 2` leaves room for both a
  count below the cap and one at it, and for each count to reset the other. The
  proofs cover every value.
* Two texts distinguish a new turn from a repeated one. One playback task at a
  time bounds `Spawn`; the tear-down run allows two, so that one can be
  cancelled and another spawned.
* `MaxPending = 2`: two events queued behind a running handler. `MaxWire` and
  `MaxCommands`: two messages and commands under way make reordering of `stop`,
  `start` and a break visible. In `SttLink`, `MaxSays` and `MaxCommands` stop Sber
  and the agent while that much is under way; the service answers, so more can be
  on the wire, and `MaxWire = 9`, what `LinkBoundsAssumption` asks for, is never
  reached (`RoomInv` in `SttLinkProofs`): it stands in no one's way.
* `QueueMax = 2` with audio at any time: the queue overflows within three frames.
  `MaxTurns = 3` saturates; `OnlyFreshAudio` speaks of turns below it.
* Three phrase tasks: one holds the lock, two queue, so that the queue's order and
  a cancelled waiter matter. `MaxRetries = 1` has a retry and a last attempt.
* Tokens of 20 minutes with fetches of at most one minute, two callers and the
  refresh task: two margins, a refresh period and a fetch fit, and little more.
* Audio: a queue of two overflows with a third frame, five frames allow two
  strays, a flush and fresh ones on top. The refinement is proved for all sizes.
* Speech: the splitter's numbers are scaled down (2, 6, 4, 7 for 6, 90, 60, 100),
  so that replies of up to fifteen characters have every cut: breaks after short
  and long words, a space inside the window, beyond it, none, runs of blanks,
  newlines, digits next to a chunk's end, a text without a letter. Every chunking
  of every reply is tried. One competing client, and one retry, give a queue with
  jobs nobody waits for before and behind one that is waited for.
* Liveness runs use no symmetry.
* `CHECK_DEADLOCK FALSE` is given where the system does stop: a call that has
  ended, a stream that is done, a connection that has left, phrases that are
  over. `TokenManager` never stops, and deadlock is checked there.

## 4. Fairness

* The event loop runs what is ready: weak fairness of the handlers' steps, of
  `run()`, of the steps of `_run`, of the service's coroutines.
* What they await returns: HTTP requests have time-outs and bounded retries, the
  library's calls return, sleeps end, a cancelled task finishes.
* The 30 s of the service pass (`StartTimeout`). Sber ends, or breaks, a stream
  whose requests have ended: the channel's keepalive finds a dead connection.
  The streaming call itself has no deadline, so this is an assumption.
* `SttLink` adds strong fairness of a successful connection attempt, for a
  service that can be reached; `HeardAgain` is further conditional on a
  connection that stops breaking and is fast (`LinkIsFast`): commands arrive
  before Sber's next response, and the 30 s do not run out while a turn starts.
* `SttAudio`: the event loop runs the sender when a frame is there or its send
  returns. Nothing is assumed of the loop, the gate or the connection.
* `Speech`: the plugin's task runs, and its request makes progress: it is handled,
  or httpx's time-outs (5 s, 30 s) fire. Nothing is assumed of the service, which
  may crash for ever or never finish a job, nor of the worker; `ReplyEnds` holds all
  the same, because attempts are bounded.
* Nothing is assumed of the caller, of the LLM, of the clock of `CallSession`, of
  what the service says in `SttStream`, nor of cancellation.

## 5. What is proved

TLAPS checks these for every value of the constants that satisfies the named
assumptions of the modules (caps and queue sizes are positive, `Free` is no task,
`NoText` is no text, the sets of counts and lifetimes hold naturals, the wire of
`SttLink` is longer than what can be under way). Some theorems have a
hypothesis of their own: `TimeoutCounts = {}` (`FarewellIsEarned`), `OutlivesQueue`
(`FetchIsShared`), `OutlivesRefresh` (`CacheIsKeptWarm`) and `AllTexts` (those about
`Speech`, `NothingPilesUp` among them), below. The runs satisfy
them.

**CallSessionProofs.** `IInv` is inductive: types; the lock is held by exactly
the task that is suspended (`LockHeldByPhrase`); `NeverDeaf`; `EarlyCapEndsCall`;
and three facts about life: handlers exist only while the session is live
(`NoSessionNoHandlers`), before it exists nothing has been counted and the agent
has no state (`BeforeStart`), and after the tear-down's `aclose` it is not live
(`AfterClose`). `NeverDeaf` alone is not inductive: whether a phrase's end opens
the gate depends on who holds the lock, and `EarlyCapEndsCall` needs to know
that the count can reach its cap only by a step that starts a farewell. From `IInv`:
`TypeCorrect`, `HandlersExclude`, `GateIsOpen`, `CapEndsCall`, `EndsQuietly`.

`TurnInv` proves `TurnsAnswered`: `ApologisedOnce` is inductive once the flag is tied
to the count (no flag, no apology; a flag of this turn, exactly one).
`EchoFromHandlers` proves
`OnlyHandlersEcho` step by step from the types: the callbacks drive the gate, the
handlers open it, and no other action touches it. `CountInv` proves `FarewellIsEarned` under `TimeoutCounts = {}`: the
plugin's counter, and the count of every handler not yet started, never exceed
the empty EOUs since the caller last spoke.

**SttStreamProofs.** `TypeCorrect`; `ToldRight`, which is inductive as it stands;
and, from `StreamInv` (types, and: `_last_final_text` is the text of the last
FINAL sent exactly when no END_OF_SPEECH has been sent since, interims aside), the
two action properties `EosAfterFinal` and `NoFinalTwice`. As the service is arbitrary there,
they hold for whatever a service sends.

**SttLinkProofs.** `ServiceFits`: agent and service on one WebSocket implement
`SttStream` (`ServiceIsAdmissible`), so `ToldRight`, `EosAfterFinal` and `NoFinalTwice`
hold with the real service. `EouComesFinal` proves `EouAlreadyFinal`. `GateIsFollowed`
proves `GateFollowsStream` from `GateInv`: the last command under way, or the gate if
there is none, is what the stream said last (a gate may be closed for other
reasons), and it says `start` last only to read. The steps are
first reduced to a dozen shapes (`Thinks`, `Starts`, `HearsEou`, `EndsUtterance`,
`Breaks`, ...), which say what they do to the wires and to the last FINAL;
`LinkInv` is shown for each. `RoomInv` counts what is under way, the `eou` owed by
`_on_final`, the answer owed to a `start` and the service's last words: no more
than `2 * MaxSays + MaxCommands + 3`, so that every message the service sends finds
the room `SttStream` gives it. `FinalInv` says that on the wire, and at the service
between its two messages, an `eou` with text comes after its own `final`, with
nothing but messages of other kinds in between, or that FINAL is the last one
shown. It survives a break because the connection keeps a prefix of what was
sent, and a prefix keeps whatever stands before an `eou` it keeps.

**ConfirmationPlayerProofs.** `PlayerInv`: the lock's holder is exactly the task
between creating its source and ending its block, and an open source belongs to
it or to a task cancelled while unpublishing. `PhrasesExclude` and
`SourcesAreClosed` follow. `RepeatsOverlap` proves `OnlyOverlapsRepeat` from the
server's choice alone. `TypeCorrect` needs one fact more: a task that waits for a
retry has an attempt left.

**TokenManagerProofs.** `CacheExpiresFirst`: the cache gives up at least five
minutes before the token, for every `expires_in` and duration of the fetch. `TypeCorrect`, with its
strengthening that only the lock's holder fetches.

`FetchIsShared` proves `NoHerd` for any finite number of calls, from `OutlivesQueue`:
a lifetime exceeds `2 * Margin + (n - 1) * MaxFetch` for `n` calls. It needs to be known
how long the cache lasts for each call that waits: `HerdInv` says that no call is
queued twice, and that the cache outlasts the turns of those before it, forced
fetches included, for every call that has been in the queue since a fetch. `CacheIsKeptWarm`
proves `CacheStaysWarm` from `OutlivesRefresh`: a lifetime exceeds
`2 * Margin + RefreshPeriod + MaxFetch`. Its invariant, `WarmInv`, ties the cache to
the sleep of the refresh task (`CacheOutlastsRefresh`) and to the fetch it waits
for. The bound is tight: with a lifetime equal to it TLC finds a call that
fetches. Both hypotheses hold in the run (20 > 12, 20 > 16) and of tokens of an
hour (60 > 16) with anything below fifty calls in a queue.

**SttConnectionProofs.** `TypeCorrect`, and `HearsFreshAudio`. What makes the latter
inductive is stronger than what the property says: the queue holds only frames
of the current turn at all times, not only while a session reads
(`QueueIsFresh`), because `start` is what begins a turn and drains.

**SttAudioProofs.** `AudioInv` follows a frame through the three places it can be
in. No frame is in two of them (`OnceInv`); while a sender lives, what was heard,
what it holds and what is queued are in order but for one stray (`OrderInv`);
and while a turn is starting, the queue has been flushed, so that with a sender
alive it is fresh, and without one it has a stray of its own at most
(`StartInv`). The two ways to a stray exclude each other: a failed send ends the
sender, and the `start` that creates the next one empties what was heard.
`Refinement` maps every action to `AudioFeed`: `Capture`, `Begin` (for the two that
send `start`), `Hear` (for `Sent`), or a stutter.

**SpeechProofs.** About the TTS service, with any number of clients: `ServiceInv` has
the types, an attempt left for every back-off, full caches while serving
(`ServesWarm`) and no warm text in the queue (`PhrasesNeverQueued`). From it:
`TypeCorrect`, `PhrasesAreCached`, `PhrasesAreServed`. `SpeechIsServed` shows that
`Speech` implements that specification, which carries one of them over
(`SpeechPhrasesServed`).

About the texts, for replies of any length, cut into chunks anywhere, and any
numbers of the splitter:

* *Recursive functions.* A function defined by recursion is what its definition
  says only if the recursion ends. `RecursiveFunction` proves that once, for any
  recursion on a smaller argument, and `SizeInduction` is the induction that
  goes with it; both speak of functions and sets, where the libraries' theorems take
  operators, which no installed prover can instantiate. `ChopFacts`,
  `PartsFacts`, `JoinFacts`, `DrainFacts`, `SpellFacts` and `LettersFacts` are its uses.
* *Places.* `Tiled` says that a list of parts lies in a piece of the text, one
  after the other, with only blanks between. Two such lists can be joined
  (`TiledJoin`), a cut of a stripped part gives one (`ChopStep`), and `str.find` finds
  a part at the place it is tiled to, since what it could find earlier is
  blank. So `PlacesOfAnyText`, and `PlacesExactly` (`PlacesAreExact`): the
  approximation in `_split_stream` is dead code.
* *Letters.* Where a text is cut at a blank the letters of the halves are those
  of the whole (`LettersSlices`): no digraph is cut. No other cut is made: the
  splitter cuts at blanks and behind a stop or break before one, tokens are joined by a
  space, and a chunk that ends with a digit ends in Cyrillic letters when it is
  pushed. The one difference chunks make, a space more or less between the words
  of two digits, is silent (`SpellConcat`).
* *The reply.* `SaidInOrder` is not inductive: it speaks of what was heard, while a
  letter may be lost on the way there. `NoLetterLost`, in `SpeechInv`, is a law of
  conservation: what has passed, what is being said, the letters in the stream
  and those still to come are, in this order, the letters of the reply. Every
  action moves letters from one place to the next (`DrainKeeps`, `FlushedKeeps`,
  `TokenKeeps`). What was heard is what has passed, but for silence in the places of
  refused sentences (`HeardFirst`, `HeardNext`). `HeardInOrder` follows.
* *The jobs.* `NothingPilesUp`: `AttemptsQueued` counts the plugin's jobs against the
  attempts of the request under way. A new request finds none of an answered one:
  the answer to an attempt comes when the worker has done its job, and the worker
  does the earlier ones first (`MineAppend`, `MineTail`).

These need one hypothesis, `AllTexts`: the service may be asked for any text.

Some of what is proved has no run of its own, since a run's stronger property
covers the case: `EarlyCapEndsCall` (`EarlyClosesHangUp`), `SenderServes`
(`FramesFlow`), `PhrasesNeverQueued` (`PhraseServed`), and the types of `TtsService`.

**Checked by TLC only.** Liveness: it needs fairness and ENABLED, which are out of
TLAPS's reach. Every invariant and action property of the runs is proved.

## 6. Where the code departs from its documentation

Three have a run whose counterexample shows them:

1. `SttLink_lost_start`. The no-text guard (`server.py:311-317`) clears the gate
   after the gRPC session has been closed. The `start` of the next turn may have
   opened it in between; the agent then reads from a service that waits, for up
   to 30 s.
2. `CallSession_repeated_text`. `_on_user_input` returns for a text equal to the
   last one before it resets `_llm_errored_this_turn` (`session.py:158`): an LLM
   failure on the second "yes" is met with silence.
3. `CallSession_teardown`. The playback tasks are cancelled while the session is
   still live (`session.py:499`); a callback during the gather spawns another.

The models contain these too, and no run is spent on them:

* An early close resets the silence counter, a real silence resets the early-close
  count (`session.py:246-267`). When they alternate neither reaches its cap, and a
  caller who never speaks is kept for ever; the README promises "silence timeout →
  hangup". `RealSilenceHangsUp` and `EarlyClosesHangUp` each assume the other kind
  to stop.
* `play()` reads `_last_phrase` before its request and writes it after
  (`plugin_tts.py:351`): overlapping calls may repeat a phrase, against the
  docstring's "(no repeat)". `OnlyOverlapsRepeat` states that this is the only way.
* A reminder that ends while the agent thinks or speaks opens the gate on the
  agent's own voice (`session.py:280`), against "echo prevention"
  (`plugin_stt.py:490`). `OnlyHandlersEcho` states that this is the only way.
* A frame held by the sender across the turn's flush, or put back after a failed
  send, reaches the service out of its place (`plugin_stt.py:313`, against "Flush
  stale audio from the previous turn", `:356`). `AudioFeed` allows one.
* The splitter's docstring has breaks split "after ≥3 words"; the code asks for a
  word of six letters (`sentence_splitter.py:11-12` against `:40`).
* Digits are spelled chunk by chunk (`plugin_tts_transforms.py:35`): a number cut
  between two chunks has no space between the words at the cut. `SaidInOrder`
  compares letters, and holds.
* `_early_close_count` is not reset by speech, so "consecutive" early closes
  (`config.py:93`) may be many turns apart.
* An empty EOU is counted before its handler finds another at work and drops
  the event; the reset that an early close owes it is skipped (`session.py:234`,
  against `plugin_stt.py:501-503`).
* `connect()` caps its delay at the bound of its loop: it never gives up, and its
  `raise` is dead code (`plugin_stt.py:86`).
* The `start` that is sent again after a reconnection is unguarded: a second drop
  ends `_run` (`plugin_stt.py:372`).
* A gate that closes and opens between two 20 ms polls is missed, and the stream
  sits out ten seconds (`plugin_stt.py:338`).
* The guard also clears the gate for a stream that ended without an `eou`, and
  the agent is told nothing (`server.py:312`; with `SilentEnds`).
* A task cancelled during `unpublish_track` leaves its `AudioSource` open
  (`plugin_tts.py:442`): `OnlyLateCancelLeaks` states that this is the only case.
* A sentence the TTS model refuses with `ValueError` is answered with 300 ms of
  silence and HTTP 200 (`tts_service/tts_engine.py:125`): nothing is tried again, and
  the reply ends as said without it. `SaidInOrder` says that nothing else goes
  missing around it.
* A 200 without `access_token` is cached as `None` and returned, against "Returns:
  OAuth access_token string" (`token_manager.py:135`, `:71`); the calls behind it
  fetch again one by one.
* The token's margin is subtracted twice (`token_manager.py:75` and `:83`), so it
  is refetched with up to ten minutes left, not five.
* A failed refresh is retried after 60 s and 300 s, not after 60 s
  (`server.py:45-53`).

## 7. Limits

* `AgentSession`, the room, Sber and the LLM are external. What they may do is
  taken from how the code uses them: callbacks in any order while the session
  is live, an error or an end at any time.
* The cancellation of `run()` itself by the job's shutdown is not modelled, nor
  an exception from `session.aclose()` in the `finally` block, after which the
  plugins are not closed.
* In `CallSession` the stream lives as long as the session. A stream that dies
  earlier (6., second drop) would take its handlers with it.
* There are no rates: a service that fails every session at once lets the agent
  reconnect without back-off, since its `connect()` succeeds. `SttLink` allows the
  cycle and no property forbids it.
* `TtsService` has one failure of a live connection for all that httpx tells apart,
  with one distinction the code makes: whether it is tried again.
* `NoPileUp` is about one reply. A reply that failed leaves the jobs of its last
  request behind, and a client that cancels and asks again leaves one each time;
  nothing in the service bounds those.
* `FeedsTurn` and `FramesFlow` do not say that the newest frame of a full queue is
  heard: a lost frame is allowed anywhere. `TypeOK` says that room is made.
* `EouAlreadyFinal` is about the text of a stale `eou`; that one may end the reading of
  a turn it does not belong to is not excluded.
* What `AgentSession` does with a reply that failed, or is interrupted, is not
  modelled; `Speech` ends there.
* Text, audio, prompts, phrase wording, logging, metrics, headers and TLS are data.

Not modelled:

* The registry behind `POST /hangup` (`http_api.py`). The HTTP server's thread and
  the calls share its dictionary only if they live in one process; the library
  runs a job in a process of its own unless told otherwise, and the code does not
  say. A model would have to assume the answer.
* The job dispatch (`main.py`): awaits in a row with early returns, before a
  `CallSession` exists.
* Audio levels (`audio.py`): two functions of a few lines without state.
* Configuration, entry points, logging and generated gRPC code: no behaviour to
  specify.

## 8. What is left

1. **VoiceCall**: `CallSession` over `SttStream` and `SttAudio`, the stream's
   `EmptyEou` and the call's as one action, to state echo prevention and the silence
   path end to end, down to the frames the service hears.
2. **CallRegistry** with the job dispatch, once it is settled which process the
   registry lives in: two calls to one number in a second share a room name, and a
   look-up may outlive its loop.
3. **AudioLevels**: 16-bit saturation over bounded samples.

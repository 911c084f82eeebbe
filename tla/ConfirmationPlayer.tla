------------------------ MODULE ConfirmationPlayer ------------------------
(***************************************************************************)
(* Phrases played into the room beside the AgentSession:                   *)
(* my_agent/plugin_tts.py, classes ConfirmationPlayer and TtsHttpClient,   *)
(* with the phrase selection of tts_service/server.py.                     *)
(*                                                                         *)
(* A task is one call of play(), play_phrase() or play_text(): it fetches  *)
(* the audio over HTTP, with retries, waits for _play_lock, publishes a    *)
(* track, plays it and unpublishes it.  CallSession may cancel the task at *)
(* any await, once.  What differs between the three calls is the phrase:   *)
(* play() remembers it in _last_phrase, the others have none.              *)
(***************************************************************************)
EXTENDS Integers, Sequences

CONSTANTS
    Tasks,     \* the calls, one task each
    Free,      \* _play_lock held by nobody
    Phrases,   \* _warmup_list of the service
    NoPhrase,  \* None, and the phrase of play_text() and play_phrase()
    MaxRetries \* _MAX_RETRIES

ASSUME FreeAssumption == Free \notin Tasks
ASSUME NoPhraseAssumption == NoPhrase \notin Phrases
ASSUME MaxRetriesAssumption == MaxRetries \in Nat

VARIABLES
    at,         \* the await each task is at
    random,     \* the tasks that run play()
    attempt,    \* retries its request has made
    asked,      \* the last_phrase its request carries
    lastPhrase, \* _last_phrase
    playLock,   \* _play_lock: its holder
    waiters,    \* ... and the tasks that wait for it, FIFO
    sources,    \* tasks whose AudioSource is open
    tracks,     \* tasks whose track is in the room
    cutAt       \* history: when a task was cancelled

requestVars == <<random, attempt, asked, lastPhrase>>
Seqs == INSTANCE SequencesExt

lockVars == <<playLock, waiters>>
audioVars == <<sources, tracks>>
vars == <<at, requestVars, lockVars, audioVars, cutAt>>

Fetching == {"request", "backoff"}
InTrack == {"publish", "playing", "unpublish"}
Places == {"new", "lock", "done"} \cup Fetching \cup InTrack

Init ==
    /\ at = [t \in Tasks |-> "new"]
    /\ random = {}
    /\ attempt = [t \in Tasks |-> 0]
    /\ asked = [t \in Tasks |-> NoPhrase]
    /\ lastPhrase = NoPhrase
    /\ playLock = Free
    /\ waiters = <<>>
    /\ sources = {}
    /\ tracks = {}
    /\ cutAt = [t \in Tasks |-> "none"]

Goto(t, from, to) == at[t] = from /\ at' = [at EXCEPT ![t] = to]

----------------------------------------------------------------------------
(* The request                                                             *)

\* play(): the request carries _last_phrase as it is now.
Play(t) ==
    /\ Goto(t, "new", "request")
    /\ random' = random \cup {t}
    /\ asked' = [asked EXCEPT ![t] = lastPhrase]
    /\ UNCHANGED <<attempt, lastPhrase, lockVars, audioVars, cutAt>>

\* play_phrase() and play_text().
PlayThis(t) ==
    /\ Goto(t, "new", "request")
    /\ UNCHANGED <<requestVars, lockVars, audioVars, cutAt>>

\* Mutant: one attempt too many.
LastAttempt_Late(t) == attempt[t] > MaxRetries

LastAttempt(t) == attempt[t] = MaxRetries

\* A 5xx, a time-out or no connection: sleep, and try again.
Backoff(t) ==
    /\ ~LastAttempt(t)
    /\ Goto(t, "request", "backoff")
    /\ UNCHANGED <<requestVars, lockVars, audioVars, cutAt>>

Retry(t) ==
    /\ Goto(t, "backoff", "request")
    /\ attempt' = [attempt EXCEPT ![t] = @ + 1]
    /\ UNCHANGED <<random, asked, lastPhrase, lockVars, audioVars, cutAt>>

\* The last attempt fails, or any attempt in a way that is not retried: the
\* exception is logged, and nothing is played.
RequestFails(t) ==
    /\ Goto(t, "request", "done")
    /\ UNCHANGED <<requestVars, lockVars, audioVars, cutAt>>

\* Mutant: the service does not look at last_phrase.
Candidates_Any(last) == Phrases

\* The service: any phrase but the last, if there is another.
Candidates(last) ==
    IF Phrases \subseteq {last} THEN Phrases ELSE Phrases \ {last}

\* What play() remembers of the answer.
Selects(t) ==
    IF t \in random
    THEN lastPhrase' \in Candidates(asked[t])
    ELSE UNCHANGED lastPhrase

----------------------------------------------------------------------------
(* _play_pcm                                                               *)

\* Mutant: nobody waits.
LockFree_Always == TRUE

\* acquire() returns at once: the lock is free and nobody is before us.
LockFree == playLock = Free /\ waiters = <<>>

\* The lock is taken and the source created, with no await in between.
Begin(t) ==
    /\ playLock' = t
    /\ sources' = sources \cup {t}
    /\ UNCHANGED tracks

\* The answer is here: on to the lock.
Answered(t) ==
    /\ at[t] = "request"
    /\ Selects(t)
    /\ \/ /\ LockFree
          /\ at' = [at EXCEPT ![t] = "publish"]
          /\ Begin(t)
          /\ UNCHANGED waiters
       \/ /\ ~LockFree
          /\ at' = [at EXCEPT ![t] = "lock"]
          /\ waiters' = Append(waiters, t)
          /\ UNCHANGED <<playLock, audioVars>>
    /\ UNCHANGED <<random, attempt, asked, cutAt>>

\* The first waiter wakes up.
Acquire(t) ==
    /\ Goto(t, "lock", "publish")
    /\ playLock = Free
    /\ waiters # <<>>
    /\ Head(waiters) = t
    /\ waiters' = Tail(waiters)
    /\ Begin(t)
    /\ UNCHANGED <<requestVars, cutAt>>

Published(t) ==
    /\ Goto(t, "publish", "playing")
    /\ tracks' = tracks \cup {t}
    /\ UNCHANGED <<requestVars, lockVars, sources, cutAt>>

\* Mutants: the lock is not released; the source is not closed.
Release_Forgets == UNCHANGED playLock
CloseSource_Forgets(t) == UNCHANGED sources

Release == playLock' = Free

CloseSource(t) == sources' = sources \ {t}

\* source.aclose() and the end of the lock's block.
LeaveBlock(t) ==
    /\ CloseSource(t)
    /\ Release
    /\ UNCHANGED waiters

\* publish_track raises: logged, and there is nothing to unpublish.
PublishFails(t) ==
    /\ Goto(t, "publish", "done")
    /\ LeaveBlock(t)
    /\ UNCHANGED <<requestVars, tracks, cutAt>>

\* All frames have been played out, or a capture raised.
PlayedOut(t) ==
    /\ Goto(t, "playing", "unpublish")
    /\ UNCHANGED <<requestVars, lockVars, audioVars, cutAt>>

\* unpublish_track returns, or raises, which is swallowed.
Unpublished(t) ==
    /\ Goto(t, "unpublish", "done")
    /\ LeaveBlock(t)
    /\ tracks' \in {tracks \ {t}, tracks}
    /\ UNCHANGED <<requestVars, cutAt>>

----------------------------------------------------------------------------
(* cancel()                                                                *)

Cut(t, from, to) ==
    /\ Goto(t, from, to)
    /\ cutAt[t] = "none"
    /\ cutAt' = [cutAt EXCEPT
                    ![t] = IF from = "unpublish" THEN from ELSE "before"]
    /\ UNCHANGED requestVars

CancelRequest(t) ==
    /\ \E from \in Fetching : Cut(t, from, "done")
    /\ UNCHANGED <<lockVars, audioVars>>

CancelWait(t) ==
    /\ Cut(t, "lock", "done")
    /\ \E i \in DOMAIN waiters :
          /\ waiters[i] = t
          /\ waiters' = Seqs!RemoveAt(waiters, i)
    /\ UNCHANGED <<playLock, audioVars>>

\* pub is None: the finally block closes the source.  The room may have the
\* track all the same.
CancelPublish(t) ==
    /\ Cut(t, "publish", "done")
    /\ LeaveBlock(t)
    /\ tracks' \in {tracks, tracks \cup {t}}

\* The finally block runs, and awaits unpublish_track.
CancelPlayout(t) ==
    /\ Cut(t, "playing", "unpublish")
    /\ UNCHANGED <<lockVars, audioVars>>

\* CancelledError is no Exception: it leaves the finally block before
\* source.aclose().
CancelUnpublish(t) ==
    /\ Cut(t, "unpublish", "done")
    /\ Release
    /\ tracks' \in {tracks \ {t}, tracks}
    /\ UNCHANGED <<waiters, sources>>

----------------------------------------------------------------------------
Calls(t) == Play(t) \/ PlayThis(t)

Request(t) == Backoff(t) \/ Retry(t) \/ RequestFails(t) \/ Answered(t)

Playback(t) ==
    \/ Acquire(t)
    \/ Published(t)
    \/ PublishFails(t)
    \/ PlayedOut(t)
    \/ Unpublished(t)

Cancel(t) ==
    \/ CancelRequest(t)
    \/ CancelWait(t)
    \/ CancelPublish(t)
    \/ CancelPlayout(t)
    \/ CancelUnpublish(t)

Next == \E t \in Tasks : Calls(t) \/ Request(t) \/ Playback(t) \/ Cancel(t)

\* A request is answered or times out, a sleep ends, the room's calls return,
\* and the loop runs the task that was woken.
Spec ==
    /\ Init /\ [][Next]_vars
    /\ \A t \in Tasks : WF_vars(Request(t) \/ Playback(t))

----------------------------------------------------------------------------
(* Properties                                                              *)

\* Every variable keeps its type; a request is sent at most 1 + MaxRetries
\* times.
TypeOK ==
    /\ at \in [Tasks -> Places]
    /\ random \subseteq Tasks
    /\ attempt \in [Tasks -> 0 .. MaxRetries]
    /\ asked \in [Tasks -> Phrases \cup {NoPhrase}]
    /\ lastPhrase \in Phrases \cup {NoPhrase}
    /\ playLock \in Tasks \cup {Free}
    /\ waiters \in Seq(Tasks)
    /\ sources \subseteq Tasks
    /\ tracks \subseteq Tasks
    /\ cutAt \in [Tasks -> {"none", "before", "unpublish"}]

\* "two phrases cannot publish overlapping tracks into the SIP mix at the same
\* time": one task at most is between creating its source and unpublishing,
\* however the tasks are cancelled and whatever raises.
OneVoice ==
    \A t, u \in Tasks : at[t] \in InTrack /\ at[u] \in InTrack => t = u

\* No AudioSource leaks when a publication fails, a playback raises or a task
\* is cancelled, unless it is cancelled while it unpublishes.
OnlyLateCancelLeaks ==
    \A t \in sources : at[t] \in InTrack \/ cutAt[t] = "unpublish"

\* "Play a random cached confirmation phrase (no repeat)" (plugin_tts.py:349):
\* a play() is given the phrase of the one before only if there is no other
\* phrase, or if that one was not yet answered when it asked, before however
\* many retries.
OnlyOverlapsRepeat ==
    [][\A t \in random : Answered(t) /\ lastPhrase' = lastPhrase
           => asked[t] # lastPhrase \/ Phrases = {lastPhrase}]_vars

\* Every call ends: no failure, and no cancellation of another, leaves a
\* phrase waiting for the lock for ever.
EveryPhraseEnds == \A t \in Tasks : at[t] = "request" ~> at[t] = "done"
====

---------------------- MODULE ConfirmationPlayerProofs ----------------------
(***************************************************************************)
(* Proofs about ConfirmationPlayer, for any number of calls: phrases do    *)
(* not overlap, and only a cancellation while unpublishing leaks a source. *)
(***************************************************************************)
EXTENDS ConfirmationPlayer, TLAPS

\* What the invariants need of the types.
PlacesOK ==
    /\ at \in [Tasks -> Places]
    /\ cutAt \in [Tasks -> {"none", "before", "unpublish"}]
    /\ sources \subseteq Tasks

\* The lock's holder is the task that is between creating its source and
\* unpublishing its track.
LockHeld == \A t \in Tasks : (at[t] \in InTrack) <=> (playLock = t)

PlayerInv == PlacesOK /\ LockHeld /\ OnlyLateCancelLeaks

USE DEF Places, Fetching, InTrack

\* No task has started.
LEMMA InitInv == Init => PlayerInv
  BY FreeAssumption
  DEF Init, PlayerInv, PlacesOK, LockHeld, OnlyLateCancelLeaks

\* A step of a task before it has the lock leaves lock and sources alone.
LEMMA OutsideStep ==
    ASSUME PlayerInv, NEW t \in Tasks,
           \/ Calls(t) \/ Backoff(t) \/ Retry(t) \/ RequestFails(t)
           \/ CancelRequest(t) \/ CancelWait(t)
    PROVE  PlayerInv'
<1>1. /\ UNCHANGED <<playLock, sources>>
      /\ at[t] \notin InTrack
      /\ \E to \in {"request", "backoff", "done"} : at' = [at EXCEPT ![t] = to]
    BY DEF Calls, Play, PlayThis, Backoff, Retry, RequestFails, CancelRequest,
           CancelWait, Cut, Goto, lockVars, audioVars
<1>2. \/ UNCHANGED cutAt
      \/ /\ cutAt[t] = "none"
         /\ cutAt' = [cutAt EXCEPT ![t] = "before"]
    BY DEF Calls, Play, PlayThis, Backoff, Retry, RequestFails, CancelRequest,
           CancelWait, Cut
<1>3. PlacesOK'
    BY <1>1, <1>2 DEF PlayerInv, PlacesOK
<1>4. LockHeld'
    BY <1>1 DEF PlayerInv, PlacesOK, LockHeld
<1>5. t \in sources => cutAt[t] = "unpublish"
    BY <1>1 DEF PlayerInv, OnlyLateCancelLeaks
<1>6. OnlyLateCancelLeaks'
  <2> SUFFICES ASSUME NEW u \in sources
               PROVE  at'[u] \in InTrack \/ cutAt'[u] = "unpublish"
      BY <1>1 DEF OnlyLateCancelLeaks
  <2>1. CASE u = t
      BY <2>1, <1>2, <1>5
  <2>2. CASE u # t
      BY <2>2, <1>1, <1>2 DEF PlayerInv, PlacesOK, OnlyLateCancelLeaks
  <2> QED
      BY <2>1, <2>2
<1> QED
    BY <1>3, <1>4, <1>6 DEF PlayerInv

\* A task takes the lock only when nobody holds it, and creates its source.
LEMMA BeginStep ==
    ASSUME PlayerInv, NEW t \in Tasks, playLock = Free, Begin(t),
           at' = [at EXCEPT ![t] = "publish"], UNCHANGED cutAt
    PROVE  PlayerInv'
<1>1. PlacesOK'
    BY DEF PlayerInv, PlacesOK, Begin
<1>2. LockHeld'
    BY FreeAssumption DEF PlayerInv, PlacesOK, LockHeld, Begin
<1>3. OnlyLateCancelLeaks'
    BY DEF PlayerInv, PlacesOK, OnlyLateCancelLeaks, Begin
<1> QED
    BY <1>1, <1>2, <1>3 DEF PlayerInv

\* A task that ends its block closes its source, or was cancelled while it
\* unpublished, and gives the lock back.
LEMMA EndStep ==
    ASSUME PlayerInv, NEW t \in Tasks, at[t] \in InTrack, Release,
           at' = [at EXCEPT ![t] = "done"],
           \/ /\ CloseSource(t)
              /\ UNCHANGED cutAt \/ cutAt' = [cutAt EXCEPT ![t] = "before"]
           \/ /\ UNCHANGED sources
              /\ cutAt' = [cutAt EXCEPT ![t] = "unpublish"]
    PROVE  PlayerInv'
<1>1. PlacesOK'
    BY DEF PlayerInv, PlacesOK, CloseSource
<1>2. LockHeld'
    BY FreeAssumption DEF PlayerInv, PlacesOK, LockHeld, Release
<1>3. OnlyLateCancelLeaks'
    BY DEF PlayerInv, PlacesOK, OnlyLateCancelLeaks, CloseSource
<1> QED
    BY <1>1, <1>2, <1>3 DEF PlayerInv

\* A task that holds the lock goes on to its next await.
LEMMA InsideStep ==
    ASSUME PlayerInv, NEW t \in Tasks,
           Published(t) \/ PlayedOut(t) \/ CancelPlayout(t)
    PROVE  PlayerInv'
<1>1. /\ UNCHANGED <<playLock, sources>>
      /\ at[t] \in {"publish", "playing"}
      /\ \E to \in {"playing", "unpublish"} : at' = [at EXCEPT ![t] = to]
    BY DEF Published, PlayedOut, CancelPlayout, Cut, Goto, lockVars, audioVars
<1>2. \/ UNCHANGED cutAt
      \/ cutAt' = [cutAt EXCEPT ![t] = "before"]
    BY DEF Published, PlayedOut, CancelPlayout, Cut
<1>3. PlacesOK'
    BY <1>1, <1>2 DEF PlayerInv, PlacesOK
<1>4. LockHeld'
    BY <1>1 DEF PlayerInv, PlacesOK, LockHeld
<1>5. OnlyLateCancelLeaks'
    BY <1>1, <1>2 DEF PlayerInv, PlacesOK, OnlyLateCancelLeaks
<1> QED
    BY <1>3, <1>4, <1>5 DEF PlayerInv

\* The answer to a request: the lock at once, or the queue.
LEMMA AnsweredStep ==
    ASSUME PlayerInv, NEW t \in Tasks, Answered(t)
    PROVE  PlayerInv'
<1>1. CASE LockFree /\ at' = [at EXCEPT ![t] = "publish"] /\ Begin(t)
    BY <1>1, BeginStep DEF Answered, LockFree
<1>2. CASE at' = [at EXCEPT ![t] = "lock"] /\ UNCHANGED <<playLock, audioVars>>
  <2>1. at[t] = "request" /\ UNCHANGED <<playLock, sources, cutAt>>
      BY <1>2 DEF Answered, audioVars
  <2>2. PlacesOK'
      BY <1>2, <2>1 DEF PlayerInv, PlacesOK
  <2>3. LockHeld'
      BY <1>2, <2>1 DEF PlayerInv, PlacesOK, LockHeld
  <2>4. OnlyLateCancelLeaks'
      BY <1>2, <2>1 DEF PlayerInv, PlacesOK, OnlyLateCancelLeaks
  <2> QED
      BY <2>2, <2>3, <2>4 DEF PlayerInv
<1> QED
    BY <1>1, <1>2 DEF Answered

\* Every step keeps the invariant.
LEMMA PlayerStep == PlayerInv /\ [Next]_vars => PlayerInv'
<1> SUFFICES ASSUME PlayerInv, [Next]_vars PROVE PlayerInv'
    OBVIOUS
<1>1. CASE UNCHANGED vars
    BY <1>1 DEF vars, lockVars, audioVars, PlayerInv, PlacesOK, LockHeld,
                OnlyLateCancelLeaks
<1>2. ASSUME NEW t \in Tasks, Calls(t) \/ Request(t) \/ Playback(t) \/ Cancel(t)
      PROVE  PlayerInv'
  <2>1. CASE Answered(t)
      BY <2>1, AnsweredStep
  <2>2. CASE Acquire(t)
      BY <2>2, BeginStep DEF Acquire, Goto
  <2>3. CASE PublishFails(t) \/ Unpublished(t)
      BY <2>3, EndStep DEF PublishFails, Unpublished, LeaveBlock, Goto
  <2>4. CASE CancelPublish(t) \/ CancelUnpublish(t)
      BY <2>4, EndStep DEF CancelPublish, CancelUnpublish, LeaveBlock, Cut, Goto
  <2>5. CASE Published(t) \/ PlayedOut(t) \/ CancelPlayout(t)
      BY <2>5, InsideStep
  <2>6. CASE \/ Calls(t) \/ Backoff(t) \/ Retry(t) \/ RequestFails(t)
             \/ CancelRequest(t) \/ CancelWait(t)
      BY <2>6, OutsideStep
  <2> QED
      BY <1>2, <2>1, <2>2, <2>3, <2>4, <2>5, <2>6
      DEF Request, Playback, Cancel
<1> QED
    BY <1>1, <1>2 DEF Next

\* PlayerInv holds in every state.
LEMMA PlayerInvariance == Spec => []PlayerInv
  BY InitInv, PlayerStep, PTL DEF Spec

\* Two phrases never overlap in the caller's ear, however many confirmations,
\* apologies and reminders are due at once and whichever of them fail or are
\* cancelled.
THEOREM PhrasesExclude == Spec => []OneVoice
<1>1. PlayerInv => OneVoice
    BY DEF PlayerInv, LockHeld, OneVoice
<1> QED
    BY PlayerInvariance, <1>1, PTL

\* An AudioSource outlives its task only if the task was cancelled while it
\* unpublished its track.
THEOREM SourcesAreClosed == Spec => []OnlyLateCancelLeaks
<1>1. PlayerInv => OnlyLateCancelLeaks
    BY DEF PlayerInv
<1> QED
    BY PlayerInvariance, <1>1, PTL

\* A phrase comes twice in a row only if there is no other, or the first was
\* not yet answered when the second was asked for: for any set of phrases.
THEOREM RepeatsOverlap == Spec => OnlyOverlapsRepeat
<1>1. ASSUME NEW t \in random, Answered(t), lastPhrase' = lastPhrase,
             asked[t] = lastPhrase
      PROVE  Phrases = {lastPhrase}
  <2>1. lastPhrase \in Candidates(lastPhrase)
      BY <1>1 DEF Answered, Selects
  <2> QED
      BY <2>1 DEF Candidates
<1>2. [Next]_vars =>
         [\A t \in random : Answered(t) /\ lastPhrase' = lastPhrase
             => asked[t] # lastPhrase \/ Phrases = {lastPhrase}]_vars
    BY <1>1
<1> QED
    BY <1>2, PTL DEF Spec, OnlyOverlapsRepeat

----------------------------------------------------------------------------
(* Types, and the number of attempts                                       *)

\* A request that sleeps has an attempt left.
AttemptsLeft == \A t \in Tasks : at[t] = "backoff" => attempt[t] < MaxRetries

TypeInv == TypeOK /\ AttemptsLeft

\* A waiter that leaves the queue leaves a queue.
LEMMA RemoveType ==
    ASSUME NEW S, NEW s \in Seq(S), NEW i \in 1 .. Len(s)
    PROVE  Seqs!RemoveAt(s, i) \in Seq(S)
  BY DEF Seqs!RemoveAt

LEMMA TypeInit == Init => TypeInv
<1>1. <<>> \in Seq(Tasks) /\ 0 \in 0 .. MaxRetries
    BY MaxRetriesAssumption
<1> QED
    BY <1>1 DEF Init, TypeInv, TypeOK, AttemptsLeft

\* A call and its request.
LEMMA RequestType ==
    ASSUME TypeInv, NEW t \in Tasks,
           \/ Calls(t) \/ Backoff(t) \/ Retry(t) \/ RequestFails(t) \/ CancelRequest(t)
    PROVE  TypeInv'
<1> USE MaxRetriesAssumption DEF TypeInv, TypeOK, AttemptsLeft, lockVars, audioVars,
            requestVars
<1>1. CASE Calls(t)
  <2>1. /\ at' = [at EXCEPT ![t] = "request"]
        /\ random' \subseteq Tasks
        /\ asked' \in [Tasks -> Phrases \cup {NoPhrase}]
      BY <1>1 DEF Calls, Play, PlayThis, Goto
  <2>2. UNCHANGED <<attempt, lastPhrase, lockVars, audioVars, cutAt>>
      BY <1>1 DEF Calls, Play, PlayThis
  <2> QED
      BY <2>1, <2>2
<1>2. CASE Backoff(t)
  <2>1. attempt[t] < MaxRetries
      BY <1>2 DEF Backoff, LastAttempt
  <2> QED
      BY <1>2, <2>1 DEF Backoff, Goto
<1>3. CASE Retry(t)
  <2>1. attempt' \in [Tasks -> 0 .. MaxRetries]
      BY <1>3 DEF Retry, Goto
  <2> QED
      BY <1>3, <2>1 DEF Retry, Goto
<1>4. CASE RequestFails(t)
    BY <1>4 DEF RequestFails, Goto
<1>5. CASE CancelRequest(t)
    BY <1>5 DEF CancelRequest, Cut, Goto
<1> QED
    BY <1>1, <1>2, <1>3, <1>4, <1>5

\* The answer, and the lock.
LEMMA LockType ==
    ASSUME TypeInv, NEW t \in Tasks, Answered(t) \/ Acquire(t) \/ CancelWait(t)
    PROVE  TypeInv'
<1> USE DEF TypeInv, TypeOK, AttemptsLeft, audioVars, requestVars
<1>1. CASE Answered(t)
  <2>1. lastPhrase' \in Phrases \cup {NoPhrase}
      BY <1>1 DEF Answered, Selects, Candidates
  <2>2. waiters' \in Seq(Tasks)
    <3>1. waiters \in Seq(Tasks) /\ Append(waiters, t) \in Seq(Tasks)
        OBVIOUS
    <3> QED
        BY <1>1, <3>1, Zenon DEF Answered
  <2>3. /\ playLock' \in Tasks \cup {Free}
        /\ sources' \subseteq Tasks /\ tracks' \subseteq Tasks
        /\ \E to \in {"publish", "lock"} : at' = [at EXCEPT ![t] = to]
        /\ UNCHANGED <<random, attempt, asked, cutAt>>
      BY <1>1 DEF Answered, Begin
  <2> QED
      BY <2>1, <2>2, <2>3
<1>2. CASE Acquire(t)
  <2>1. waiters' \in Seq(Tasks)
      BY <1>2 DEF Acquire
  <2> QED
      BY <1>2, <2>1 DEF Acquire, Begin, Goto
<1>3. CASE CancelWait(t)
  <2>1. PICK i \in DOMAIN waiters : waiters' = Seqs!RemoveAt(waiters, i)
      BY <1>3 DEF CancelWait
  <2>2. waiters \in Seq(Tasks) /\ i \in 1 .. Len(waiters)
      OBVIOUS
  <2>3. waiters' \in Seq(Tasks)
      BY <2>1, <2>2, RemoveType
  <2> QED
      BY <1>3, <2>3 DEF CancelWait, Cut, Goto
<1> QED
    BY <1>1, <1>2, <1>3

\* The track.
LEMMA TrackType ==
    ASSUME TypeInv, NEW t \in Tasks,
           \/ Published(t) \/ PublishFails(t) \/ PlayedOut(t) \/ Unpublished(t)
           \/ CancelPublish(t) \/ CancelPlayout(t) \/ CancelUnpublish(t)
    PROVE  TypeInv'
<1> USE DEF TypeInv, TypeOK, AttemptsLeft, audioVars, requestVars, lockVars, Goto
<1>1. CASE Published(t) \/ PublishFails(t) \/ PlayedOut(t)
    BY <1>1 DEF Published, PublishFails, PlayedOut, LeaveBlock, CloseSource, Release
<1>2. CASE Unpublished(t)
    BY <1>2 DEF Unpublished, LeaveBlock, CloseSource, Release
<1>3. CASE CancelPublish(t) \/ CancelPlayout(t) \/ CancelUnpublish(t)
    BY <1>3 DEF CancelPublish, CancelPlayout, CancelUnpublish, Cut, LeaveBlock,
                CloseSource, Release
<1> QED
    BY <1>1, <1>2, <1>3

\* Every variable keeps its type, and a request its number of attempts, for any
\* number of calls.
THEOREM TypeCorrect == Spec => []TypeOK
<1>1. TypeInv /\ [Next]_vars => TypeInv'
  <2> SUFFICES ASSUME TypeInv, [Next]_vars PROVE TypeInv'
      OBVIOUS
  <2>1. CASE UNCHANGED vars
      BY <2>1 DEF vars, TypeInv, TypeOK, AttemptsLeft, audioVars, requestVars,
         lockVars
  <2> QED
      BY <2>1, RequestType, LockType, TrackType
      DEF Next, Request, Playback, Cancel
<1>2. TypeInv => TypeOK
    BY DEF TypeInv
<1> QED
    BY TypeInit, <1>1, <1>2, PTL DEF Spec
====

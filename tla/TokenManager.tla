--------------------------- MODULE TokenManager ---------------------------
(***************************************************************************)
(* The OAuth token of the STT service: stt_service/token_manager.py, and   *)
(* what calls get_token() in stt_service/server.py: the start-up, the      *)
(* background refresh, the REST endpoints and the gRPC sessions.           *)
(*                                                                         *)
(* Calls to get_token() interleave at its two awaits: the lock and the     *)
(* fetch.  Time is counted in minutes, as what is left: of the token's     *)
(* life, of the cache's, of the refresh task's sleep.                      *)
(***************************************************************************)
EXTENDS Integers, Sequences

CONSTANTS
    Callers,     \* calls that sessions and endpoints make
    Refresher,   \* the start-up, and then the background task
    Free,        \* _lock held by nobody
    Lifetimes,   \* what expires_in may be, in minutes
    MaxAttempts, \* _MAX_AUTH_RETRIES
    MaxFetch     \* bound: minutes a fetch may take

Tasks == Callers \cup {Refresher}

ASSUME FreeAssumption == Free \notin Tasks
ASSUME RefresherAssumption == Refresher \notin Callers
ASSUME MaxAttemptsAssumption == MaxAttempts \in Nat \ {0}
ASSUME MaxFetchAssumption == MaxFetch \in Nat
ASSUME LifetimesAssumption == Lifetimes \subseteq Nat

VARIABLES
    at,        \* the await each call is at
    forced,    \* calls with force=True
    attempt,   \* attempts of the fetch under way
    lock,      \* _lock: its holder
    waiters,   \* ... and the calls that wait for it, FIFO
    age,       \* minutes since the holder read the clock
    cacheLeft, \* _token_expires_at - now while there is a token, or 0
    tokenLeft, \* minutes the cached token is still good for
    refresh,   \* the refresh task: "start", "sleep", "call", "retry"
    timer,     \* minutes left of its sleep
    late,      \* history: calls that waited when the token cached now came
    failed     \* history: a fetch has brought no token

Seqs == INSTANCE SequencesExt

callVars == <<at, forced, late>>
lockVars == <<lock, waiters>>
fetchVars == <<attempt, age>>
cacheVars == <<cacheLeft, tokenLeft>>
refreshVars == <<refresh, timer>>
vars == <<callVars, lockVars, fetchVars, cacheVars, refreshVars, failed>>

Margin == 5         \* the two 300 s of get_token()
RetryDelay == 1     \* sleep(60)

\* Mutant: a refresh "5 minutes before expiry".
RefreshPeriod_Late == 15

\* sleep(300)
RefreshPeriod == 5

Less(n) == IF n > 0 THEN n - 1 ELSE 0
AtLeastZero(n) == IF n > 0 THEN n ELSE 0

\* The service is starting: the first fetch is about to be made.
Init ==
    /\ at = [c \in Tasks |-> "idle"]
    /\ forced = {}
    /\ late = {}
    /\ attempt = 1
    /\ lock = Free
    /\ waiters = <<>>
    /\ age = 0
    /\ cacheLeft = 0
    /\ tokenLeft = 0
    /\ refresh = "start"
    /\ timer = 0
    /\ failed = FALSE

----------------------------------------------------------------------------
(* get_token()                                                             *)

\* Mutant: the cache is not looked at once the lock is held.
CacheHit_Never(force) == FALSE

\* There is a token, and it is more than 300 s before _token_expires_at.
CacheHit(force) == ~force /\ cacheLeft > Margin

\* The lock is held: the call returns the cached token and the lock, or it
\* reads the clock and starts a fetch.
Proceed(c, force) ==
    \/ /\ CacheHit(force)
       /\ at' = [at EXCEPT ![c] = "idle"]
       /\ UNCHANGED <<lock, fetchVars>>
    \/ /\ ~CacheHit(force)
       /\ at' = [at EXCEPT ![c] = "fetch"]
       /\ lock' = c
       /\ attempt' = 1
       /\ age' = 0

LockFree == lock = Free /\ waiters = <<>>

\* A call comes in, and has the lock at once or waits.
Enter(c, force) ==
    /\ at[c] = "idle"
    /\ forced' = IF force THEN forced \cup {c} ELSE forced \ {c}
    /\ late' = late \ {c}
    /\ \/ /\ LockFree
          /\ Proceed(c, force)
          /\ UNCHANGED waiters
       \/ /\ ~LockFree
          /\ at' = [at EXCEPT ![c] = "lock"]
          /\ waiters' = Append(waiters, c)
          /\ UNCHANGED <<lock, fetchVars>>
    /\ UNCHANGED <<cacheVars, failed>>

\* A session or an endpoint asks; they exist once the start-up is over.
Call(c) ==
    /\ c \in Callers
    /\ refresh # "start"
    /\ \E force \in BOOLEAN : Enter(c, force)
    /\ UNCHANGED refreshVars

\* Mutant: the last waiter wakes up.
Woken_Last == Len(waiters)

\* The place of the waiter that came first.
Woken == 1

Acquire(c) ==
    /\ lock = Free
    /\ waiters # <<>>
    /\ waiters[Woken] = c
    /\ waiters' = Seqs!RemoveAt(waiters, Woken)
    /\ Proceed(c, c \in forced)
    /\ UNCHANGED <<forced, late, cacheVars, refreshVars, failed>>

----------------------------------------------------------------------------
(* _fetch_token()                                                          *)

\* Mutant: off by one.
MoreAttempts_Late == attempt <= MaxAttempts

MoreAttempts == attempt < MaxAttempts

\* 429, and not the last attempt: sleep for less than a minute.
TooMany(c) ==
    /\ at[c] = "fetch"
    /\ MoreAttempts
    /\ at' = [at EXCEPT ![c] = "backoff"]
    /\ UNCHANGED <<forced, late, lockVars, fetchVars, cacheVars, refreshVars,
                   failed>>

TryAgain(c) ==
    /\ at[c] = "backoff"
    /\ at' = [at EXCEPT ![c] = "fetch"]
    /\ attempt' = attempt + 1
    /\ UNCHANGED <<forced, late, lockVars, age, cacheVars, refreshVars, failed>>

\* The refresh task sleeps after its call, for 300 s or first for 60 s; the
\* start-up goes on in either case.
Resume(c, success) ==
    IF c # Refresher
    THEN UNCHANGED refreshVars
    ELSE \/ /\ success \/ refresh = "start"
            /\ refresh' = "sleep"
            /\ timer' = RefreshPeriod
         \/ /\ ~success /\ refresh = "call"
            /\ refresh' = "retry"
            /\ timer' = RetryDelay

\* The call ends, and so does its block under the lock.
End(c, success) ==
    /\ at[c] = "fetch"
    /\ at' = [at EXCEPT ![c] = "idle"]
    /\ lock' = Free
    /\ Resume(c, success)
    /\ UNCHANGED <<forced, waiters, fetchVars>>

\* A time-out, no connection, another status, or the last 429: it raises, and
\* the cache is what it was.
FetchFails(c) ==
    /\ End(c, FALSE)
    /\ failed' = TRUE
    /\ UNCHANGED <<late, cacheVars>>

\* Mutant: the clock is read when the token has come.
ClockRead_Late == 0

\* _token_expires_at is reckoned from the clock read before the fetch.
ClockRead == age

\* 200: Sber issued the token some time since the fetch began.
Fetched(c) ==
    /\ End(c, TRUE)
    /\ \E lifetime \in Lifetimes :
          /\ \E since \in 0 .. age : tokenLeft' = AtLeastZero(lifetime - since)
          /\ cacheLeft' = AtLeastZero(lifetime - Margin - ClockRead)
    /\ late' = late \cup {d \in Tasks : at[d] = "lock"}
    /\ UNCHANGED failed

\* 200 without an access_token: None is cached and returned, and nobody is told
\* of it but the next call, to which it is no token.
FetchedNone(c) ==
    /\ End(c, TRUE)
    /\ cacheLeft' = 0
    /\ tokenLeft' = 0
    /\ late' = {}
    /\ failed' = TRUE

----------------------------------------------------------------------------
(* Start-up, refresh, time                                                 *)

\* _lifespan: the first token, before anything is served.
FirstFetch ==
    /\ refresh = "start"
    /\ Enter(Refresher, TRUE)
    /\ UNCHANGED refreshVars

\* sleep(300) is over: a forced refresh.
RefreshDue ==
    /\ refresh = "sleep"
    /\ timer = 0
    /\ refresh' = "call"
    /\ Enter(Refresher, TRUE)
    /\ UNCHANGED timer

\* sleep(60) after a failure is over: the loop starts again, with its sleep.
SleepAgain ==
    /\ refresh = "retry"
    /\ timer = 0
    /\ refresh' = "sleep"
    /\ timer' = RefreshPeriod
    /\ UNCHANGED <<callVars, lockVars, fetchVars, cacheVars, failed>>

\* A minute passes.  Sleeps that are over, and calls that can have the lock,
\* do not wait for it, and a fetch ends within MaxFetch.
Tick ==
    /\ refresh \in {"sleep", "retry"} => timer > 0
    /\ lock = Free => waiters = <<>> /\ refresh # "start"
    /\ lock # Free => age < MaxFetch
    /\ age' = IF lock # Free THEN age + 1 ELSE age
    /\ cacheLeft' = Less(cacheLeft)
    /\ tokenLeft' = Less(tokenLeft)
    /\ timer' = Less(timer)
    /\ UNCHANGED <<callVars, lockVars, attempt, refresh, failed>>

----------------------------------------------------------------------------
Fetch(c) ==
    TooMany(c) \/ TryAgain(c) \/ FetchFails(c) \/ Fetched(c) \/ FetchedNone(c)

Task == FirstFetch \/ RefreshDue \/ SleepAgain

Next ==
    \/ \E c \in Tasks : Call(c) \/ Acquire(c) \/ Fetch(c)
    \/ Task
    \/ Tick

\* A request to Sber returns or times out after 30 s, sleeps end, and the loop
\* runs the call that was woken.
Spec ==
    /\ Init /\ [][Next]_vars
    /\ \A c \in Tasks : WF_vars(Acquire(c)) /\ WF_vars(Fetch(c))
    /\ WF_vars(Task)

----------------------------------------------------------------------------
(* Properties                                                              *)

\* Every variable keeps its type; a fetch makes at most MaxAttempts attempts.
TypeOK ==
    /\ at \in [Tasks -> {"idle", "lock", "fetch", "backoff"}]
    /\ forced \subseteq Tasks
    /\ late \subseteq Tasks
    /\ attempt \in 1 .. MaxAttempts
    /\ lock \in Tasks \cup {Free}
    /\ waiters \in Seq(Tasks)
    /\ age \in 0 .. MaxFetch
    /\ cacheLeft \in Nat
    /\ tokenLeft \in Nat
    /\ refresh \in {"start", "sleep", "call", "retry"}
    /\ timer \in 0 .. RefreshPeriod

\* A token is never held for good longer than it is: what the cache counts
\* down ends Margin minutes before the token does, however long the fetch
\* took.
CacheIsConservative == cacheLeft > 0 => tokenLeft >= cacheLeft + Margin

\* Calls that pile up behind a fetch use its token and do not fetch again one
\* by one.
NoHerd ==
    \A c \in late : c \notin forced => at[c] \notin {"fetch", "backoff"}

\* While no fetch fails, the refresh keeps the cache warm: after the start-up
\* no session waits for a fetch of its own.
CacheStaysWarm ==
    ~failed => \A c \in Callers : c \notin forced => at[c] # "fetch"

\* Every call returns a token or raises, however many wait for the lock and
\* whatever Sber answers.
CallEnds == \A c \in Tasks : at[c] # "idle" ~> at[c] = "idle"
====

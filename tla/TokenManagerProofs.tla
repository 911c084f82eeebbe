------------------------- MODULE TokenManagerProofs -------------------------
(***************************************************************************)
(* Proofs about TokenManager, for any number of calls and any expires_in:  *)
(* the cache expires before the token it holds, one call at a time fetches *)
(* and those that wait share its token, and the refresh keeps the cache    *)
(* warm.                                                                   *)
(***************************************************************************)
EXTENDS TokenManager, FiniteSetTheorems, SequenceTheorems,
        TLAPS

\* What the cache counts down, and what the fetch under way has taken.
TimesOK ==
    /\ age \in Nat
    /\ cacheLeft \in Nat
    /\ tokenLeft \in Nat

CacheInv == TimesOK /\ CacheIsConservative

\* Nothing is cached.
LEMMA InitInv == Init => CacheInv
  BY DEF Init, CacheInv, TimesOK, CacheIsConservative, Margin

\* A call under the lock starts a fetch or returns; the cache stays.
LEMMA ProceedAge ==
    ASSUME NEW c, NEW force, Proceed(c, force)
    PROVE  age' \in {0, age}
  BY DEF Proceed, fetchVars

\* Calls, waits and failures leave the cache alone; age stays or starts over.
LEMMA CacheFrame ==
    ASSUME NEW c \in Tasks,
           \/ Call(c) \/ Acquire(c) \/ TooMany(c) \/ TryAgain(c)
           \/ FetchFails(c) \/ Task
    PROVE  UNCHANGED cacheVars /\ age' \in {0, age}
<1>1. CASE Call(c) \/ FirstFetch \/ RefreshDue
  <2>1. PICK d, force : Enter(d, force)
      BY <1>1 DEF Call, FirstFetch, RefreshDue
  <2> QED
      BY <2>1, ProceedAge DEF Enter, fetchVars
<1>2. CASE Acquire(c)
    BY <1>2, ProceedAge DEF Acquire
<1>3. CASE TooMany(c) \/ TryAgain(c) \/ FetchFails(c)
    BY <1>3 DEF TooMany, TryAgain, FetchFails, End, fetchVars
<1>4. CASE SleepAgain
    BY <1>4 DEF SleepAgain, fetchVars
<1> QED
    BY <1>1, <1>2, <1>3, <1>4 DEF Task

\* The token was issued after the clock was read: it has Margin minutes more
\* than the cache gives it.
LEMMA FetchedStep ==
    ASSUME CacheInv, NEW c \in Tasks, Fetched(c)
    PROVE  CacheInv'
<1>1. age' = age /\ age \in Nat
    BY DEF Fetched, End, fetchVars, CacheInv, TimesOK
<1>2. PICK lifetime \in Lifetimes, since \in 0 .. age :
          /\ tokenLeft' = AtLeastZero(lifetime - since)
          /\ cacheLeft' = AtLeastZero(lifetime - Margin - age)
    BY DEF Fetched, ClockRead
<1>3. lifetime \in Nat /\ since \in Nat /\ since <= age
    BY <1>1, <1>2, LifetimesAssumption
<1> QED
    BY <1>1, <1>2, <1>3
    DEF CacheInv, TimesOK, CacheIsConservative, AtLeastZero, Margin

\* A minute takes as much from the token as from the cache.
LEMMA TickStep == CacheInv /\ Tick => CacheInv'
  BY DEF CacheInv, TimesOK, CacheIsConservative, Tick, Less, Margin

\* Every step keeps the invariant.
LEMMA CacheStep == CacheInv /\ [Next]_vars => CacheInv'
<1> SUFFICES ASSUME CacheInv, [Next]_vars PROVE CacheInv'
    OBVIOUS
<1>1. CASE UNCHANGED vars
    BY <1>1 DEF vars, fetchVars, cacheVars, CacheInv, TimesOK,
                CacheIsConservative
<1>2. CASE \E c \in Tasks : Fetched(c)
    BY <1>2, FetchedStep
<1>3. CASE Tick
    BY <1>3, TickStep
<1>4. CASE \E c \in Tasks : \/ Call(c) \/ Acquire(c) \/ TooMany(c)
                            \/ TryAgain(c) \/ FetchFails(c) \/ Task
  <2>1. UNCHANGED cacheVars /\ age' \in {0, age}
      BY <1>4, CacheFrame
  <2> QED
      BY <2>1 DEF cacheVars, CacheInv, TimesOK, CacheIsConservative
<1>5. CASE \E c \in Tasks : FetchedNone(c)
    BY <1>5 DEF FetchedNone, End, fetchVars, CacheInv, TimesOK,
                CacheIsConservative
<1> QED
    BY <1>1, <1>2, <1>3, <1>4, <1>5 DEF Next, Fetch, Tasks

\* The cache gives up at least five minutes before the token expires, for every
\* expires_in, however long a fetch takes and whatever fetches fail.
THEOREM CacheExpiresFirst == Spec => []CacheIsConservative
<1>1. Spec => []CacheInv
    BY InitInv, CacheStep, PTL DEF Spec
<1>2. CacheInv => CacheIsConservative
    BY DEF CacheInv
<1> QED
    BY <1>1, <1>2, PTL

----------------------------------------------------------------------------
(* The lock, the attempts and the queue                                    *)

\* Only the holder of the lock fetches, and one that backs off has an attempt
\* left.
HolderFetches ==
    \A c \in Tasks : /\ at[c] \in {"fetch", "backoff"} => lock = c
                     /\ at[c] = "backoff" => attempt < MaxAttempts

FetchInv == TypeOK /\ HolderFetches

\* A waiter that leaves the queue leaves a queue.
LEMMA RemoveType ==
    ASSUME NEW S, NEW s \in Seq(S), NEW i \in 1 .. Len(s)
    PROVE  Seqs!RemoveAt(s, i) \in Seq(S)
  BY DEF Seqs!RemoveAt

LEMMA FetchInit == Init => FetchInv
<1>1. <<>> \in Seq(Tasks)
    OBVIOUS
<1>2. 1 \in 1 .. MaxAttempts /\ 0 \in 0 .. MaxFetch /\ 0 \in 0 .. RefreshPeriod
    BY MaxAttemptsAssumption, MaxFetchAssumption DEF RefreshPeriod
<1> QED
    BY <1>1, <1>2 DEF Init, FetchInv, TypeOK, HolderFetches

\* Under the lock a call returns, or becomes the one that fetches.
LEMMA ProceedStep ==
    ASSUME FetchInv, NEW c \in Tasks, NEW force, Proceed(c, force), lock = Free
    PROVE  /\ at' \in [Tasks -> {"idle", "lock", "fetch", "backoff"}]
           /\ lock' \in Tasks \cup {Free}
           /\ attempt' \in 1 .. MaxAttempts
           /\ age' \in 0 .. MaxFetch
           /\ HolderFetches'
<1> USE MaxAttemptsAssumption, MaxFetchAssumption, FreeAssumption
        DEF FetchInv, TypeOK, HolderFetches
<1>1. CASE at' = [at EXCEPT ![c] = "idle"] /\ UNCHANGED <<lock, fetchVars>>
    BY <1>1 DEF fetchVars
<1>2. CASE /\ at' = [at EXCEPT ![c] = "fetch"]
           /\ lock' = c /\ attempt' = 1 /\ age' = 0
    BY <1>2
<1> QED
    BY <1>1, <1>2 DEF Proceed

\* A call comes in: it has the lock at once, or waits.
LEMMA EnterStep ==
    ASSUME FetchInv, NEW c \in Tasks, NEW force \in BOOLEAN, Enter(c, force),
           refresh' \in {"start", "sleep", "call", "retry"},
           timer' \in 0 .. RefreshPeriod
    PROVE  FetchInv'
<1>1. /\ forced' \subseteq Tasks /\ late' \subseteq Tasks
      /\ UNCHANGED cacheVars
    BY DEF Enter, FetchInv, TypeOK
<1>2. CASE LockFree /\ Proceed(c, force) /\ UNCHANGED waiters
    BY <1>1, <1>2, ProceedStep DEF LockFree, FetchInv, TypeOK, cacheVars
<1>3. CASE /\ at' = [at EXCEPT ![c] = "lock"]
           /\ waiters' = Append(waiters, c)
           /\ UNCHANGED <<lock, fetchVars>>
  <2>1. waiters' \in Seq(Tasks)
      BY <1>3 DEF FetchInv, TypeOK
  <2> QED
      BY <1>1, <1>3, <2>1 DEF FetchInv, TypeOK, HolderFetches, fetchVars, cacheVars
<1> QED
    BY <1>2, <1>3 DEF Enter

LEMMA AcquireStep ==
    ASSUME FetchInv, NEW c \in Tasks, Acquire(c)
    PROVE  FetchInv'
<1>1. waiters \in Seq(Tasks) /\ Woken \in 1 .. Len(waiters)
    BY DEF Acquire, Woken, FetchInv, TypeOK
<1>2. waiters' \in Seq(Tasks)
    BY <1>1, RemoveType DEF Acquire
<1>3. /\ Proceed(c, c \in forced) /\ lock = Free
      /\ UNCHANGED <<forced, late, cacheVars, refreshVars>>
    BY DEF Acquire
<1> QED
    BY <1>2, <1>3, ProceedStep DEF FetchInv, TypeOK, cacheVars, refreshVars

\* A fetch goes on, or ends and gives the lock back.
LEMMA FetchStep ==
    ASSUME FetchInv, NEW c \in Tasks, Fetch(c)
    PROVE  FetchInv'
<1> USE FreeAssumption, MaxAttemptsAssumption, MaxFetchAssumption
<1>1. CASE TooMany(c)
    BY <1>1 DEF TooMany, MoreAttempts, FetchInv, TypeOK, HolderFetches, lockVars,
       fetchVars, cacheVars, refreshVars
<1>2. CASE TryAgain(c)
  <2>1. /\ at[c] = "backoff" /\ at' = [at EXCEPT ![c] = "fetch"]
        /\ attempt' = attempt + 1
        /\ UNCHANGED <<forced, late, lock, waiters, age, cacheLeft, tokenLeft,
                       refresh, timer>>
      BY <1>2 DEF TryAgain, lockVars, cacheVars, refreshVars
  <2>2. attempt' \in 1 .. MaxAttempts
      BY <2>1 DEF FetchInv, TypeOK, HolderFetches
  <2>3. \A d \in Tasks : at[d] = "backoff" => d = c
      BY <2>1 DEF FetchInv, HolderFetches
  <2> QED
      BY <2>1, <2>2, <2>3 DEF FetchInv, TypeOK, HolderFetches
<1>3. ASSUME NEW success \in BOOLEAN, End(c, success),
             late' \subseteq Tasks, cacheLeft' \in Nat, tokenLeft' \in Nat
      PROVE  FetchInv'
  <2>1. /\ at[c] = "fetch" /\ at' = [at EXCEPT ![c] = "idle"] /\ lock' = Free
        /\ UNCHANGED <<forced, waiters, attempt, age>>
      BY <1>3 DEF End, fetchVars
  <2>2. /\ refresh' \in {"start", "sleep", "call", "retry"}
        /\ timer' \in 0 .. RefreshPeriod
      BY <1>3 DEF End, Resume, refreshVars, RefreshPeriod, RetryDelay, FetchInv,
         TypeOK
  <2>3. \A d \in Tasks : at[d] \in {"fetch", "backoff"} => d = c
      BY <2>1 DEF FetchInv, HolderFetches
  <2> QED
      BY <1>3, <2>1, <2>2, <2>3 DEF FetchInv, TypeOK, HolderFetches
<1>4. CASE FetchFails(c)
    BY <1>3, <1>4 DEF FetchFails, cacheVars, FetchInv, TypeOK
<1>5. CASE Fetched(c)
  <2>1. End(c, TRUE) /\ late' \subseteq Tasks
      BY <1>5 DEF Fetched, FetchInv, TypeOK
  <2>2. cacheLeft' \in Nat /\ tokenLeft' \in Nat
    <3>1. PICK lifetime \in Lifetimes, since \in 0 .. age :
              /\ tokenLeft' = AtLeastZero(lifetime - since)
              /\ cacheLeft' = AtLeastZero(lifetime - Margin - age)
        BY <1>5 DEF Fetched, ClockRead
    <3>2. lifetime \in Nat /\ since \in Nat /\ age \in Nat
        BY LifetimesAssumption DEF FetchInv, TypeOK
    <3> QED
        BY <3>1, <3>2 DEF AtLeastZero, Margin
  <2> QED
      BY <1>3, <2>1, <2>2
<1>6. CASE FetchedNone(c)
  <2>1. /\ End(c, TRUE) /\ late' \subseteq Tasks
        /\ cacheLeft' \in Nat /\ tokenLeft' \in Nat
      BY <1>6 DEF FetchedNone
  <2> QED
      BY <1>3, <2>1
<1> QED
    BY <1>1, <1>2, <1>4, <1>5, <1>6 DEF Fetch

LEMMA FetchInvStep == FetchInv /\ [Next]_vars => FetchInv'
<1> SUFFICES ASSUME FetchInv, [Next]_vars PROVE FetchInv'
    OBVIOUS
<1>1. ASSUME NEW c \in Tasks, Call(c) PROVE FetchInv'
    BY <1>1, EnterStep DEF Call, refreshVars, FetchInv, TypeOK
<1>2. CASE Task
  <2>1. Refresher \in Tasks
      BY DEF Tasks
  <2>2. CASE FirstFetch
      BY <2>1, <2>2, EnterStep DEF FirstFetch, refreshVars, FetchInv, TypeOK
  <2>3. CASE RefreshDue
      BY <2>1, <2>3, EnterStep DEF RefreshDue, FetchInv, TypeOK
  <2>4. CASE SleepAgain
      BY <2>4 DEF SleepAgain, FetchInv, TypeOK, HolderFetches, callVars, lockVars,
         fetchVars, cacheVars, RefreshPeriod
  <2> QED
      BY <1>2, <2>2, <2>3, <2>4 DEF Task
<1>3. CASE Tick
  <2>1. /\ age' \in 0 .. MaxFetch /\ cacheLeft' \in Nat /\ tokenLeft' \in Nat
        /\ timer' \in 0 .. RefreshPeriod
    <3>1. age \in 0 .. MaxFetch /\ cacheLeft \in Nat /\ tokenLeft \in Nat
          /\ timer \in 0 .. RefreshPeriod
        BY DEF FetchInv, TypeOK
    <3> QED
        BY <1>3, <3>1, MaxFetchAssumption DEF Tick, Less, RefreshPeriod
  <2> QED
      BY <1>3, <2>1 DEF Tick, FetchInv, TypeOK, HolderFetches, callVars, lockVars
<1>4. CASE UNCHANGED vars
    BY <1>4 DEF vars, FetchInv, TypeOK, HolderFetches, callVars, lockVars,
       fetchVars, cacheVars, refreshVars
<1> QED
    BY <1>1, <1>2, <1>3, <1>4, AcquireStep, FetchStep DEF Next

\* Every variable keeps its type, and a fetch its number of attempts, for any
\* number of calls.
THEOREM TypeCorrect == Spec => []TypeOK
<1>1. FetchInv => TypeOK
    BY DEF FetchInv
<1> QED
    BY FetchInit, FetchInvStep, <1>1, PTL DEF Spec

----------------------------------------------------------------------------
(* Who waits for the lock                                                  *)

\* The queue holds each call that waits, once; the lock's holder does not wait.
WaitersWait ==
    /\ \A i \in DOMAIN waiters : at[waiters[i]] = "lock"
    /\ \A c \in Tasks : at[c] = "lock" => \E i \in DOMAIN waiters : waiters[i] = c
    /\ \A i, j \in DOMAIN waiters : waiters[i] = waiters[j] => i = j
    /\ lock # Free => at[lock] \in {"fetch", "backoff"}

LockInv == FetchInv /\ WaitersWait

\* What is left of a queue when its first leaves.
LEMMA RemoveFirst ==
    ASSUME NEW S, NEW s \in Seq(S), s # <<>>
    PROVE  /\ Seqs!RemoveAt(s, Woken) \in Seq(S)
           /\ Len(Seqs!RemoveAt(s, Woken)) = Len(s) - 1
           /\ \A i \in 1 .. Len(s) - 1 : Seqs!RemoveAt(s, Woken)[i] = s[i + 1]
<1>1. SubSeq(s, 1, 0) = <<>>
    BY SubSeqEmpty
<1>2. /\ Tail(s) \in Seq(S) /\ Len(Tail(s)) = Len(s) - 1
      /\ \A i \in 1 .. Len(s) - 1 : Tail(s)[i] = s[i + 1]
    BY HeadTailProperties
<1>3. Seqs!RemoveAt(s, Woken) = <<>> \o Tail(s)
    BY <1>1, TailIsSubSeq DEF Seqs!RemoveAt, Woken
<1> QED
    BY <1>2, <1>3, ConcatEmptySeq

LEMMA WaitersInit == Init => WaitersWait
  BY DEF Init, WaitersWait

\* Under a free lock: who proceeds does not wait.
LEMMA ProceedWaiters ==
    ASSUME FetchInv, NEW c \in Tasks, NEW force, Proceed(c, force), lock = Free,
           waiters' \in Seq(Tasks),
           \A i \in DOMAIN waiters' : waiters'[i] # c /\ at[waiters'[i]] = "lock",
           \A d \in Tasks \ {c} :
               at[d] = "lock" => \E i \in DOMAIN waiters' : waiters'[i] = d,
           \A i, j \in DOMAIN waiters' : waiters'[i] = waiters'[j] => i = j
    PROVE  WaitersWait'
<1>1. at \in [Tasks -> {"idle", "lock", "fetch", "backoff"}] /\ c # Free
    BY FreeAssumption DEF FetchInv, TypeOK
<1>2. \A i \in DOMAIN waiters' : waiters'[i] \in Tasks
    OBVIOUS
<1>3. \/ at' = [at EXCEPT ![c] = "idle"] /\ lock' = lock
      \/ at' = [at EXCEPT ![c] = "fetch"] /\ lock' = c
    BY DEF Proceed
<1> QED
    BY <1>1, <1>2, <1>3 DEF WaitersWait

LEMMA EnterWaiters ==
    ASSUME LockInv, NEW c \in Tasks, NEW force \in BOOLEAN, Enter(c, force)
    PROVE  WaitersWait'
<1>1. at[c] = "idle" /\ waiters \in Seq(Tasks)
      /\ at \in [Tasks -> {"idle", "lock", "fetch", "backoff"}]
    BY DEF Enter, LockInv, FetchInv, TypeOK
<1>2. CASE LockFree /\ Proceed(c, force) /\ UNCHANGED waiters
    BY <1>1, <1>2, ProceedWaiters DEF LockFree, LockInv, WaitersWait
<1>3. CASE /\ at' = [at EXCEPT ![c] = "lock"]
           /\ waiters' = Append(waiters, c)
           /\ UNCHANGED lock
  <2>1. /\ Len(waiters') = Len(waiters) + 1 /\ Len(waiters) \in Nat
        /\ \A i \in 1 .. Len(waiters) : waiters'[i] = waiters[i]
        /\ waiters'[Len(waiters) + 1] = c
        /\ DOMAIN waiters' = 1 .. Len(waiters) + 1
        /\ DOMAIN waiters = 1 .. Len(waiters)
      BY <1>1, <1>3
  <2>2. \A i \in 1 .. Len(waiters) : waiters[i] # c /\ waiters[i] \in Tasks
      BY <1>1, <2>1 DEF LockInv, WaitersWait
  <2>3. \A i \in 1 .. Len(waiters) + 1 : at'[waiters'[i]] = "lock"
      BY <1>1, <1>3, <2>1, <2>2 DEF LockInv, WaitersWait
  <2>4. \A d \in Tasks : at'[d] = "lock"
                            => \E i \in 1 .. Len(waiters) + 1 : waiters'[i] = d
      BY <1>1, <1>3, <2>1, <2>2 DEF LockInv, WaitersWait
  <2>5. \A i, j \in 1 .. Len(waiters) + 1 : waiters'[i] = waiters'[j] => i = j
      BY <2>1, <2>2 DEF LockInv, WaitersWait
  <2>6. lock' # Free => at'[lock'] \in {"fetch", "backoff"}
      BY <1>1, <1>3 DEF LockInv, FetchInv, TypeOK, WaitersWait
  <2> QED
      BY <2>1, <2>3, <2>4, <2>5, <2>6 DEF WaitersWait
<1> QED
    BY <1>2, <1>3 DEF Enter

LEMMA AcquireWaiters ==
    ASSUME LockInv, NEW c \in Tasks, Acquire(c)
    PROVE  WaitersWait'
<1>1. /\ lock = Free /\ waiters # <<>> /\ waiters[1] = c
      /\ waiters \in Seq(Tasks) /\ Len(waiters) \in Nat \ {0}
      /\ DOMAIN waiters = 1 .. Len(waiters)
      /\ Proceed(c, c \in forced)
    BY DEF Acquire, Woken, LockInv, FetchInv, TypeOK
<1>2. /\ waiters' \in Seq(Tasks) /\ Len(waiters') = Len(waiters) - 1
      /\ \A i \in 1 .. Len(waiters) - 1 : waiters'[i] = waiters[i + 1]
    BY <1>1, RemoveFirst DEF Acquire
<1>3. DOMAIN waiters' = 1 .. Len(waiters) - 1
    BY <1>2
<1>4. \A i \in DOMAIN waiters' : waiters'[i] # c /\ at[waiters'[i]] = "lock"
    BY <1>1, <1>2, <1>3 DEF LockInv, WaitersWait
<1>5. ASSUME NEW d \in Tasks \ {c}, at[d] = "lock"
      PROVE  \E i \in DOMAIN waiters' : waiters'[i] = d
  <2>1. PICK i \in 1 .. Len(waiters) : waiters[i] = d
      BY <1>1, <1>5 DEF LockInv, WaitersWait
  <2>2. i - 1 \in DOMAIN waiters' /\ waiters'[i - 1] = d
      BY <1>1, <1>2, <1>3, <2>1
  <2> QED
      BY <2>2
<1>6. ASSUME NEW i \in DOMAIN waiters', NEW j \in DOMAIN waiters',
             waiters'[i] = waiters'[j]
      PROVE  i = j
  <2>1. i + 1 \in DOMAIN waiters /\ j + 1 \in DOMAIN waiters
      BY <1>1, <1>3
  <2>2. waiters[i + 1] = waiters[j + 1]
      BY <1>2, <1>3, <1>6
  <2> QED
      BY <1>3, <2>1, <2>2 DEF LockInv, WaitersWait
<1> QED
    BY <1>1, <1>2, <1>4, <1>5, <1>6, ProceedWaiters DEF LockInv

LEMMA FetchWaiters ==
    ASSUME LockInv, NEW c \in Tasks, Fetch(c)
    PROVE  WaitersWait'
<1>1. /\ at[c] \in {"fetch", "backoff"} /\ lock = c /\ waiters' = waiters
      /\ waiters \in Seq(Tasks)
      /\ at \in [Tasks -> {"idle", "lock", "fetch", "backoff"}]
      /\ \/ at' = [at EXCEPT ![c] = "backoff"] /\ lock' = lock
         \/ at' = [at EXCEPT ![c] = "fetch"] /\ lock' = lock
         \/ at' = [at EXCEPT ![c] = "idle"] /\ lock' = Free
    BY DEF Fetch, TooMany, TryAgain, FetchFails, Fetched, FetchedNone, End,
       lockVars, LockInv, FetchInv, TypeOK, HolderFetches
<1>2. \A i \in DOMAIN waiters : waiters[i] \in Tasks /\ waiters[i] # c
    BY <1>1 DEF LockInv, WaitersWait
<1> QED
    BY <1>1, <1>2, FreeAssumption DEF LockInv, WaitersWait

LEMMA LockStep == LockInv /\ [Next]_vars => LockInv'
<1> SUFFICES ASSUME LockInv, [Next]_vars PROVE WaitersWait'
    BY FetchInvStep DEF LockInv
<1>1. ASSUME NEW c \in Tasks, Call(c) PROVE WaitersWait'
    BY <1>1, EnterWaiters DEF Call
<1>2. CASE FirstFetch \/ RefreshDue
    BY <1>2, EnterWaiters DEF FirstFetch, RefreshDue, Tasks
<1>3. CASE SleepAgain \/ Tick \/ UNCHANGED vars
    BY <1>3 DEF SleepAgain, Tick, vars, callVars, lockVars, LockInv, WaitersWait
<1> QED
    BY <1>1, <1>2, <1>3, AcquireWaiters, FetchWaiters DEF Next, Task

LEMMA LockInvariant == Spec => []LockInv
  BY FetchInit, WaitersInit, LockStep, PTL DEF Spec, LockInv

----------------------------------------------------------------------------
(* No herd                                                                 *)

\* A token lives longer than the two margins and one fetch of each other call.
OutlivesQueue ==
    \A lifetime \in Lifetimes :
        lifetime > 2 * Margin + (Cardinality(Tasks) - 1) * MaxFetch

\* What the fetch under way may still take.
FetchTime == IF lock = Free THEN 0 ELSE MaxFetch - age

\* The cache is good for a call that waited when a fetch succeeded until all
\* who are before it in the queue have fetched.
CacheOutlastsQueue ==
    \A i \in DOMAIN waiters : waiters[i] \in late =>
        cacheLeft > Margin + (i - 1) * MaxFetch + FetchTime

HerdInv == CacheOutlastsQueue /\ NoHerd

LEMMA Times ==
    ASSUME NEW m \in Nat
    PROVE  /\ \A i \in Int : i * m \in Int /\ (i + 1) * m = i * m + m
           /\ \A i, j \in Nat : i <= j => i * m <= j * m
<1>1. \A i \in Int : i * m \in Int /\ (i + 1) * m = i * m + m
    OBVIOUS
<1>2. ASSUME NEW i \in Nat, NEW j \in Nat, i <= j
      PROVE  i * m <= j * m
  <2>1. j - i \in Nat /\ (j - i) * m >= 0
      BY <1>2
  <2>2. (j - i) * m = j * m - i * m
      OBVIOUS
  <2> QED
      BY <2>1, <2>2
<1> QED
    BY <1>1, <1>2

\* While a call holds the lock, the others at most wait.
LEMMA QueueBound ==
    ASSUME LockInv, IsFiniteSet(Tasks), lock \in Tasks
    PROVE  /\ Cardinality(Tasks) \in Nat
           /\ Len(waiters) <= Cardinality(Tasks) - 1
<1> DEFINE others == Tasks \ {lock}
<1>1. /\ waiters \in Seq(Tasks) /\ lock # Free
      /\ at[lock] # "lock"
    BY FreeAssumption DEF LockInv, FetchInv, TypeOK, WaitersWait
<1>2. /\ waiters \in [1 .. Len(waiters) -> Tasks]
      /\ DOMAIN waiters = 1 .. Len(waiters) /\ Len(waiters) \in Nat
    BY <1>1
<1>3. waiters \in Injection(1 .. Len(waiters), others)
  <2>1. \A i \in 1 .. Len(waiters) : waiters[i] \in others
      BY <1>1, <1>2 DEF LockInv, WaitersWait
  <2>2. waiters \in [1 .. Len(waiters) -> others]
      BY <1>2, <2>1
  <2>3. \A i, j \in 1 .. Len(waiters) : waiters[i] = waiters[j] => i = j
      BY <1>2 DEF LockInv, WaitersWait
  <2> QED
      BY <2>2, <2>3 DEF Injection, IsInjective
<1>4. /\ IsFiniteSet(others) /\ Cardinality(others) = Cardinality(Tasks) - 1
      /\ Cardinality(Tasks) \in Nat
    BY FS_RemoveElement, FS_CardinalityType
<1>5. Cardinality(1 .. Len(waiters)) <= Cardinality(others)
    BY <1>3, <1>4, FS_Injection
<1>6. Cardinality(1 .. Len(waiters)) = Len(waiters)
  <2>1. 1 \in Int /\ Len(waiters) \in Int /\ Len(waiters) >= 0
      BY <1>2
  <2>2. Cardinality(1 .. Len(waiters))
            = IF 1 > Len(waiters) THEN 0 ELSE Len(waiters) - 1 + 1
      BY <2>1, FS_Interval
  <2> QED
      BY <2>1, <2>2
<1> QED
    BY <1>4, <1>5, <1>6

LEMMA HerdInit == Init => HerdInv
  BY DEF Init, HerdInv, CacheOutlastsQueue, NoHerd

\* A call that has not waited for anything is not late, and joins the queue.
LEMMA EnterHerd ==
    ASSUME LockInv, HerdInv, NEW c \in Tasks, NEW force \in BOOLEAN,
           Enter(c, force)
    PROVE  HerdInv'
<1>1. /\ waiters \in Seq(Tasks) /\ Len(waiters) \in Nat
      /\ DOMAIN waiters = 1 .. Len(waiters)
      /\ at \in [Tasks -> {"idle", "lock", "fetch", "backoff"}]
      /\ forced \subseteq Tasks
      /\ c \notin late' /\ late' \subseteq late /\ cacheLeft' = cacheLeft
      /\ \A d \in Tasks \ {c} : d \in forced' <=> d \in forced
      /\ \A d \in Tasks \ {c} : at'[d] = at[d]
    BY DEF Enter, Proceed, cacheVars, LockInv, FetchInv, TypeOK
<1>2. NoHerd'
    BY <1>1 DEF HerdInv, NoHerd, LockInv, FetchInv, TypeOK
<1>3. ASSUME LockFree, UNCHANGED waiters
      PROVE  CacheOutlastsQueue'
    BY <1>1, <1>3 DEF LockFree, CacheOutlastsQueue
<1>4. ASSUME waiters' = Append(waiters, c), UNCHANGED <<lock, fetchVars>>
      PROVE  CacheOutlastsQueue'
  <2>1. /\ DOMAIN waiters' = 1 .. Len(waiters) + 1
        /\ \A i \in 1 .. Len(waiters) : waiters'[i] = waiters[i]
        /\ waiters'[Len(waiters) + 1] = c
      BY <1>1, <1>4
  <2>2. FetchTime' = FetchTime
      BY <1>4 DEF FetchTime, fetchVars
  <2> QED
      BY <1>1, <2>1, <2>2 DEF HerdInv, CacheOutlastsQueue
<1> QED
    BY <1>2, <1>3, <1>4 DEF Enter, HerdInv

\* The first of the queue finds the cache good, if it is late; and what the
\* others may have to wait is one fetch less.
LEMMA AcquireHerd ==
    ASSUME LockInv, HerdInv, NEW c \in Tasks, Acquire(c)
    PROVE  HerdInv'
<1>1. /\ lock = Free /\ waiters # <<>> /\ waiters[1] = c
      /\ waiters \in Seq(Tasks) /\ Len(waiters) \in Nat \ {0}
      /\ DOMAIN waiters = 1 .. Len(waiters)
      /\ Proceed(c, c \in forced)
      /\ UNCHANGED <<forced, late, cacheLeft>>
      /\ at \in [Tasks -> {"idle", "lock", "fetch", "backoff"}]
      /\ cacheLeft \in Nat /\ age \in Nat /\ late \subseteq Tasks
    BY DEF Acquire, Woken, cacheVars, LockInv, FetchInv, TypeOK
<1>2. /\ waiters' \in Seq(Tasks)
      /\ DOMAIN waiters' = 1 .. Len(waiters) - 1
      /\ \A i \in 1 .. Len(waiters) - 1 : waiters'[i] = waiters[i + 1]
  <2>1. waiters' = Seqs!RemoveAt(waiters, Woken)
      BY DEF Acquire
  <2>2. /\ waiters' \in Seq(Tasks) /\ Len(waiters') = Len(waiters) - 1
        /\ \A i \in 1 .. Len(waiters) - 1 : waiters'[i] = waiters[i + 1]
      BY <1>1, <2>1, RemoveFirst
  <2> QED
      BY <2>2
<1>3. FetchTime = 0 /\ (lock' = Free \/ age' = 0)
    BY <1>1 DEF Proceed, FetchTime
<1>4. CacheOutlastsQueue'
  <2> SUFFICES ASSUME NEW i \in 1 .. Len(waiters) - 1, waiters'[i] \in late
               PROVE  cacheLeft > Margin + (i - 1) * MaxFetch + FetchTime'
      BY <1>1, <1>2 DEF CacheOutlastsQueue
  <2>1. i + 1 \in DOMAIN waiters /\ waiters[i + 1] \in late
      BY <1>1, <1>2
  <2>2. cacheLeft > Margin + i * MaxFetch
      BY <1>3, <2>1, Times, MaxFetchAssumption DEF HerdInv, CacheOutlastsQueue, Margin
  <2>3. /\ i * MaxFetch = (i - 1) * MaxFetch + MaxFetch
        /\ (i - 1) * MaxFetch \in Int /\ i * MaxFetch \in Int
      BY Times, MaxFetchAssumption
  <2> QED
      BY <1>1, <1>3, <2>2, <2>3, MaxFetchAssumption DEF FetchTime, Margin
<1>5. NoHerd'
  <2>1. c \in late /\ c \notin forced => at'[c] = "idle"
    <3>1. ASSUME c \in late PROVE cacheLeft > Margin
        BY <1>1, <1>3, <3>1, MaxFetchAssumption DEF HerdInv, CacheOutlastsQueue, Margin
    <3> QED
        BY <1>1, <3>1 DEF Proceed, CacheHit
  <2>2. \A d \in Tasks \ {c} : at'[d] = at[d]
      BY <1>1 DEF Proceed
  <2> QED
      BY <1>1, <2>1, <2>2 DEF HerdInv, NoHerd
<1> QED
    BY <1>4, <1>5 DEF HerdInv

\* A fetch that goes on or fails changes nothing for the others.
LEMMA FailHerd ==
    ASSUME LockInv, HerdInv, NEW c \in Tasks,
           TooMany(c) \/ TryAgain(c) \/ FetchFails(c)
    PROVE  HerdInv'
<1>1. /\ at[c] \in {"fetch", "backoff"}
      /\ UNCHANGED <<forced, late, waiters, cacheLeft, age>>
      /\ lock' = lock \/ lock' = Free
      /\ \E place \in {"idle", "fetch", "backoff"} :
             at' = [at EXCEPT ![c] = place]
    BY DEF TooMany, TryAgain, FetchFails, End, lockVars, fetchVars, cacheVars
<1>2. /\ at \in [Tasks -> {"idle", "lock", "fetch", "backoff"}]
      /\ late \subseteq Tasks /\ cacheLeft \in Nat /\ age \in 0 .. MaxFetch
      /\ waiters \in Seq(Tasks)
    BY DEF LockInv, FetchInv, TypeOK
<1>3. FetchTime' <= FetchTime /\ FetchTime \in Int /\ FetchTime' \in Int
    BY <1>1, <1>2, MaxFetchAssumption DEF FetchTime
<1>4. CacheOutlastsQueue'
  <2> SUFFICES ASSUME NEW i \in DOMAIN waiters, waiters[i] \in late
               PROVE  cacheLeft > Margin + (i - 1) * MaxFetch + FetchTime'
      BY <1>1 DEF CacheOutlastsQueue
  <2>1. (i - 1) * MaxFetch \in Int
      BY <1>2, Times, MaxFetchAssumption
  <2>2. cacheLeft > Margin + (i - 1) * MaxFetch + FetchTime
      BY DEF HerdInv, CacheOutlastsQueue
  <2> QED
      BY <1>2, <1>3, <2>1, <2>2 DEF Margin
<1>5. NoHerd'
    BY <1>1, <1>2 DEF HerdInv, NoHerd
<1> QED
    BY <1>4, <1>5 DEF HerdInv

\* A new token is good until the last of those who wait has had its turn.
LEMMA FetchedHerd ==
    ASSUME LockInv, HerdInv, IsFiniteSet(Tasks), OutlivesQueue,
           NEW c \in Tasks, Fetched(c)
    PROVE  HerdInv'
<1>1. /\ at[c] = "fetch" /\ lock = c /\ lock' = Free
      /\ at' = [at EXCEPT ![c] = "idle"]
      /\ UNCHANGED <<forced, waiters, age>>
      /\ late' = late \cup {d \in Tasks : at[d] = "lock"}
    BY DEF Fetched, End, fetchVars, LockInv, FetchInv, HolderFetches
<1>2. /\ at \in [Tasks -> {"idle", "lock", "fetch", "backoff"}]
      /\ age \in 0 .. MaxFetch /\ late \subseteq Tasks
      /\ waiters \in Seq(Tasks) /\ DOMAIN waiters = 1 .. Len(waiters)
      /\ Len(waiters) \in Nat
    BY DEF LockInv, FetchInv, TypeOK
<1>3. CacheOutlastsQueue'
  <2> DEFINE n == Cardinality(Tasks) - 1
  <2>1. n \in Int /\ Len(waiters) <= n
      BY <1>1, QueueBound
  <2> HIDE DEF n
  <2>2. FetchTime' = 0
      BY <1>1 DEF FetchTime
  <2> SUFFICES ASSUME NEW i \in 1 .. Len(waiters)
               PROVE  cacheLeft' > Margin + (i - 1) * MaxFetch
      BY <1>1, <1>2, <2>2, Times, MaxFetchAssumption DEF CacheOutlastsQueue, Margin
  <2>3. PICK lifetime \in Lifetimes :
            cacheLeft' = AtLeastZero(lifetime - Margin - age)
      BY DEF Fetched, ClockRead
  <2>4. lifetime > 2 * Margin + n * MaxFetch /\ lifetime \in Nat
      BY LifetimesAssumption DEF OutlivesQueue, n
  <2>5. (i - 1) * MaxFetch <= (n - 1) * MaxFetch
      BY <1>2, <2>1, Times, MaxFetchAssumption
  <2>6. n * MaxFetch = (n - 1) * MaxFetch + MaxFetch
        /\ (i - 1) * MaxFetch \in Nat /\ (n - 1) * MaxFetch \in Int
      BY <2>1, Times, MaxFetchAssumption
  <2> QED
      BY <1>2, <2>3, <2>4, <2>5, <2>6, MaxFetchAssumption DEF AtLeastZero, Margin
<1>4. NoHerd'
    BY <1>1, <1>2 DEF HerdInv, NoHerd
<1> QED
    BY <1>3, <1>4 DEF HerdInv

\* After an answer without a token nobody counts on one.
LEMMA NoneHerd ==
    ASSUME NEW c \in Tasks, FetchedNone(c)
    PROVE  HerdInv'
  BY DEF FetchedNone, HerdInv, CacheOutlastsQueue, NoHerd

LEMMA TickHerd ==
    ASSUME LockInv, HerdInv, Tick
    PROVE  HerdInv'
<1>1. /\ UNCHANGED <<at, forced, late, lock, waiters>>
      /\ lock = Free => waiters = <<>>
      /\ lock # Free => age < MaxFetch /\ age' = age + 1
      /\ cacheLeft' = Less(cacheLeft)
    BY DEF Tick, callVars, lockVars
<1>2. /\ cacheLeft \in Nat /\ age \in 0 .. MaxFetch /\ waiters \in Seq(Tasks)
    BY DEF LockInv, FetchInv, TypeOK
<1>3. CacheOutlastsQueue'
  <2> SUFFICES ASSUME NEW i \in DOMAIN waiters, waiters[i] \in late
               PROVE  cacheLeft' > Margin + (i - 1) * MaxFetch + FetchTime'
      BY <1>1 DEF CacheOutlastsQueue
  <2>1. (i - 1) * MaxFetch \in Nat
      BY <1>2, Times, MaxFetchAssumption
  <2>2. lock # Free
      BY <1>1, <1>2
  <2>3. cacheLeft > Margin + (i - 1) * MaxFetch + (MaxFetch - age)
      BY <2>2 DEF HerdInv, CacheOutlastsQueue, FetchTime
  <2>4. FetchTime' = MaxFetch - age - 1
      BY <1>1, <1>2, <2>2, MaxFetchAssumption DEF FetchTime
  <2> QED
      BY <1>1, <1>2, <2>1, <2>2, <2>3, <2>4, MaxFetchAssumption DEF Less, Margin
<1>4. NoHerd'
    BY <1>1 DEF HerdInv, NoHerd
<1> QED
    BY <1>3, <1>4 DEF HerdInv

LEMMA HerdStep ==
    ASSUME IsFiniteSet(Tasks), OutlivesQueue, LockInv, HerdInv, [Next]_vars
    PROVE  HerdInv'
<1>1. ASSUME NEW c \in Tasks, Call(c) PROVE HerdInv'
    BY <1>1, EnterHerd DEF Call
<1>2. CASE FirstFetch \/ RefreshDue
    BY <1>2, EnterHerd DEF FirstFetch, RefreshDue, Tasks
<1>3. CASE SleepAgain \/ UNCHANGED vars
    BY <1>3 DEF SleepAgain, vars, callVars, lockVars, fetchVars, cacheVars, HerdInv,
       CacheOutlastsQueue, NoHerd, FetchTime
<1>4. ASSUME NEW c \in Tasks, Fetch(c) PROVE HerdInv'
    BY <1>4, FailHerd, FetchedHerd, NoneHerd DEF Fetch
<1> QED
    BY <1>1, <1>2, <1>3, <1>4, AcquireHerd, TickHerd DEF Next, Task

\* Calls that wait while one fetches share its token, however many they are,
\* whatever forced fetches of others come between and whether these succeed:
\* if a token outlives the two margins and one fetch of each other call.
THEOREM FetchIsShared ==
    ASSUME IsFiniteSet(Tasks), OutlivesQueue
    PROVE  Spec => []NoHerd
<1>1. LockInv /\ HerdInv /\ [Next]_vars => HerdInv'
    BY HerdStep
<1>2. HerdInv => NoHerd
    BY DEF HerdInv
<1> QED
    BY HerdInit, LockInvariant, <1>1, <1>2, PTL DEF Spec

----------------------------------------------------------------------------
(* The warm cache                                                          *)

\* A token lives longer than the two margins, the sleep of the refresh task,
\* and the fetch it may have to wait for.
OutlivesRefresh ==
    \A lifetime \in Lifetimes :
        lifetime > 2 * Margin + RefreshPeriod + MaxFetch

\* The refresh task forces its fetch, and its call is under way until the
\* task sleeps.
RefresherCalls ==
    /\ at[Refresher] # "idle" => Refresher \in forced
    /\ refresh = "call" => at[Refresher] # "idle"

\* While no fetch fails: the cache outlasts the sleep; then it outlasts the
\* fetch before the refresh, if one is under way.
CacheOutlastsRefresh ==
    ~failed =>
        /\ refresh # "retry"
        /\ refresh = "start" => \A c \in Callers : at[c] = "idle"
        /\ refresh = "sleep" => cacheLeft > Margin + timer
        /\ refresh = "call" => \/ cacheLeft > Margin
                               \/ lock # Free /\ cacheLeft + age > Margin

\* Only calls with force=True fetch.
CacheServes ==
    ~failed => \A c \in Callers : c \notin forced => at[c] \notin {"fetch", "backoff"}

WarmInv == RefresherCalls /\ CacheOutlastsRefresh /\ CacheServes

LEMMA WarmInit == Init => WarmInv
  BY RefresherAssumption
  DEF Init, WarmInv, RefresherCalls, CacheOutlastsRefresh, CacheServes, Tasks

\* A caller that has the lock once the start-up is over finds the cache good.
LEMMA CacheIsWarm ==
    ASSUME LockInv, WarmInv, ~failed, lock = Free, refresh # "start"
    PROVE  cacheLeft > Margin
<1>1. refresh \in {"sleep", "call"} /\ timer \in Nat /\ cacheLeft \in Nat
    BY DEF LockInv, FetchInv, TypeOK, WarmInv, CacheOutlastsRefresh
<1> QED
    BY <1>1 DEF WarmInv, CacheOutlastsRefresh, Margin

\* Under a free lock a call without force that proceeds has the cached token.
LEMMA ProceedServed ==
    ASSUME LockInv, WarmInv, NEW c \in Callers, NEW force \in BOOLEAN, ~force,
           lock = Free, refresh # "start", Proceed(c, force), ~failed
    PROVE  at' = [at EXCEPT ![c] = "idle"] /\ lock' = lock
<1>1. cacheLeft > Margin
    BY CacheIsWarm
<1> QED
    BY <1>1 DEF Proceed, CacheHit

LEMMA CallWarm ==
    ASSUME LockInv, WarmInv, NEW c \in Callers, Call(c)
    PROVE  WarmInv'
<1>1. PICK force \in BOOLEAN : Enter(c, force)
    BY DEF Call
<1>2. /\ c # Refresher /\ c # Free /\ c \in Tasks /\ refresh # "start"
      /\ UNCHANGED <<refresh, timer, failed, cacheLeft>>
      /\ at \in [Tasks -> {"idle", "lock", "fetch", "backoff"}]
      /\ at' \in [Tasks -> {"idle", "lock", "fetch", "backoff"}]
      /\ \A d \in Tasks \ {c} : at'[d] = at[d]
      /\ \A d \in Tasks \ {c} : d \in forced' <=> d \in forced
      /\ c \in forced' <=> force
      /\ Refresher \in Tasks /\ cacheLeft \in Nat
    BY <1>1, RefresherAssumption, FreeAssumption
    DEF Call, Enter, Proceed, refreshVars, cacheVars, Tasks, LockInv, FetchInv,
        TypeOK
<1>3. RefresherCalls'
    BY <1>2 DEF WarmInv, RefresherCalls
<1>4. \/ lock = Free /\ (lock' = Free \/ age' = 0)
      \/ UNCHANGED <<lock, age>>
    BY <1>1 DEF Enter, LockFree, Proceed, fetchVars
<1>5. CacheOutlastsRefresh'
    BY <1>2, <1>4 DEF WarmInv, CacheOutlastsRefresh, Margin
<1>6. CacheServes'
  <2>1. CASE LockFree /\ Proceed(c, force)
      BY <1>2, <2>1, ProceedServed DEF LockFree, WarmInv, CacheServes, Tasks
  <2>2. CASE at' = [at EXCEPT ![c] = "lock"]
      BY <1>2, <2>2 DEF WarmInv, CacheServes, Tasks
  <2> QED
      BY <1>1, <2>1, <2>2 DEF Enter
<1> QED
    BY <1>3, <1>5, <1>6 DEF WarmInv

LEMMA RefresherWarm ==
    ASSUME LockInv, WarmInv, FirstFetch \/ RefreshDue
    PROVE  WarmInv'
<1>1. /\ Enter(Refresher, TRUE)
      /\ \/ refresh = "start" /\ UNCHANGED refreshVars
         \/ refresh = "sleep" /\ timer = 0 /\ refresh' = "call" /\ timer' = timer
    BY DEF FirstFetch, RefreshDue
<1>2. /\ Refresher \in Tasks /\ Refresher # Free
      /\ UNCHANGED <<failed, cacheLeft>>
      /\ at \in [Tasks -> {"idle", "lock", "fetch", "backoff"}]
      /\ at'[Refresher] \in {"lock", "fetch"}
      /\ Refresher \in forced'
      /\ \A d \in Callers : d \in Tasks /\ d # Refresher
      /\ \A d \in Callers : at'[d] = at[d] /\ (d \in forced' <=> d \in forced)
      /\ cacheLeft \in Nat
  <2>1. ~CacheHit(TRUE)
      BY DEF CacheHit
  <2> QED
      BY <1>1, <2>1, RefresherAssumption, FreeAssumption
      DEF Enter, Proceed, cacheVars, Tasks, LockInv, FetchInv, TypeOK
<1>3. RefresherCalls'
    BY <1>2 DEF RefresherCalls
<1>4. CacheOutlastsRefresh'
    BY <1>1, <1>2 DEF WarmInv, CacheOutlastsRefresh, refreshVars, Margin
<1>5. CacheServes'
    BY <1>2 DEF WarmInv, CacheServes
<1> QED
    BY <1>3, <1>4, <1>5 DEF WarmInv

LEMMA AcquireWarm ==
    ASSUME LockInv, WarmInv, NEW c \in Tasks, Acquire(c)
    PROVE  WarmInv'
<1>1. /\ lock = Free /\ Proceed(c, c \in forced) /\ at[c] = "lock"
      /\ UNCHANGED <<forced, cacheLeft, refresh, timer, failed>>
      /\ at \in [Tasks -> {"idle", "lock", "fetch", "backoff"}]
      /\ cacheLeft \in Nat /\ c # Free
      /\ Refresher \in Tasks /\ Callers \subseteq Tasks
  <2>1. waiters \in Seq(Tasks) /\ waiters # <<>> /\ waiters[1] = c
      BY DEF Acquire, Woken, LockInv, FetchInv, TypeOK
  <2>2. at[c] = "lock"
      BY <2>1 DEF LockInv, WaitersWait
  <2> QED
      BY <2>2, FreeAssumption
      DEF Acquire, cacheVars, refreshVars, Tasks, LockInv, FetchInv, TypeOK
<1>2. \/ /\ at' = [at EXCEPT ![c] = "idle"] /\ UNCHANGED <<lock, age>>
         /\ c \notin forced
      \/ /\ at' = [at EXCEPT ![c] = "fetch"] /\ lock' = c /\ age' = 0
         /\ c \notin forced => cacheLeft <= Margin
    BY <1>1 DEF Proceed, CacheHit, fetchVars, Margin
<1>3. RefresherCalls'
    BY <1>1, <1>2 DEF WarmInv, RefresherCalls
<1>4. CacheOutlastsRefresh'
    BY <1>1, <1>2 DEF WarmInv, CacheOutlastsRefresh, Margin
<1>5. CacheServes'
  <2>1. ~failed /\ c \in Callers => cacheLeft > Margin
      BY <1>1, CacheIsWarm DEF WarmInv, CacheOutlastsRefresh
  <2> QED
      BY <1>1, <1>2, <2>1 DEF WarmInv, CacheServes, Margin
<1> QED
    BY <1>3, <1>4, <1>5 DEF WarmInv

LEMMA FetchWarm ==
    ASSUME LockInv, WarmInv, OutlivesRefresh, NEW c \in Tasks, Fetch(c)
    PROVE  WarmInv'
<1>1. /\ at \in [Tasks -> {"idle", "lock", "fetch", "backoff"}]
      /\ age \in 0 .. MaxFetch /\ timer \in 0 .. RefreshPeriod
      /\ Refresher \in Tasks /\ Callers \subseteq Tasks
      /\ refresh \in {"start", "sleep", "call", "retry"}
    BY DEF Tasks, LockInv, FetchInv, TypeOK
<1>2. CASE TooMany(c) \/ TryAgain(c)
  <2>1. /\ at[c] \in {"fetch", "backoff"}
        /\ \/ at' = [at EXCEPT ![c] = "fetch"]
           \/ at' = [at EXCEPT ![c] = "backoff"]
        /\ UNCHANGED <<forced, lock, age, cacheLeft, refresh, timer, failed>>
      BY <1>2 DEF TooMany, TryAgain, lockVars, fetchVars, cacheVars, refreshVars
  <2> QED
      BY <1>1, <2>1
      DEF WarmInv, RefresherCalls, CacheOutlastsRefresh, CacheServes
<1>3. ASSUME NEW success \in BOOLEAN, End(c, success)
      PROVE  RefresherCalls'
    BY <1>1, <1>3 DEF End, Resume, refreshVars, WarmInv, RefresherCalls
<1>4. CASE FetchFails(c)
  <2>1. failed'
      BY <1>4 DEF FetchFails
  <2> QED
      BY <1>3, <1>4, <2>1
      DEF FetchFails, WarmInv, CacheOutlastsRefresh, CacheServes
<1>5. CASE Fetched(c)
  <2>1. /\ at[c] = "fetch" /\ at' = [at EXCEPT ![c] = "idle"]
        /\ UNCHANGED <<forced, failed>>
        /\ c # Refresher => UNCHANGED <<refresh, timer>>
        /\ c = Refresher => refresh' = "sleep" /\ timer' = RefreshPeriod
      BY <1>5 DEF Fetched, End, Resume, refreshVars
  <2>2. cacheLeft' > Margin + RefreshPeriod
    <3>1. PICK lifetime \in Lifetimes :
              cacheLeft' = AtLeastZero(lifetime - Margin - age)
        BY <1>5 DEF Fetched, ClockRead
    <3>2. lifetime \in Nat /\ lifetime > 2 * Margin + RefreshPeriod + MaxFetch
        BY LifetimesAssumption DEF OutlivesRefresh
    <3> QED
        BY <1>1, <3>1, <3>2, MaxFetchAssumption
        DEF AtLeastZero, Margin, RefreshPeriod
  <2>3. cacheLeft' \in Nat
      BY FetchInvStep, <1>5 DEF LockInv, FetchInv, TypeOK, Next, Fetch
  <2>4. CacheOutlastsRefresh'
    <3>1. timer' \in Nat /\ timer' <= RefreshPeriod
        BY <1>1, <2>1 DEF RefreshPeriod
    <3>2. cacheLeft' > Margin + timer' /\ cacheLeft' > Margin
      <4>1. \A left, next \in Nat :
                left > Margin + RefreshPeriod /\ next <= RefreshPeriod =>
                    left > Margin + next /\ left > Margin
          BY DEF Margin, RefreshPeriod
      <4> QED
          BY <2>2, <2>3, <3>1, <4>1, Zenon
    <3>3. ~failed => refresh' # "retry"
        BY <2>1 DEF WarmInv, CacheOutlastsRefresh
    <3>4. ~failed /\ refresh' = "start" => \A d \in Callers : at'[d] = "idle"
        BY <1>1, <2>1 DEF WarmInv, CacheOutlastsRefresh
    <3> QED
        BY <2>1, <3>2, <3>3, <3>4 DEF CacheOutlastsRefresh
  <2>5. CacheServes'
      BY <1>1, <2>1 DEF WarmInv, CacheServes
  <2> QED
      BY <1>3, <1>5, <2>4, <2>5 DEF Fetched, WarmInv
<1>6. CASE FetchedNone(c)
  <2>1. failed' /\ End(c, TRUE)
      BY <1>6 DEF FetchedNone
  <2> QED
      BY <1>3, <2>1 DEF WarmInv, CacheOutlastsRefresh, CacheServes
<1> QED
    BY <1>2, <1>4, <1>5, <1>6 DEF Fetch

LEMMA TickWarm ==
    ASSUME LockInv, WarmInv, Tick
    PROVE  WarmInv'
<1>1. /\ UNCHANGED <<at, forced, lock, refresh, failed>>
      /\ refresh = "sleep" => timer > 0
      /\ lock = Free => waiters = <<>>
      /\ lock # Free => age' = age + 1
      /\ cacheLeft' = Less(cacheLeft) /\ timer' = Less(timer)
    BY DEF Tick, callVars, lockVars
<1>2. /\ cacheLeft \in Nat /\ age \in Nat /\ timer \in Nat
      /\ Refresher \in Tasks /\ at[Refresher] \in {"idle", "lock", "fetch", "backoff"}
    BY DEF Tasks, LockInv, FetchInv, TypeOK
<1>3. refresh = "call" => lock # Free
    BY <1>1, <1>2, FreeAssumption
    DEF LockInv, WaitersWait, FetchInv, HolderFetches, WarmInv, RefresherCalls
<1>4. CacheOutlastsRefresh'
    BY <1>1, <1>2, <1>3 DEF WarmInv, CacheOutlastsRefresh, Less, Margin
<1> QED
    BY <1>1, <1>4 DEF WarmInv, RefresherCalls, CacheServes

LEMMA WarmStep ==
    ASSUME OutlivesRefresh, LockInv, WarmInv, [Next]_vars
    PROVE  WarmInv'
<1>1. ASSUME NEW c \in Tasks, Call(c) PROVE WarmInv'
    BY <1>1, CallWarm DEF Call
<1>2. CASE SleepAgain
    BY <1>2 DEF SleepAgain, callVars, cacheVars, lockVars, fetchVars, WarmInv,
       RefresherCalls, CacheOutlastsRefresh, CacheServes
<1>3. CASE UNCHANGED vars
    BY <1>3 DEF vars, callVars, cacheVars, lockVars, fetchVars, refreshVars,
       WarmInv, RefresherCalls, CacheOutlastsRefresh, CacheServes
<1> QED
    BY <1>1, <1>2, <1>3, AcquireWarm, FetchWarm, RefresherWarm, TickWarm
    DEF Next, Task

\* After the start-up no session waits for a fetch of its own as long as no
\* fetch fails: if a token outlives the two margins, the refresh task's sleep
\* and the one fetch it may have to wait for.
THEOREM CacheIsKeptWarm ==
    ASSUME OutlivesRefresh
    PROVE  Spec => []CacheStaysWarm
<1>1. LockInv /\ WarmInv /\ [Next]_vars => WarmInv'
    BY WarmStep
<1>2. WarmInv => CacheStaysWarm
    BY DEF WarmInv, CacheServes, CacheStaysWarm
<1> QED
    BY WarmInit, LockInvariant, <1>1, <1>2, PTL DEF Spec
====

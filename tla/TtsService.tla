----------------------------- MODULE TtsService -----------------------------
(***************************************************************************)
(* The TTS service and the requests its clients make: tts_service/server.py*)
(* with its one-worker executor, and TtsHttpClient of                      *)
(* my_agent/plugin_tts.py with its retries.                                *)
(*                                                                         *)
(* A client that gives a request up, or tries it again, takes nothing back:*)
(* the server goes on with the handler, and the job stays in the queue.    *)
(* An answer reaches a client on the connection of the request it waits    *)
(* for, which is the last it made; that is HTTP's doing, not the program's.*)
(* The service may crash and start again; its caches go with it.           *)
(***************************************************************************)
EXTENDS Naturals, Sequences

CONSTANTS
    Clients,    \* whoever makes one request after the other
    Phrases,    \* the warm-up phrases, a set of texts
    Keys,       \* the keys of the named phrases
    Texts,      \* what clients may want synthesised
    MaxRetries  \* _MAX_RETRIES

ASSUME MaxRetriesAssumption == MaxRetries \in Nat

Select == [kind |-> "select"]
Phrase(key) == [kind |-> "phrase", key |-> key]
Tts(text) == [kind |-> "tts", text |-> text]

Requests == {Select} \cup [kind : {"phrase"}, key : Keys]
                     \cup [kind : {"tts"}, text : Texts]

VARIABLES
    phase,   \* the service: "down", "warming" or "serving"
    warm,    \* the texts in _warmup_cache, which are those of _warmup_list
    named,   \* the keys in _phrase_cache
    queue,   \* jobs of _synth_executor; the worker is at the first
    at,      \* what each client is doing
    asked,   \* ... the request it makes
    attempt  \* ... and how often it has tried it again

serviceVars == <<phase, warm, named>>
clientVars == <<at, asked, attempt>>
vars == <<serviceVars, queue, clientVars>>

\* The service is starting; nobody has asked for anything.
Init ==
    /\ phase = "warming"
    /\ warm = {}
    /\ named = {}
    /\ queue = <<>>
    /\ at = [c \in Clients |-> "idle"]
    /\ asked = [c \in Clients |-> Select]
    /\ attempt = [c \in Clients |-> 0]

Goto(c, from, to) == at[c] = from /\ at' = [at EXCEPT ![c] = to]

----------------------------------------------------------------------------
(* The service's life                                                      *)

\* _lifespan synthesises the phrases one after the other.
WarmUp ==
    /\ phase = "warming"
    /\ \/ /\ \E text \in Phrases \ warm : warm' = warm \cup {text}
          /\ UNCHANGED named
       \/ /\ warm = Phrases
          /\ \E key \in Keys \ named : named' = named \cup {key}
          /\ UNCHANGED warm
    /\ UNCHANGED <<phase, queue, clientVars>>

\* Mutant: the named phrases are synthesised while the service serves.
WarmedUp_Phrases == warm = Phrases

WarmedUp == warm = Phrases /\ named = Keys

\* "tts-service ready": the server begins to accept connections.
Serve ==
    /\ phase = "warming"
    /\ WarmedUp
    /\ phase' = "serving"
    /\ UNCHANGED <<warm, named, queue, clientVars>>

\* A crash, or a warm-up that raises: caches and jobs are gone.
Crash ==
    /\ phase # "down"
    /\ phase' = "down"
    /\ warm' = {}
    /\ named' = {}
    /\ queue' = <<>>
    /\ UNCHANGED clientVars

Restart ==
    /\ phase = "down"
    /\ phase' = "warming"
    /\ UNCHANGED <<warm, named, queue, clientVars>>

----------------------------------------------------------------------------
(* Handlers and worker                                                     *)

\* 404: an empty pool, or a phrase that is not there.
Rejected(r) ==
    \/ r.kind = "select" /\ warm = {}
    \/ r.kind = "phrase" /\ r.key \notin named

Cached(r) == r.kind = "tts" => r.text \in warm

Job(c) == [by |-> c, text |-> asked[c].text]

\* The request arrives: it is answered from a cache, rejected, or queued.
Handle(c) ==
    /\ phase = "serving"
    /\ at[c] = "send"
    /\ LET r == asked[c] IN
       IF Cached(r)
       THEN /\ at' = [at EXCEPT ![c] = IF Rejected(r) THEN "failed"
                                                      ELSE "answered"]
            /\ UNCHANGED queue
       ELSE /\ at' = [at EXCEPT ![c] = "wait"]
            /\ queue' = Append(queue, Job(c))
    /\ UNCHANGED <<serviceVars, asked, attempt>>

\* The client that asked for the first job waits for it, and not for the job of
\* a later attempt.
Awaited ==
    /\ at[Head(queue).by] = "wait"
    /\ \A i \in 2 .. Len(queue) : queue[i].by # Head(queue).by

\* Mutant: a pool of two workers, and the second job may be done before the
\* first.
WorkerDone_Two ==
    \E n \in 1 .. 2 :
        /\ n <= Len(queue)
        /\ queue' = SubSeq(queue, 1, n - 1) \o SubSeq(queue, n + 1, Len(queue))
        /\ at' = IF /\ at[queue[n].by] = "wait"
                    /\ \A i \in n + 1 .. Len(queue) : queue[i].by # queue[n].by
                 THEN [at EXCEPT ![queue[n].by] = "answered"]
                 ELSE at
        /\ UNCHANGED <<serviceVars, asked, attempt>>

\* The worker is done with a job; whoever waits for it has an answer.  If the
\* model raised ValueError it is an answer like the others, with silence in it.
WorkerDone ==
    /\ queue # <<>>
    /\ queue' = Tail(queue)
    /\ at' = IF Awaited THEN [at EXCEPT ![Head(queue).by] = "answered"] ELSE at
    /\ UNCHANGED <<serviceVars, asked, attempt>>

----------------------------------------------------------------------------
(* TtsHttpClient._request                                                  *)

Ask(c, r) ==
    /\ Goto(c, "idle", "send")
    /\ asked' = [asked EXCEPT ![c] = r]
    /\ attempt' = [attempt EXCEPT ![c] = 0]
    /\ UNCHANGED <<serviceVars, queue>>

LastAttempt(c) == attempt[c] = MaxRetries

\* ConnectError, a time-out or a 5xx: another attempt, or the last error.
TryAgain(c) ==
    /\ \/ at[c] = "send" /\ phase # "serving"
       \/ at[c] = "wait"
    /\ at' = [at EXCEPT ![c] = IF LastAttempt(c) THEN "failed" ELSE "backoff"]
    /\ UNCHANGED <<serviceVars, queue, asked, attempt>>

\* The server went away with the request: no error that is tried again.
Dropped(c) ==
    /\ \A i \in DOMAIN queue : queue[i].by # c
    /\ Goto(c, "wait", "failed")
    /\ UNCHANGED <<serviceVars, queue, asked, attempt>>

\* Mutant: attempts are not counted.
NextAttempt_Uncounted(c) == UNCHANGED attempt

NextAttempt(c) == attempt' = [attempt EXCEPT ![c] = @ + 1]

BackoffOver(c) ==
    /\ Goto(c, "backoff", "send")
    /\ NextAttempt(c)
    /\ UNCHANGED <<serviceVars, queue, asked>>

\* The caller has the audio or the exception.
Return(c) ==
    /\ at[c] \in {"answered", "failed"}
    /\ at' = [at EXCEPT ![c] = "idle"]
    /\ UNCHANGED <<serviceVars, queue, asked, attempt>>

\* The client is cancelled: it drops the connection.
Cancel(c) ==
    /\ at[c] \in {"send", "wait", "backoff"}
    /\ at' = [at EXCEPT ![c] = "idle"]
    /\ UNCHANGED <<serviceVars, queue, asked, attempt>>

----------------------------------------------------------------------------
Lifespan == WarmUp \/ Serve \/ Crash \/ Restart

Attempt(c) == Handle(c) \/ TryAgain(c) \/ Dropped(c) \/ BackoffOver(c)

Next ==
    \/ Lifespan
    \/ WorkerDone
    \/ \E c \in Clients :
          \/ \E r \in Requests : Ask(c, r)
          \/ Attempt(c)
          \/ Cancel(c)
          \/ Return(c)

Spec == Init /\ [][Next]_vars

----------------------------------------------------------------------------
(* Properties                                                              *)

\* Every variable keeps its type; a request is made at most 1 + MaxRetries
\* times.
TypeOK ==
    /\ phase \in {"down", "warming", "serving"}
    /\ warm \subseteq Phrases
    /\ named \subseteq Keys
    /\ queue \in Seq([by : Clients, text : Texts])
    /\ at \in [Clients -> {"idle", "send", "wait", "backoff", "answered",
                           "failed"}]
    /\ asked \in [Clients -> Requests]
    /\ attempt \in [Clients -> 0 .. MaxRetries]

\* A request for a phrase, by any of the three endpoints.
ForPhrase(r) == r.kind = "tts" => r.text \in Phrases

\* A phrase of the warm-up has "zero synthesis latency" (plugin_tts.py:363):
\* a handler answers at once, it neither rejects the request nor has it wait
\* behind the worker, also for a client that asked while the service crashed
\* and started again.
PhraseServed ==
    [][\A c \in Clients :
          Handle(c) /\ ForPhrase(asked[c]) /\ Phrases # {}
              => at'[c] = "answered"]_vars
====

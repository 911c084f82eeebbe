------------------------------- MODULE Speech -------------------------------
(***************************************************************************)
(* A reply of the agent on its way to the caller: the LLM's chunks pass    *)
(* digits_to_words and the sentence stream, and the TTS plugin             *)
(* (RemoteTTS of my_agent/plugin_tts.py behind the library's               *)
(* StreamAdapter) has one sentence after the other synthesised, by the     *)
(* service of TtsService, which other clients use at the same time.        *)
(***************************************************************************)
EXTENDS TtsService, SentenceSplitter, FiniteSets

CONSTANTS
    speech,  \* the client that is the TTS plugin of this call
    Replies, \* what the LLM may answer
    Others,  \* what the other clients ask for
    MinCtx,  \* stream_context_len: no shorter buffer is looked at
    MaxJobs  \* bound: jobs in the queue when another client asks

ASSUME SpeechAssumption ==
    /\ speech \in Clients
    /\ Others \subseteq Requests
    /\ Replies \subseteq Text
    /\ {MinCtx, MaxJobs} \subseteq Nat

VARIABLES
    reply,  \* what the LLM answers
    given,  \* how many characters of it have come
    stream, \* the sentence stream: its two buffers and its tokens to be read
    state,  \* of the reply: "written", "complete", "said", "failed"
    heard   \* history: the letters the caller has been played, or silence

replyVars == <<reply, given, stream, state>>
speechVars == <<vars, replyVars, heard>>

SpeechInit ==
    /\ Init
    /\ reply \in Replies
    /\ given = 0
    /\ stream = [in |-> <<>>, out |-> <<>>, tokens |-> <<>>]
    /\ state = "written"
    /\ heard = <<>>

Going == state \in {"written", "complete"}

----------------------------------------------------------------------------
(* Into the sentence stream                                                *)

Pushed(words) ==
    LET longer == [stream EXCEPT !.in = @ \o words] IN
    IF Len(longer.in) < MinCtx THEN longer ELSE Drain[longer]

\* A chunk, of any size, passes the transforms; push_text.
PushText ==
    /\ state = "written"
    /\ \E last \in given + 1 .. Len(reply) :
          /\ given' = last
          /\ stream' = Pushed(Spell[Within(reply, given + 1, last)])
    /\ UNCHANGED <<vars, reply, state, heard>>

\* The LLM is done: end_input flushes.
EndInput ==
    /\ state = "written"
    /\ given = Len(reply)
    /\ state' = "complete"
    /\ stream' = Flushed(stream)
    /\ UNCHANGED <<vars, reply, given, heard>>

----------------------------------------------------------------------------
(* Out of it: _RemoteChunkedStream._run for one token after the other      *)

Token == Head(stream.tokens)
NextToken == stream' = [stream EXCEPT !.tokens = Tail(@)]

\* Stripped, and asked for.
Speak ==
    /\ Going
    /\ stream.tokens # <<>>
    /\ Ask(speech, Tts(Strip(Token)))
    /\ NextToken
    /\ UNCHANGED <<reply, given, state, heard>>

Silence == "silence"
Silent(letters) == [i \in DOMAIN letters |-> Silence]

\* The audio is pushed: the text, or 300 ms of silence in its place if the model
\* raised ValueError, which it does for texts the program does not know.
Played ==
    /\ at[speech] = "answered"
    /\ Return(speech)
    /\ LET letters == Letters[asked[speech].text] IN
       heard' \in {heard \o letters, heard \o Silent(letters)}
    /\ UNCHANGED replyVars

\* The exception ends the reply.
ReplyFails ==
    /\ at[speech] = "failed"
    /\ Return(speech)
    /\ state' = "failed"
    /\ UNCHANGED <<reply, given, stream, heard>>

\* Every token has been read, and there will be no other.
Said ==
    /\ state = "complete"
    /\ stream.tokens = <<>>
    /\ at[speech] = "idle"
    /\ state' = "said"
    /\ UNCHANGED <<vars, reply, given, stream, heard>>

----------------------------------------------------------------------------
OtherClient(c) ==
    \/ Len(queue) <= MaxJobs /\ \E r \in Others : Ask(c, r)
    \/ Attempt(c)
    \/ Cancel(c)
    \/ Return(c)

Service == Lifespan \/ WorkerDone

Speaking == Speak \/ Played \/ ReplyFails \/ Said

SpeechNext ==
    \/ PushText
    \/ EndInput
    \/ Speaking
    \/ /\ \/ Service
          \/ Attempt(speech)
          \/ \E c \in Clients \ {speech} : OtherClient(c)
       /\ UNCHANGED <<replyVars, heard>>

\* The event loop runs the plugin's task; its request is as TtsService has it.
SpeechSpec ==
    /\ SpeechInit /\ [][SpeechNext]_speechVars
    /\ WF_speechVars(Speaking)
    /\ WF_speechVars(Attempt(speech) /\ UNCHANGED <<replyVars, heard>>)

----------------------------------------------------------------------------
(* Properties                                                              *)

\* The caller hears what the LLM wrote, letter by letter and in order, however
\* it came in chunks, was split, merged and transliterated in parts; and all of
\* it when the reply has been said.  Sentences the model refuses are silent, and
\* nothing else is: no letter goes missing between them.
SaidInOrder ==
    LET wanted == Letters[Spell[reply]] IN
    /\ Len(heard) <= Len(wanted)
    /\ \A i \in DOMAIN heard : heard[i] \in {wanted[i], Silence}
    /\ state = "said" => Len(heard) = Len(wanted)

\* Jobs of the plugin in the worker's queue, given up or not.
Queued == Cardinality({i \in DOMAIN queue : queue[i].by = speech})

\* The retries of a reply do not pile up behind the one worker ("serialises
\* calls", server.py:40): when a sentence is answered all its earlier attempts
\* have been worked off, so none delays the next sentence, and a reply leaves
\* at most the attempts of one request behind, however long it is.
NoPileUp ==
    /\ at[speech] = "answered" => Queued = 0
    /\ Queued <= 1 + MaxRetries

\* The parts of any piece of the reply are where _split_stream says they are,
\* one after the other, with blanks only between them: its approximation for a
\* part it did not find, which would cut the buffer anywhere, is dead code.
\* (The reply stays what it is: it is enough to look before the service is up.)
PlacesAreExact ==
    given = 0 /\ warm = {} =>
        \A from, to \in DOMAIN reply :
            PlacesExact(Spell[Within(reply, from, to)])

\* Once the LLM is done the reply comes to its end, said or given up, whatever
\* the service does.
ReplyEnds == state = "complete" ~> state \in {"said", "failed"}
====

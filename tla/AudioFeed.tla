----------------------------- MODULE AudioFeed -----------------------------
(***************************************************************************)
(* What the recognition of a turn may count on, however the audio tasks of *)
(* my_agent/plugin_stt.py interleave and whenever the connection breaks:   *)
(* audio gets lost, but what comes is of this turn, in order and once,     *)
(* apart from a single stray frame.                                        *)
(***************************************************************************)
EXTENDS Naturals, Sequences

VARIABLES
    count,  \* frames captured so far; a frame is its number
    before, \* frames captured before the turn
    fed     \* the frames the service has got since the last "start", on the
            \* connection there is

\* Every frame but one is of this turn, and later than those that came first.
OneStray(frames, limit) ==
    \E stray \in {0} \cup {frames[i] : i \in DOMAIN frames} :
        /\ \A i \in DOMAIN frames : frames[i] = stray \/ frames[i] > limit
        /\ \A i, j \in DOMAIN frames :
              i < j => \/ frames[i] = stray
                       \/ frames[j] = stray
                       \/ frames[i] < frames[j]

Init == count = 0 /\ before = 0 /\ fed = <<>>

Capture ==
    /\ count' = count + 1
    /\ UNCHANGED <<before, fed>>

\* A "start", or the end of a connection: the service forgets what it was fed.
Begin ==
    /\ fed' = <<>>
    /\ before' \in before .. count
    /\ UNCHANGED count

Hear(frame) ==
    /\ \A i \in DOMAIN fed : fed[i] # frame
    /\ fed' = Append(fed, frame)
    /\ OneStray(fed', before)
    /\ UNCHANGED <<count, before>>

Next ==
    \/ Capture
    \/ Begin
    \/ \E frame \in 1 .. count : Hear(frame)

Spec == Init /\ [][Next]_<<count, before, fed>>
====

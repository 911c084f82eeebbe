-------------------------- MODULE MCSttConnection --------------------------
(***************************************************************************)
(* SttConnection against any agent: it sends commands in any order, reads  *)
(* when it likes, and its connection may break at any time.                *)
(***************************************************************************)
EXTENDS SttConnection

CONSTANT MaxCommands    \* bound: commands under way

AgentSends(cmd) ==
    /\ link
    /\ Len(toService) < MaxCommands
    /\ Len(toAgent) <= MaxSays
    /\ toService' = Append(toService, cmd)
    /\ UNCHANGED <<main, recvVars, sessionVars, link, toAgent>>

AgentReads ==
    /\ toAgent # <<>>
    /\ toAgent' = Tail(toAgent)
    /\ UNCHANGED <<main, recvVars, sessionVars, link, toService>>

LinkBreaks ==
    /\ link
    /\ link' = FALSE
    /\ toAgent' = <<>>
    /\ \E n \in 0 .. Len(toService) : toService' = SubSeq(toService, 1, n)
    /\ UNCHANGED <<main, recvVars, sessionVars>>

Next ==
    \/ Serve
    \/ StartTimeout
    \/ \E cmd \in {Start, Stop} : AgentSends(cmd)
    \/ AgentReads
    \/ LinkBreaks

Spec == Init /\ [][Next]_vars /\ Fairness
====

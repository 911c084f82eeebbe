--------------------------- MODULE MCCallSession ---------------------------
(***************************************************************************)
(* CallSession for TLC.  Each cfg opens a part of the environment: the     *)
(* safety run has a little of everything, the silence runs have no         *)
(* transcripts (Texts is empty) and no counts sent by the service.         *)
(***************************************************************************)
EXTENDS CallSession, TLC

\* Handler tasks, and texts, are interchangeable.  The runs with temporal
\* properties do not use it.
Symmetry == Permutations(Tasks) \cup Permutations(Texts)

====

------------------------------ MODULE MCSpeech ------------------------------
(***************************************************************************)
(* Speech for TLC: the replies, which have every kind of cut, and none.    *)
(***************************************************************************)
EXTENDS Speech

Chars(string) == [i \in 1 .. Len(string) |-> SubSeq(string, i, i)]

\* A word, what comes between two, and the rest; and some others: spaces
\* where the window has none or many, no letter at all, digits, newlines.
Mixed == {first \o between \o rest :
             first \in {"A", "Ash"},
             between \in {". ", ": ", "//", ":"},
             rest \in {"A.", "sh 1A A"}}

MCReplies == {Chars(string) : string \in Mixed \cup
    {"AshAAshAA s", "sh sh sh sh sh", ". 1/ :", "A.  A///A. .", "A  h: :"}}

MCPhrases == {Chars("A.")}
MCTexts == Seq(Cyrillic \cup Latin \cup Digits \cup Stops \cup Breaks \cup Blanks)
MCOthers == {Tts(Chars("A")), Phrase("bye"), Select}
====

-------------------------- MODULE SentenceSplitter --------------------------
(***************************************************************************)
(* The text functions between the LLM and the TTS model: the sentence      *)
(* splitter of my_agent/sentence_splitter.py, the digit spelling of        *)
(* my_agent/plugin_tts_transforms.py, and the sanitising of                *)
(* tts_service/tts_engine.py and translit.py.                              *)
(*                                                                         *)
(* A text is a sequence of characters.  One character stands for each      *)
(* class the code tells apart; "s" and "h" are Latin, with the one digraph *)
(* "sh", and upper-case characters stand for Cyrillic letters.             *)
(***************************************************************************)
EXTENDS Naturals, SequencesExt

CONSTANTS
    WordLen,  \* a break splits after a word of this length (6 in the code)
    SoftMax,  \* a part that is not longer is not split by force (90)
    CutFrom,  \* ... and where the space to split at is looked for (60)
    CutTo,    \* ... (100)
    MinLen    \* min_sentence_len: no shorter token, but for the last (15)

ASSUME SplitterAssumption ==
    /\ {WordLen, SoftMax, CutFrom, CutTo, MinLen} \subseteq Nat
    /\ 0 < CutFrom /\ CutFrom < CutTo

Stops == {"."}        \* . ! ? and the ellipsis
Breaks == {":"}       \* : ; and the dash
Blanks == {" ", "/"}  \* a space and a newline
Digits == {"1"}
Latin == {"s", "h"}
Cyrillic == {"A", "O", "N", "S", "H", "W"}
WordChars == Digits \cup Latin \cup Cyrillic

Char == Stops \cup Breaks \cup Blanks \cup WordChars
Text == Seq(Char)

\* A slice, which may reach beyond the end.
Within(text, from, to) ==
    SubSeq(text, from, IF to < Len(text) THEN to ELSE Len(text))

\* str.strip
Strip(text) ==
    LET kept == {i \in DOMAIN text : text[i] \notin Blanks} IN
    IF kept = {} THEN <<>> ELSE Within(text, Min(kept), Max(kept))

----------------------------------------------------------------------------
(* split_sentences                                                         *)

\* Where _SEP matches: a stop before a blank or at the end, and two newlines.
Separations(text) ==
    {i \in DOMAIN text :
        \/ /\ text[i] \in Stops
           /\ i < Len(text) => text[i + 1] \in Blanks
        \/ Within(text, i + 1, i + 2) = <<"/", "/">>}

\* _has_colon_or_semicolon_break: after a break that ends a long word.
BreakCuts(part) ==
    {i \in WordLen + 1 .. Len(part) - 1 :
        /\ part[i] \in Breaks
        /\ part[i + 1] \in Blanks
        /\ \A j \in i - WordLen .. i - 1 : part[j] \in WordChars}

\* Mutant: with no space to split at, the part is split at the limit.
ForcedCut_Limit(part) ==
    LET inside == {i \in CutFrom + 1 .. CutTo :
                      i < Len(part) /\ part[i] = " "}
    IN  IF Len(part) <= SoftMax THEN Len(part)
        ELSE IF inside # {} THEN Max(inside) ELSE SoftMax

\* _hard_split_hint: at the last space of a window, else at the next one; at
\* the end if there is none.
ForcedCut(part) ==
    LET spaces == {i \in CutFrom + 1 .. Len(part) : part[i] = " "}
        inside == {i \in spaces : i <= CutTo}
    IN  IF Len(part) <= SoftMax \/ spaces = {} THEN Len(part)
        ELSE IF inside # {} THEN Max(inside) ELSE Min(spaces)

\* The breaks are used up before a part is split by force.
Cut(part) ==
    IF BreakCuts(part) # {} THEN Min(BreakCuts(part)) ELSE ForcedCut(part)

\* _post_split_parts, for one part
Chop[part \in Text] ==
    IF part = <<>> THEN <<>>
    ELSE <<Strip(Within(part, 1, Cut(part)))>>
         \o Chop[Strip(Within(part, Cut(part) + 1, Len(part)))]

\* What _SEP.split has as its first piece ends here.
FirstEnd(text) == Min(Separations(text) \cup {Len(text)})

\* split_sentences: piece by piece, stripped, chopped if it is not blank.
Parts[text \in Text] ==
    IF text = <<>> THEN <<>>
    ELSE Chop[Strip(Within(text, 1, FirstEnd(text)))]
         \o Parts[Within(text, FirstEnd(text) + 1, Len(text))]

----------------------------------------------------------------------------
(* _split_stream: the parts with their places in the text                  *)

\* Mutant: the place to look from is forgotten.
Find_FromStart(text, part, from) ==
    LET found == {i \in 1 .. Len(text) - Len(part) + 1 :
                     Within(text, i, i + Len(part) - 1) = part}
    IN  IF found = {} THEN 0 ELSE Min(found)

\* str.find from a place on; 0 if it is not there.
Find(text, part, from) ==
    LET found == {i \in from .. Len(text) - Len(part) + 1 :
                     Within(text, i, i + Len(part) - 1) = part}
    IN  IF found = {} THEN 0 ELSE Min(found)

\* Where the k-th part ends, with the approximation for one not found.
PartEnds(text) ==
    LET parts == Parts[text]
        end[k \in 0 .. Len(parts)] ==
            IF k = 0 THEN 0
            ELSE LET place == Find(text, parts[k], end[k - 1] + 1) IN
                 IF place = 0 THEN end[k - 1] + Len(parts[k])
                              ELSE place + Len(parts[k]) - 1
    IN  end

\* After blanks only, the text from one place to another ends with the part.
LiesIn(part, text, from, to) ==
    /\ part # <<>>
    /\ Within(text, to - Len(part) + 1, to) = part
    /\ Strip(Within(text, from + 1, to - Len(part))) = <<>>

\* Every part is where it is said to be, and only blanks are between them.
PlacesExact(text) ==
    LET parts == Parts[text]
        end == PartEnds(text)
    IN  /\ \A k \in DOMAIN parts : LiesIn(parts[k], text, end[k - 1], end[k])
        /\ Strip(Within(text, end[Len(parts)] + 1, Len(text))) = <<>>

----------------------------------------------------------------------------
(* BufferedTokenStream, the library's                                      *)

\* A token is added to what waits to be long enough.
Joined(out, token) == IF out = <<>> THEN token ELSE out \o <<" ">> \o token

Join[tokens \in Seq(Text)] ==
    IF tokens = <<>> THEN <<>> ELSE Joined(Join[Front(tokens)], Last(tokens))

Buffers == [in : Text, out : Text, tokens : Seq(Text)]

\* The first part leaves the buffer.
Emitted(buf) ==
    LET out == Joined(buf.out, Parts[buf.in][1])
        long == Len(out) >= MinLen
    IN  [in |-> Within(buf.in, PartEnds(buf.in)[1] + 1, Len(buf.in)),
         out |-> IF long THEN <<>> ELSE out,
         tokens |-> IF long THEN Append(buf.tokens, out) ELSE buf.tokens]

\* push_text's loop: all parts but the last leave the buffer.
Drain[buf \in Buffers] ==
    IF Len(Parts[buf.in]) <= 1 THEN buf ELSE Drain[Emitted(buf)]

\* flush: whatever is left is one token.
Flushed(buf) ==
    LET out == Join[<<buf.out>> \o Parts[buf.in]]
    IN  [in |-> <<>>, out |-> <<>>,
         tokens |-> IF out = <<>> THEN buf.tokens ELSE Append(buf.tokens, out)]

----------------------------------------------------------------------------
(* digits_to_words, and _sanitize_tts_text with latin_to_cyrillic          *)

\* A digit is a word, apart from the word of a digit that follows.
Word(chunk) ==
    IF chunk[1] \notin Digits THEN <<chunk[1]>>
    ELSE IF Len(chunk) > 1 /\ chunk[2] \in Digits THEN <<"O", "N", " ">>
    ELSE <<"O", "N">>

Spell[chunk \in Text] ==
    IF chunk = <<>> THEN <<>> ELSE Word(chunk) \o Spell[Tail(chunk)]

Single(char) == CASE char = "s" -> "S" [] char = "h" -> "H" [] OTHER -> char

\* The digraph is looked for before the single letters.
Digraph(text) == Len(text) > 1 /\ text[1] = "s" /\ text[2] = "h"

\* latin_to_cyrillic: the first letter, and what is left to be read.
Transliterated(text) == IF Digraph(text) THEN "W" ELSE Single(text[1])
Untaken(text) == IF Digraph(text) THEN Tail(Tail(text)) ELSE Tail(text)

\* The letter the model is given for it; blanks and punctuation are no sound.
Sound(text) ==
    IF Transliterated(text) \in Cyrillic THEN <<Transliterated(text)>> ELSE <<>>

\* All of them.  A text without any is silence.
Letters[text \in Text] ==
    IF text = <<>> THEN <<>> ELSE Sound(text) \o Letters[Untaken(text)]
====

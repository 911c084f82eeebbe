---------------------------- MODULE SpeechProofs ----------------------------
(***************************************************************************)
(* Proofs about Speech and TtsService, for any clients, phrases, replies   *)
(* and bounds of the splitter, with crashes and retries at any time.       *)
(*                                                                         *)
(* The text functions are recursive.  No theorem of the libraries on       *)
(* recursion can be used for them, since these take operators as           *)
(* parameters: RecursiveFunction is one for functions, and SizeInduction   *)
(* the induction that goes with it.  With them, the functions are what     *)
(* their definitions say, for a text of any length.                        *)
(***************************************************************************)
EXTENDS Speech, WellFoundedInduction, NaturalsInduction, SequenceTheorems,
        FiniteSetTheorems, TLAPS

----------------------------------------------------------------------------
(* Recursive functions, and induction                                      *)

\* A set of numbers that is not empty has a least one.
LEMMA Least ==
    ASSUME NEW T, T \subseteq Nat, T # {}
    PROVE  \E x \in T : \A y \in T : x <= y
<1> DEFINE R == OpToRel(<, Nat)
<1>1. IsWellFoundedOn(R, Nat)
    BY NatLessThanWellFounded, Zenon
<1>2. \A p \in Nat \X Nat : p \in R <=> p[1] < p[2]
    BY DEF OpToRel
<1> HIDE DEF R
<1>3. PICK x \in T : \A y \in T : ~(<<y, x>> \in R)
    BY <1>1, WFMin
<1>4. \A y \in T : ~(y < x)
    BY <1>2, <1>3
<1> QED
    BY <1>4

\* What holds of a member if it holds of all smaller ones holds of all.
LEMMA SizeInduction ==
    ASSUME NEW S, NEW size \in [S -> Nat], NEW T,
           \A x \in S : (\A y \in S : size[y] < size[x] => y \in T) => x \in T
    PROVE  S \subseteq T
<1> DEFINE Bad == {size[x] : x \in S \ T}
<1> SUFFICES ASSUME S \ T # {} PROVE FALSE
    OBVIOUS
<1>1. Bad \subseteq Nat /\ Bad # {}
    OBVIOUS
<1>2. PICK n \in Bad : \A m \in Bad : n <= m
    BY <1>1, Least, Zenon
<1>3. PICK x \in S \ T : n = size[x]
    OBVIOUS
<1>4. PICK y \in S : size[y] < size[x] /\ y \notin T
    BY <1>3
<1>5. size[y] \in Bad /\ size[x] \in Nat /\ size[y] \in Nat
    BY <1>4
<1>6. size[x] <= size[y]
    BY <1>2, <1>3, <1>5
<1> QED
    BY <1>4, <1>5, <1>6

\* A recursion over S with one call, on a smaller argument: what is Done is
\* solved by base, everything else by comb from what next of it gives.
Recursion(S, V, size, next, base, comb, Done) ==
    /\ size \in [S -> Nat]
    /\ next \in [S -> S]
    /\ base \in [S -> V]
    /\ comb \in [S \X V -> V]
    /\ \A x \in S : x \notin Done => size[next[x]] < size[x]

\* f does what such a recursion says.
Solves(f, S, V, next, base, comb, Done) ==
    /\ f = [x \in S |-> f[x]]
    /\ \A x \in S :
          /\ x \in Done => f[x] = base[x]
          /\ x \notin Done /\ f[next[x]] \in V => f[x] = comb[<<x, f[next[x]]>>]

\* There is a function with that recursion, and there is no other kind.
LEMMA RecursiveFunction ==
    ASSUME NEW S, NEW V, NEW size, NEW next, NEW base, NEW comb, NEW Done,
           Recursion(S, V, size, next, base, comb, Done)
    PROVE  /\ \E f : f \in [S -> V] /\ Solves(f, S, V, next, base, comb, Done)
           /\ \A f : Solves(f, S, V, next, base, comb, Done) => f \in [S -> V]
<1> USE DEF Recursion
<1> DEFINE Below(n) == {x \in S : size[x] < n}
           Answers(g, n) ==
               /\ g \in [Below(n) -> V]
               /\ \A x \in Below(n) :
                     g[x] = IF x \in Done THEN base[x]
                            ELSE comb[<<x, g[next[x]]>>]
           f == [x \in S |-> (CHOOSE g : Answers(g, size[x] + 1))[x]]
<1>1. ASSUME NEW n \in Nat, NEW m \in Nat, NEW g, NEW h,
             Answers(g, n), Answers(h, m)
      PROVE  \A x \in S : size[x] < n /\ size[x] < m => g[x] = h[x]
  <2> DEFINE T == {x \in S : size[x] < n /\ size[x] < m => g[x] = h[x]}
  <2>1. ASSUME NEW x \in S, \A y \in S : size[y] < size[x] => y \in T,
               size[x] < n, size[x] < m
        PROVE  g[x] = h[x]
    <3>1. x \in Below(n) /\ x \in Below(m)
        BY <2>1
    <3>2. CASE x \in Done
        BY <1>1, <3>1, <3>2
    <3>3. CASE x \notin Done
      <4>1. next[x] \in S /\ size[next[x]] < size[x] /\ size[next[x]] \in Nat
            /\ size[x] \in Nat
          BY <3>3
      <4>2. g[next[x]] = h[next[x]]
          BY <2>1, <4>1
      <4> QED
          BY <1>1, <3>1, <3>3, <4>2
    <3> QED
        BY <3>2, <3>3
  <2>2. \A x \in S : (\A y \in S : size[y] < size[x] => y \in T) => x \in T
      BY <2>1
  <2> HIDE DEF T
  <2>3. S \subseteq T
      BY <2>2, SizeInduction, ZenonT(60)
  <2> QED
      BY <2>3 DEF T
<1>2. \A n \in Nat : \E g : Answers(g, n)
  <2> DEFINE N == {n \in Nat : \E g : Answers(g, n)}
             id == [n \in Nat |-> n]
  <2>1. ASSUME NEW n \in Nat, \A m \in Nat : id[m] < id[n] => m \in N
        PROVE  n \in N
    <3>1. CASE n = 0
      <4>1. Below(0) = {}
          OBVIOUS
      <4> DEFINE g == [x \in {} |-> base[x]]
      <4>2. g \in [Below(0) -> V]
          BY <4>1
      <4>3. Answers(g, 0)
          BY <4>1, <4>2
      <4> QED
          BY <3>1, <4>3
    <3>2. CASE n # 0
      <4>0. n - 1 \in Nat /\ id[n - 1] < id[n]
          BY <3>2
      <4>1. n - 1 \in Nat /\ n - 1 \in N
          BY <2>1, <4>0
      <4>2. PICK h : Answers(h, n - 1)
          BY <4>1
      <4> DEFINE g == [x \in Below(n) |-> IF x \in Done THEN base[x]
                                          ELSE comb[<<x, h[next[x]]>>]]
      <4>3. \A x \in Below(n) : x \notin Done => next[x] \in Below(n - 1)
          OBVIOUS
      <4>4. g \in [Below(n) -> V]
        <5>1. ASSUME NEW x \in Below(n) PROVE g[x] \in V
          <6>1. CASE x \in Done
              BY <6>1
          <6>2. CASE x \notin Done
            <7>1. h[next[x]] \in V
                BY <4>2, <4>3, <6>2
            <7> QED
                BY <6>2, <7>1
          <6> QED
              BY <6>1, <6>2
        <5> QED
            BY <5>1
      <4>5. \A x \in Below(n - 1) : g[x] = h[x]
        <5>1. \A x \in Below(n - 1) : x \in Below(n)
            BY <4>1
        <5> QED
            BY <4>2, <5>1
      <4>6. Answers(g, n)
          BY <4>3, <4>4, <4>5
      <4> QED
          BY <4>6
    <3> QED
        BY <3>1, <3>2
  <2>2. id \in [Nat -> Nat]
      OBVIOUS
  <2>3. \A n \in Nat : (\A m \in Nat : id[m] < id[n] => m \in N) => n \in N
      BY <2>1
  <2> HIDE DEF N, id
  <2>4. Nat \subseteq N
      BY <2>2, <2>3, SizeInduction, ZenonT(60)
  <2> QED
      BY <2>4 DEF N
<1> DEFINE G(x) == CHOOSE g : Answers(g, size[x] + 1)
<1>3. \A x \in S : Answers(G(x), size[x] + 1)
  <2> TAKE x \in S
  <2>1. size[x] + 1 \in Nat
      OBVIOUS
  <2>2. \E g : Answers(g, size[x] + 1)
      BY <1>2, <2>1
  <2> HIDE DEF Answers
  <2> QED
      BY <2>2, Zenon
<1>4. \A x \in S : f[x] = G(x)[x]
    OBVIOUS
<1> HIDE DEF G, f
<1>5. f \in [S -> V]
  <2>1. ASSUME NEW x \in S PROVE f[x] \in V
    <3>1. x \in Below(size[x] + 1)
        OBVIOUS
    <3>2. G(x) \in [Below(size[x] + 1) -> V]
        BY <1>3
    <3> QED
        BY <1>4, <3>1, <3>2
  <2> QED
      BY <2>1 DEF f
<1>6. ASSUME NEW x \in S
      PROVE  f[x] = IF x \in Done THEN base[x] ELSE comb[<<x, f[next[x]]>>]
  <2>1. x \in Below(size[x] + 1)
      OBVIOUS
  <2>2. f[x] = IF x \in Done THEN base[x] ELSE comb[<<x, G(x)[next[x]]>>]
      BY <1>3, <1>4, <2>1
  <2>3. x \notin Done => G(x)[next[x]] = f[next[x]]
    <3> SUFFICES ASSUME x \notin Done PROVE G(x)[next[x]] = G(next[x])[next[x]]
        BY <1>4
    <3>1. /\ next[x] \in S /\ size[next[x]] \in Nat /\ size[x] \in Nat
          /\ size[next[x]] < size[x]
        OBVIOUS
    <3> HIDE DEF Answers
    <3> QED
        BY <1>1, <1>3, <3>1
  <2> QED
      BY <2>2, <2>3
<1>7. ASSUME NEW h, Solves(h, S, V, next, base, comb, Done)
      PROVE  h \in [S -> V]
  <2> DEFINE T == {x \in S : h[x] \in V}
  <2>1. ASSUME NEW x \in S, \A y \in S : size[y] < size[x] => y \in T
        PROVE  x \in T
    <3>1. CASE x \in Done
        BY <1>7, <3>1 DEF Solves
    <3>2. CASE x \notin Done
      <4>1. next[x] \in S /\ h[next[x]] \in V
          BY <2>1, <3>2
      <4>2. h[x] = comb[<<x, h[next[x]]>>]
          BY <1>7, <3>2, <4>1, Zenon DEF Solves
      <4> QED
          BY <4>1, <4>2
    <3> QED
        BY <3>1, <3>2
  <2> HIDE DEF T
  <2>2. S \subseteq T
      BY <2>1, SizeInduction, ZenonT(60)
  <2> QED
      BY <1>7, <2>2 DEF T, Solves
<1>8. Solves(f, S, V, next, base, comb, Done)
    BY <1>5, <1>6 DEF Solves
<1> QED
    BY <1>5, <1>7, <1>8

\* The same for sequences that are put together piece by piece.
Pieces(S, A, size, next, first, Done) ==
    /\ size \in [S -> Nat]
    /\ next \in [S -> S]
    /\ first \in [S -> Seq(A)]
    /\ \A x \in S : x \notin Done => size[next[x]] < size[x]

\* f is put together that way.
PieceByPiece(f, S, next, first, Done) ==
    f = [x \in S |-> IF x \in Done THEN <<>> ELSE first[x] \o f[next[x]]]

\* There is such a function, and it has sequences as its values.
LEMMA RecursiveSequence ==
    ASSUME NEW S, NEW A, NEW size, NEW next, NEW first, NEW Done,
           Pieces(S, A, size, next, first, Done)
    PROVE  /\ \E f : PieceByPiece(f, S, next, first, Done)
           /\ \A f : PieceByPiece(f, S, next, first, Done) => f \in [S -> Seq(A)]
<1> USE DEF Pieces
<1> DEFINE V == Seq(A)
           base == [x \in S |-> <<>>]
           comb == [p \in S \X V |-> first[p[1]] \o p[2]]
<1>1. /\ \A x \in S : base[x] = <<>> /\ next[x] \in S
      /\ \A x \in S, v \in V : comb[<<x, v>>] = first[x] \o v
    OBVIOUS
<1>2. Recursion(S, V, size, next, base, comb, Done)
  <2>1. base \in [S -> V]
      OBVIOUS
  <2>2. comb \in [S \X V -> V]
      OBVIOUS
  <2> HIDE DEF base, comb, V
  <2> QED
      BY <2>1, <2>2 DEF Recursion
<1> HIDE DEF base, comb, V
<1>3. ASSUME NEW f, PieceByPiece(f, S, next, first, Done)
      PROVE  Solves(f, S, V, next, base, comb, Done)
  <2>1. f = [x \in S |-> f[x]]
      BY <1>3 DEF PieceByPiece
  <2>2. ASSUME NEW x \in S
        PROVE  /\ x \in Done => f[x] = base[x]
               /\ x \notin Done /\ f[next[x]] \in V => f[x] = comb[<<x, f[next[x]]>>]
    <3>1. f[x] = IF x \in Done THEN <<>> ELSE first[x] \o f[next[x]]
        BY <1>3 DEF PieceByPiece
    <3> QED
        BY <1>1, <3>1
  <2> QED
      BY <2>1, <2>2, Zenon DEF Solves
<1>4. ASSUME NEW f, f \in [S -> V], Solves(f, S, V, next, base, comb, Done)
      PROVE  PieceByPiece(f, S, next, first, Done)
  <2>1. ASSUME NEW x \in S
        PROVE  f[x] = IF x \in Done THEN <<>> ELSE first[x] \o f[next[x]]
    <3>1. next[x] \in S /\ f[next[x]] \in V
        BY <1>1, <1>4
    <3>2. /\ x \in Done => f[x] = base[x]
          /\ x \notin Done => f[x] = comb[<<x, f[next[x]]>>]
        BY <1>4, <3>1, Zenon DEF Solves
    <3> QED
        BY <1>1, <3>1, <3>2
  <2>2. f = [x \in S |-> f[x]]
      BY <1>4
  <2> QED
      BY <2>1, <2>2 DEF PieceByPiece
<1>5. PICK f : f \in [S -> V] /\ Solves(f, S, V, next, base, comb, Done)
    BY <1>2, RecursiveFunction, Zenon
<1>6. \A g : PieceByPiece(g, S, next, first, Done) => g \in [S -> V]
    BY <1>2, <1>3, RecursiveFunction, Zenon
<1> QED
    BY <1>4, <1>5, <1>6, Zenon DEF V

----------------------------------------------------------------------------
(* Slices of a text, and tiles of it                                       *)

\* What is in a text after its first a characters, up to the b-th.
Slice(text, a, b) == SubSeq(text, a + 1, b)

\* The members of a slice.
LEMMA SliceFacts ==
    ASSUME NEW S, NEW text \in Seq(S), NEW a \in Nat, NEW b \in a .. Len(text)
    PROVE  /\ Slice(text, a, b) \in Seq(S)
           /\ Len(Slice(text, a, b)) = b - a
           /\ \A i \in 1 .. b - a : Slice(text, a, b)[i] = text[a + i]
<1> DEFINE slice == SubSeq(text, a + 1, b)
<1>1. slice \in Seq(S) /\ Len(slice) = b - a
    OBVIOUS
<1>2. \A i \in 1 .. b - a : slice[i] = text[a + i]
    OBVIOUS
<1> QED
    BY <1>1, <1>2 DEF Slice

\* A slice of a slice is a slice.
LEMMA SliceOfSlice ==
    ASSUME NEW S, NEW text \in Seq(S), NEW a \in Nat, NEW b \in a .. Len(text),
           NEW c \in Nat, NEW d \in c .. b - a
    PROVE  Slice(Slice(text, a, b), c, d) = Slice(text, a + c, a + d)
<1> DEFINE s == Slice(text, a, b)
           u == Slice(s, c, d)
           v == Slice(text, a + c, a + d)
<1>1. /\ s \in Seq(S) /\ Len(s) = b - a
      /\ \A i \in 1 .. b - a : s[i] = text[a + i]
    BY SliceFacts
<1>2. a + c \in Nat /\ a + d \in a + c .. Len(text) /\ d \in c .. Len(s)
    BY <1>1
<1> HIDE DEF s
<1>3. u \in Seq(S) /\ Len(u) = d - c /\ \A i \in 1 .. d - c : u[i] = s[c + i]
    BY <1>1, <1>2, SliceFacts, ZenonT(60)
<1>4. /\ v \in Seq(S) /\ Len(v) = (a + d) - (a + c)
      /\ \A i \in 1 .. (a + d) - (a + c) : v[i] = text[a + c + i]
    BY <1>2, SliceFacts, ZenonT(60)
<1> HIDE DEF u, v
<1>5. Len(u) = Len(v)
    BY <1>3, <1>4
<1>7. ASSUME NEW i \in 1 .. Len(u) PROVE u[i] = v[i]
  <2>1. i \in 1 .. d - c /\ c + i \in 1 .. b - a /\ i \in 1 .. (a + d) - (a + c)
      BY <1>3
  <2>2. u[i] = text[a + (c + i)] /\ v[i] = text[a + c + i]
      BY <1>1, <1>3, <1>4, <2>1
  <2> QED
      BY <2>2
<1>6. u = v
    BY <1>3, <1>4, <1>5, <1>7, SeqEqual
<1> QED
    BY <1>6 DEF u, v, s

\* Two slices that meet are one.
LEMMA SliceJoin ==
    ASSUME NEW S, NEW text \in Seq(S), NEW a \in Nat, NEW c \in a .. Len(text),
           NEW b \in a .. c
    PROVE  Slice(text, a, b) \o Slice(text, b, c) = Slice(text, a, c)
<1>1. /\ a + 1 \in 1 .. Len(text) + 1
      /\ b \in a + 1 - 1 .. Len(text)
      /\ c \in b .. Len(text)
    OBVIOUS
<1> QED
    BY <1>1, ConcatAdjacentSubSeq DEF Slice

\* All of it.
LEMMA SliceAll ==
    ASSUME NEW S, NEW text \in Seq(S)
    PROVE  Slice(text, 0, Len(text)) = text
  BY SubSeqFull DEF Slice

\* Nothing of it.
LEMMA SliceNone ==
    ASSUME NEW text, NEW a \in Nat
    PROVE  Slice(text, a, a) = <<>>
<1>1. a + 1 \in Int /\ a \in Int /\ a < a + 1
    OBVIOUS
<1> QED
    BY <1>1, SubSeqEmpty, Zenon DEF Slice

\* What was put together can be taken apart.
LEMMA SliceOfConcat ==
    ASSUME NEW S, NEW s \in Seq(S), NEW t \in Seq(S)
    PROVE  /\ Slice(s \o t, 0, Len(s)) = s
           /\ Slice(s \o t, Len(s), Len(s) + Len(t)) = t
<1> DEFINE u == s \o t
<1>1. /\ u \in Seq(S) /\ Len(u) = Len(s) + Len(t)
      /\ \A i \in 1 .. Len(s) + Len(t) : u[i] = IF i <= Len(s) THEN s[i] ELSE t[i - Len(s)]
      /\ Len(s) \in Nat /\ Len(t) \in Nat
    BY ConcatProperties
<1> HIDE DEF u
<1>2. /\ Slice(u, 0, Len(s)) \in Seq(S) /\ Len(Slice(u, 0, Len(s))) = Len(s) - 0
      /\ \A i \in 1 .. Len(s) - 0 : Slice(u, 0, Len(s))[i] = u[0 + i]
  <2>1. 0 \in Nat /\ Len(s) \in 0 .. Len(u)
      BY <1>1
  <2> QED
      BY <1>1, <2>1, SliceFacts, ZenonT(60)
<1>3. /\ Slice(u, Len(s), Len(u)) \in Seq(S) /\ Len(Slice(u, Len(s), Len(u))) = Len(u) - Len(s)
      /\ \A i \in 1 .. Len(u) - Len(s) : Slice(u, Len(s), Len(u))[i] = u[Len(s) + i]
  <2>1. Len(u) \in Len(s) .. Len(u)
      BY <1>1
  <2> QED
      BY <1>1, <2>1, SliceFacts, ZenonT(60)
<1>4. Slice(u, 0, Len(s)) = s
  <2> DEFINE v == Slice(u, 0, Len(s))
  <2> HIDE DEF v
  <2>1. v \in Seq(S) /\ Len(v) = Len(s) /\ \A i \in 1 .. Len(v) : v[i] = s[i]
      BY <1>1, <1>2 DEF v
  <2>2. v = s
      BY <2>1, SeqEqual
  <2> QED
      BY <2>2 DEF v
<1>5. Slice(u, Len(s), Len(u)) = t
  <2> DEFINE v == Slice(u, Len(s), Len(u))
  <2> HIDE DEF v
  <2>1. v \in Seq(S) /\ Len(v) = Len(t) /\ \A i \in 1 .. Len(v) : v[i] = t[i]
      BY <1>1, <1>3 DEF v
  <2>2. v = t
      BY <2>1, SeqEqual
  <2> QED
      BY <2>2 DEF v
<1> QED
    BY <1>1, <1>4, <1>5 DEF u

\* Within stops at the end.
LEMMA WithinFacts ==
    ASSUME NEW S, NEW text \in Seq(S), NEW a \in Nat, NEW b \in Nat
    PROVE  /\ b <= Len(text) => Within(text, a + 1, b) = Slice(text, a, b)
           /\ b >= Len(text) => Within(text, a + 1, b) = Slice(text, a, Len(text))
  BY DEF Within, Slice

\* The least of some numbers.
LEMMA MinFacts ==
    ASSUME NEW T, T \subseteq Nat, T # {}
    PROVE  Min(T) \in T /\ \A y \in T : Min(T) <= y
<1>1. \E x \in T : \A y \in T : x <= y
    BY Least, Zenon
<1> QED
    BY <1>1, Zenon DEF Min

\* The greatest of some numbers up to a bound.
LEMMA MaxFacts ==
    ASSUME NEW n \in Nat, NEW T, T \subseteq 0 .. n, T # {}
    PROVE  Max(T) \in T /\ \A y \in T : Max(T) >= y
<1> DEFINE M == {n - y : y \in T}
<1>1. M \subseteq Nat /\ M # {}
  <2>1. \A y \in T : n - y \in Nat
      OBVIOUS
  <2> QED
      BY <2>1
<1>2. PICK m \in M : \A y \in M : m <= y
    BY <1>1, Least, Zenon
<1>3. PICK x \in T : m = n - x
    BY <1>2
<1>4. \A y \in T : x >= y
  <2> TAKE y \in T
  <2>1. n - y \in M /\ x \in 0 .. n /\ y \in 0 .. n
      BY <1>3
  <2>2. m <= n - y
      BY <1>2, <2>1
  <2> QED
      BY <1>3, <2>1, <2>2
<1> QED
    BY <1>3, <1>4, Zenon DEF Max

\* Nothing but blanks from a to b.
Blank(text, a, b) == \A i \in a + 1 .. b : text[i] \in Blanks

\* What strip leaves of a slice is a slice, and the rest is blank.
LEMMA StripSlice ==
    ASSUME NEW text \in Text, NEW a \in Nat, NEW b \in a .. Len(text)
    PROVE  \E p \in a .. b : \E q \in p .. b :
              /\ Strip(Slice(text, a, b)) = Slice(text, p, q)
              /\ Blank(text, a, p) /\ Blank(text, q, b)
              /\ p < q => text[p + 1] \notin Blanks /\ text[q] \notin Blanks
<1> DEFINE s == Slice(text, a, b)
           kept == {i \in DOMAIN s : s[i] \notin Blanks}
<1>1. /\ s \in Seq(Char) /\ Len(s) = b - a /\ DOMAIN s = 1 .. b - a
      /\ \A i \in 1 .. b - a : s[i] = text[a + i]
      /\ a \in Int /\ b \in Int
  <2>1. text \in Seq(Char)
      BY DEF Text
  <2>2. /\ s \in Seq(Char) /\ Len(s) = b - a
        /\ \A i \in 1 .. b - a : s[i] = text[a + i]
      BY <2>1, SliceFacts, ZenonT(60)
  <2> HIDE DEF s
  <2>3. DOMAIN s = 1 .. Len(s)
      BY <2>2
  <2> QED
      BY <2>2, <2>3
<1>0. Strip(s) = IF kept = {} THEN <<>> ELSE Within(s, Min(kept), Max(kept))
    BY DEF Strip
<1>2. kept \subseteq 1 .. b - a
    BY <1>1
<1>3. \A j \in a + 1 .. b : j - a \in 1 .. b - a /\ j = a + (j - a)
    BY <1>1
<1>4. \A j \in a + 1 .. b : text[j] \notin Blanks => j - a \in kept
    BY <1>1, <1>3
<1>5. \A i \in kept : s[i] \notin Blanks
    OBVIOUS
<1> HIDE DEF s, kept
<1>6. CASE kept = {}
  <2>1. Blank(text, a, b)
      BY <1>4, <1>6 DEF Blank
  <2>2. Slice(text, b, b) = <<>>
      BY SliceNone
  <2>3. Blank(text, b, b)
      BY DEF Blank
  <2>4. Strip(s) = Slice(text, b, b) /\ b \in a .. b /\ b \in b .. b /\ ~(b < b)
      BY <1>0, <1>6, <2>2
  <2> QED
      BY <2>1, <2>3, <2>4 DEF s
<1>7. CASE kept # {}
  <2>1. kept \subseteq Nat /\ kept \subseteq 0 .. b - a /\ b - a \in Nat
      BY <1>2
  <2>2. PICK lo \in kept : lo = Min(kept) /\ \A y \in kept : lo <= y
      BY <1>7, <2>1, MinFacts, Zenon
  <2>3. PICK hi \in kept : hi = Max(kept) /\ \A y \in kept : hi >= y
      BY <1>7, <2>1, MaxFacts, Zenon
  <2>4. lo \in 1 .. b - a /\ hi \in lo .. b - a
      BY <1>2, <2>2, <2>3
  <2>5. Strip(s) = Slice(s, lo - 1, hi)
    <3>1. lo - 1 \in Nat /\ hi \in Nat /\ hi <= Len(s) /\ lo - 1 + 1 = lo
        BY <1>1, <2>4
    <3>2. Within(s, lo - 1 + 1, hi) = Slice(s, lo - 1, hi)
        BY <1>1, <3>1, WithinFacts, Zenon
    <3> QED
        BY <1>0, <1>7, <2>2, <2>3, <3>1, <3>2
  <2> DEFINE p == a + (lo - 1)
             q == a + hi
  <2>6. Strip(s) = Slice(text, p, q)
    <3>1. lo - 1 \in Nat /\ hi \in lo - 1 .. b - a
        BY <2>4
    <3>2. text \in Seq(Char)
        BY DEF Text
    <3> QED
        BY <2>5, <3>1, <3>2, SliceOfSlice DEF s
  <2>7. p \in a .. b /\ q \in p .. b
      BY <1>1, <2>4
  <2>8. Blank(text, a, p)
    <3>1. ASSUME NEW i \in a + 1 .. p, text[i] \notin Blanks PROVE FALSE
      <4>1. i \in a + 1 .. b /\ i - a < lo /\ i - a \in Nat
          BY <2>4
      <4>2. i - a \in kept
          BY <1>4, <3>1, <4>1
      <4> QED
          BY <2>2, <2>4, <4>1, <4>2
    <3> QED
        BY <3>1 DEF Blank
  <2>9. Blank(text, q, b)
    <3>1. ASSUME NEW i \in q + 1 .. b, text[i] \notin Blanks PROVE FALSE
      <4>1. i \in a + 1 .. b /\ i - a > hi /\ i - a \in Nat
          BY <2>4
      <4>2. i - a \in kept
          BY <1>4, <3>1, <4>1
      <4> QED
          BY <2>3, <2>4, <4>1, <4>2
    <3> QED
        BY <3>1 DEF Blank
  <2>10. text[p + 1] \notin Blanks /\ text[q] \notin Blanks
    <3>1. p + 1 = a + lo /\ lo \in 1 .. b - a /\ hi \in 1 .. b - a
        BY <2>4
    <3>2. s[lo] = text[a + lo] /\ s[hi] = text[a + hi]
        BY <1>1, <3>1
    <3> QED
        BY <1>5, <2>2, <2>3, <3>1, <3>2
  <2> HIDE DEF p, q
  <2> QED
      BY <2>6, <2>7, <2>8, <2>9, <2>10 DEF s
<1> QED
    BY <1>6, <1>7

\* The text from a to b is blanks and then the part, which begins with no
\* blank; after it comes a blank, or nothing.
Tile(part, text, a, b) ==
    \E p \in a .. b :
        /\ p < b /\ b <= Len(text)
        /\ part = Slice(text, p, b)
        /\ Blank(text, a, p)
        /\ text[p + 1] \notin Blanks
        /\ b < Len(text) => text[b + 1] \in Blanks

\* The parts are in the text one after the other, with blanks between them.
Tiling(end, parts, text, a, b) ==
    /\ end \in [0 .. Len(parts) -> a .. b]
    /\ end[0] = a
    /\ \A k \in 1 .. Len(parts) : Tile(parts[k], text, end[k - 1], end[k])
    /\ Blank(text, end[Len(parts)], b)

\* That is so for some places.
Tiled(parts, text, a, b) == \E end : Tiling(end, parts, text, a, b)

\* A tile is a tiling.
LEMMA TiledOne ==
    ASSUME NEW text, NEW a \in Nat, NEW b \in Nat, a <= b,
           NEW part, Tile(part, text, a, b)
    PROVE  Tiled(<<part>>, text, a, b)
<1> DEFINE end == [k \in 0 .. 1 |-> IF k = 0 THEN a ELSE b]
<1>1. end \in [0 .. 1 -> a .. b] /\ end[0] = a /\ end[1] = b
    OBVIOUS
<1>2. Blank(text, end[1], b)
    BY <1>1 DEF Blank
<1>3. Len(<<part>>) = 1 /\ <<part>>[1] = part
    OBVIOUS
<1> HIDE DEF end
<1>4. \A k \in 1 .. 1 : Tile(<<part>>[k], text, end[k - 1], end[k])
    BY <1>1, <1>3
<1> QED
    BY <1>1, <1>2, <1>3, <1>4 DEF Tiled, Tiling

\* So are blanks.
LEMMA TiledNone ==
    ASSUME NEW text, NEW a \in Nat, NEW b \in Nat, a <= b, Blank(text, a, b)
    PROVE  Tiled(<<>>, text, a, b)
<1> DEFINE end == [k \in 0 .. 0 |-> a]
<1>1. end \in [0 .. 0 -> a .. b] /\ end[0] = a /\ Len(<<>>) = 0
    OBVIOUS
<1> HIDE DEF end
<1> QED
    BY <1>1 DEF Tiled, Tiling

\* Blanks before a tile belong to it.
LEMMA TileWidens ==
    ASSUME NEW text, NEW part, NEW a \in Nat, NEW b \in Nat, a <= b,
           NEW d \in Nat, Blank(text, a, b), Tile(part, text, b, d)
    PROVE  Tile(part, text, a, d)
  BY DEF Tile, Blank

\* Two tilings that meet are one.
LEMMA TiledJoin ==
    ASSUME NEW S, NEW A \in Seq(S), NEW B \in Seq(S), NEW text,
           NEW a \in Nat, NEW b \in Nat, NEW c \in Nat, a <= b, b <= c,
           Tiled(A, text, a, b), Tiled(B, text, b, c)
    PROVE  Tiled(A \o B, text, a, c)
<1> DEFINE m == Len(A)
           n == Len(B)
           both == A \o B
<1>1. PICK e : Tiling(e, A, text, a, b)
    BY DEF Tiled
<1>2. PICK f : Tiling(f, B, text, b, c)
    BY DEF Tiled
<1>3. /\ m \in Nat /\ n \in Nat /\ Len(both) = m + n
      /\ \A k \in 1 .. m : both[k] = A[k]
      /\ \A k \in 1 .. n : both[m + k] = B[k]
    OBVIOUS
<1> DEFINE end == [k \in 0 .. m + n |-> IF k <= m THEN e[k] ELSE f[k - m]]
<1>4. /\ e \in [0 .. m -> a .. b] /\ e[0] = a
      /\ \A k \in 1 .. m : Tile(A[k], text, e[k - 1], e[k])
      /\ Blank(text, e[m], b)
    BY <1>1 DEF Tiling
<1>5. /\ f \in [0 .. n -> b .. c] /\ f[0] = b
      /\ \A k \in 1 .. n : Tile(B[k], text, f[k - 1], f[k])
      /\ Blank(text, f[n], c)
    BY <1>2 DEF Tiling
<1> HIDE DEF m, n, both
<1>6. end \in [0 .. m + n -> a .. c]
  <2>1. ASSUME NEW k \in 0 .. m + n PROVE end[k] \in a .. c
    <3>1. CASE k <= m
      <4>1. k \in 0 .. m
          BY <1>3, <3>1
      <4>2. e[k] \in a .. b
          BY <1>4, <4>1
      <4> QED
          BY <3>1, <4>2
    <3>2. CASE ~(k <= m)
      <4>1. k - m \in 0 .. n
          BY <1>3, <3>2
      <4>2. f[k - m] \in b .. c
          BY <1>5, <4>1
      <4> QED
          BY <3>2, <4>2
    <3> QED
        BY <3>1, <3>2
  <2> QED
      BY <2>1
<1>7. /\ \A k \in 0 .. m : end[k] = e[k]
      /\ \A k \in 1 .. n : end[m + k] = f[k]
    BY <1>3
<1> HIDE DEF end
<1>8. end[0] = a
    BY <1>3, <1>4, <1>7
<1>9. ASSUME NEW k \in 1 .. m + n
      PROVE  Tile(both[k], text, end[k - 1], end[k])
  <2>1. CASE k \in 1 .. m
    <3>1. k - 1 \in 0 .. m /\ k \in 0 .. m
        BY <1>3, <2>1
    <3> QED
        BY <1>3, <1>4, <1>7, <2>1, <3>1
  <2>2. CASE k = m + 1
    <3>1. 1 \in 1 .. n /\ m \in 0 .. m
        BY <1>3, <2>2
    <3>2. /\ end[k - 1] = e[m] /\ end[k] = f[1] /\ both[k] = B[1]
        BY <1>3, <1>7, <2>2, <3>1
    <3>3. Tile(B[1], text, b, f[1]) /\ f[1] \in b .. c
      <4>1. Tile(B[1], text, f[1 - 1], f[1])
          BY <1>5, <3>1
      <4>2. 1 - 1 = 0 /\ 1 \in 0 .. n
          BY <1>3, <3>1
      <4>3. f[1] \in b .. c
          BY <1>5, <4>2
      <4> QED
          BY <1>5, <4>1, <4>2, <4>3
    <3>4. e[m] \in a .. b /\ Blank(text, e[m], b)
        BY <1>4, <3>1
    <3>5. Tile(B[1], text, e[m], f[1])
      <4>1. PICK x \in a .. b : x = e[m]
          BY <3>4
      <4>2. PICK y \in b .. c : y = f[1]
          BY <3>3
      <4>3. x \in Nat /\ y \in Nat /\ x <= b
          BY <4>1, <4>2
      <4>4. Blank(text, x, b) /\ Tile(B[1], text, b, y)
          BY <3>3, <3>4, <4>1, <4>2
      <4>5. Tile(B[1], text, x, y)
          BY <4>3, <4>4, TileWidens, Zenon
      <4> QED
          BY <4>1, <4>2, <4>5
    <3> QED
        BY <3>2, <3>5
  <2>3. CASE k \in m + 2 .. m + n
    <3>1. PICK j \in 2 .. n : k = m + j
      <4>1. \A x, y, z \in Nat : z \in x + 2 .. x + y => z - x \in 2 .. y /\ z = x + (z - x)
          OBVIOUS
      <4>2. k \in Nat /\ k - m \in 2 .. n /\ k = m + (k - m)
          BY <1>3, <2>3, <4>1
      <4> QED
          BY <4>2
    <3>4. k - 1 = m + (j - 1) /\ j - 1 \in 1 .. n /\ j \in 1 .. n
      <4>1. m \in Nat /\ n \in Nat
          BY <1>3
      <4>2. j \in Nat /\ 2 <= j /\ j <= n /\ k = m + j
          BY <3>1, <4>1
      <4> QED
          BY <4>1, <4>2
    <3>2. end[k] = f[j] /\ end[k - 1] = f[j - 1] /\ both[k] = B[j]
        BY <1>3, <1>7, <3>1, <3>4
    <3> QED
        BY <1>5, <3>1, <3>2, <3>4
  <2> QED
      BY <1>3, <2>1, <2>2, <2>3
<1>10. Blank(text, end[m + n], c)
  <2>1. CASE n = 0
    <3>1. end[m + n] = e[m] /\ f[n] = b
        BY <1>3, <1>5, <1>7, <2>1
    <3>2. PICK x \in a .. b : x = e[m]
        BY <1>3, <1>4
    <3>3. Blank(text, x, b) /\ Blank(text, b, c)
        BY <1>4, <1>5, <3>1, <3>2
    <3>4. Blank(text, x, c)
        BY <3>3 DEF Blank
    <3> QED
        BY <3>1, <3>2, <3>4
  <2>2. CASE n # 0
    <3>1. n \in 1 .. n
        BY <1>3, <2>2
    <3> QED
        BY <1>5, <1>7, <3>1
  <2> QED
      BY <2>1, <2>2
<1>11. Tiling(end, both, text, a, c)
    BY <1>3, <1>6, <1>8, <1>9, <1>10 DEF Tiling
<1> QED
    BY <1>11 DEF Tiled, both

----------------------------------------------------------------------------
(* split_sentences: its parts are tiles of the text                        *)

\* A cut is inside the part, at a space, or before a blank.
LEMMA CutFacts ==
    ASSUME NEW part \in Text, part # <<>>
    PROVE  /\ Cut(part) \in 1 .. Len(part)
           /\ \/ part[Cut(part)] = " "
              \/ Cut(part) = Len(part)
              \/ Cut(part) < Len(part) /\ part[Cut(part) + 1] \in Blanks
<1>1. Len(part) \in Nat \ {0}
    BY EmptySeq DEF Text
<1>2. WordLen \in Nat /\ CutFrom \in Nat
    BY SplitterAssumption
<1>3. CASE BreakCuts(part) # {}
  <2>1. \A i \in BreakCuts(part) :
           i \in 1 .. Len(part) /\ i < Len(part) /\ part[i + 1] \in Blanks
      BY <1>1, <1>2 DEF BreakCuts
  <2>2. BreakCuts(part) \subseteq Nat
      BY <2>1
  <2>3. Cut(part) \in BreakCuts(part)
      BY <1>3, <2>2, MinFacts, Zenon DEF Cut
  <2> QED
      BY <2>1, <2>3
<1>4. CASE BreakCuts(part) = {}
  <2> DEFINE spaces == {i \in CutFrom + 1 .. Len(part) : part[i] = " "}
             inside == {i \in spaces : i <= CutTo}
  <2>1. ForcedCut(part) = IF Len(part) <= SoftMax \/ spaces = {} THEN Len(part)
                          ELSE IF inside # {} THEN Max(inside) ELSE Min(spaces)
      BY DEF ForcedCut
  <2>2. inside \subseteq spaces /\ \A i \in spaces : part[i] = " "
      OBVIOUS
  <2>3. spaces \subseteq CutFrom + 1 .. Len(part)
      OBVIOUS
  <2> HIDE DEF spaces, inside
  <2>4. \A i \in spaces : i \in 1 .. Len(part)
      BY <1>1, <1>2, <2>3
  <2>5. spaces \subseteq Nat /\ inside \subseteq 0 .. Len(part)
    <3>1. \A i \in 1 .. Len(part) : i \in Nat /\ i \in 0 .. Len(part)
        BY <1>1
    <3> QED
        BY <2>2, <2>4, <3>1, Zenon
  <2>6. Cut(part) = ForcedCut(part)
      BY <1>4 DEF Cut
  <2>7. spaces # {} => Min(spaces) \in spaces
      BY <2>5, MinFacts, Zenon
  <2>8. inside # {} => Max(inside) \in inside
      BY <1>1, <2>5, MaxFacts, Zenon
  <2>9. Cut(part) \in spaces \/ Cut(part) = Len(part)
      BY <2>1, <2>2, <2>6, <2>7, <2>8
  <2>10. Len(part) \in 1 .. Len(part)
      BY <1>1
  <2> QED
      BY <2>2, <2>4, <2>9, <2>10, Zenon
<1> QED
    BY <1>3, <1>4

\* Stripping makes no text longer.
LEMMA StripInText ==
    ASSUME NEW text \in Text
    PROVE  Strip(text) \in Text /\ Len(Strip(text)) <= Len(text)
<1>1. text \in Seq(Char) /\ Len(text) \in Nat
    BY DEF Text
<1>2. 0 \in Nat /\ Len(text) \in 0 .. Len(text)
    BY <1>1
<1>3. PICK p \in 0 .. Len(text) : \E q \in p .. Len(text) :
              /\ Strip(Slice(text, 0, Len(text))) = Slice(text, p, q)
              /\ Blank(text, 0, p) /\ Blank(text, q, Len(text))
              /\ p < q => text[p + 1] \notin Blanks /\ text[q] \notin Blanks
    BY <1>2, StripSlice, Zenon
<1>7. PICK q \in p .. Len(text) :
         Strip(Slice(text, 0, Len(text))) = Slice(text, p, q)
    BY <1>3
<1>4. p \in Nat /\ q \in p .. Len(text)
    BY <1>2
<1>5. /\ Slice(text, p, q) \in Seq(Char)
      /\ Len(Slice(text, p, q)) = q - p
    BY <1>1, <1>4, SliceFacts
<1>6. Strip(text) = Slice(text, p, q)
    BY <1>1, <1>7, SliceAll
<1> QED
    BY <1>1, <1>4, <1>5, <1>6 DEF Text

\* The part before the cut, and what is left, stripped.
Before(part) == Strip(Within(part, 1, Cut(part)))
After(part) == Strip(Within(part, Cut(part) + 1, Len(part)))

\* The same as slices.
LEMMA CutSlices ==
    ASSUME NEW part \in Text, part # <<>>
    PROVE  /\ Before(part) = Strip(Slice(part, 0, Cut(part)))
           /\ After(part) = Strip(Slice(part, Cut(part), Len(part)))
<1>1. part \in Seq(Char) /\ Len(part) \in Nat
    BY DEF Text
<1>2. PICK c \in 1 .. Len(part) : c = Cut(part)
    BY CutFacts
<1>3. /\ 0 \in Nat /\ c \in Nat /\ c <= Len(part) /\ Len(part) <= Len(part)
      /\ 0 + 1 = 1
    BY <1>1
<1>4. Within(part, 1, c) = Slice(part, 0, c)
    BY <1>1, <1>3, WithinFacts
<1>5. Within(part, c + 1, Len(part)) = Slice(part, c, Len(part))
    BY <1>1, <1>3, WithinFacts
<1> QED
    BY <1>2, <1>4, <1>5 DEF Before, After

\* Chopping goes on with a shorter text.
LEMMA AfterIsShorter ==
    ASSUME NEW part \in Text, part # <<>>
    PROVE  /\ Before(part) \in Text
           /\ After(part) \in Text /\ Len(After(part)) < Len(part)
<1>1. part \in Seq(Char) /\ Len(part) \in Nat
    BY DEF Text
<1>2. PICK c \in 1 .. Len(part) : c = Cut(part)
    BY CutFacts
<1>3. c \in Nat /\ c \in 0 .. Len(part) /\ Len(part) \in c .. Len(part) /\ 0 \in Nat
    BY <1>1
<1> DEFINE l == Slice(part, 0, c)
           r == Slice(part, c, Len(part))
<1>4. l \in Text /\ r \in Text /\ Len(r) = Len(part) - c
    BY <1>1, <1>3, SliceFacts DEF Text
<1>5. Before(part) = Strip(l) /\ After(part) = Strip(r)
    BY <1>2, CutSlices
<1> HIDE DEF l, r
<1>6. /\ Strip(l) \in Text
      /\ Strip(r) \in Text /\ Len(Strip(r)) <= Len(r) /\ Len(Strip(r)) \in Nat
    BY <1>4, StripInText DEF Text
<1> QED
    BY <1>1, <1>2, <1>4, <1>5, <1>6

\* Chop is defined for every text.
LEMMA ChopFacts ==
    /\ Chop \in [Text -> Seq(Text)]
    /\ Chop[<<>>] = <<>>
    /\ \A part \in Text : part # <<>> =>
           Chop[part] = <<Before(part)>> \o Chop[After(part)]
<1> DEFINE size == [t \in Text |-> Len(t)]
           next == [t \in Text |-> IF t = <<>> THEN t ELSE After(t)]
           first == [t \in Text |-> IF t = <<>> THEN <<>> ELSE <<Before(t)>>]
           Done == {<<>>}
           Body(f) == f = [part \in Text |->
                              IF part = <<>> THEN <<>>
                              ELSE <<Strip(Within(part, 1, Cut(part)))>>
                                   \o f[Strip(Within(part, Cut(part) + 1, Len(part)))]]
<1>1. size \in [Text -> Nat] /\ <<>> \in Text
    BY DEF Text
<1>2. next \in [Text -> Text]
    BY AfterIsShorter
<1>3. first \in [Text -> Seq(Text)]
    BY AfterIsShorter
<1>4. \A t \in Text : t \notin Done => size[next[t]] < size[t]
    BY AfterIsShorter
<1>5. \A f : PieceByPiece(f, Text, next, first, Done) <=> Body(f)
    BY DEF PieceByPiece, Before, After
<1> HIDE DEF size, next, first, Done, Body
<1>0. Pieces(Text, Text, size, next, first, Done)
    BY <1>1, <1>2, <1>3, <1>4 DEF Pieces
<1>6. /\ \E f : Body(f)
      /\ \A f : Body(f) => f \in [Text -> Seq(Text)]
  <2>1. /\ \E f : PieceByPiece(f, Text, next, first, Done)
        /\ \A f : PieceByPiece(f, Text, next, first, Done)
                  => f \in [Text -> Seq(Text)]
      BY <1>0, RecursiveSequence, Zenon
  <2> QED
      BY <1>5, <2>1, Zenon
<1>7. Body(Chop)
  <2>1. Body(CHOOSE f : Body(f))
      BY <1>6, Zenon
  <2> QED
      BY <2>1 DEF Chop, Body
<1>8. \A t \in Text : Chop[t] = IF t = <<>> THEN <<>>
                                ELSE <<Before(t)>> \o Chop[After(t)]
    BY <1>7 DEF Body, Before, After
<1> QED
    BY <1>1, <1>6, <1>7, <1>8

\* What comes after b is a blank, or nothing.
Ends(text, b) == b < Len(text) => text[b + 1] \in Blanks

\* If what is left after a cut is chopped into tiles, so is all of it.
LEMMA ChopStep ==
    ASSUME NEW text \in Text, NEW p \in Nat, NEW q \in Nat,
           p < q, q <= Len(text),
           text[p + 1] \notin Blanks, text[q] \notin Blanks, Ends(text, q),
           \A p2 \in Nat : \A q2 \in Nat :
               /\ p < p2 /\ p2 <= q2 /\ q2 <= q
               /\ p2 < q2 => text[p2 + 1] \notin Blanks /\ text[q2] \notin Blanks
               /\ Ends(text, q2)
               => Tiled(Chop[Slice(text, p2, q2)], text, p2, q2)
    PROVE  Tiled(Chop[Slice(text, p, q)], text, p, q)
<1> DEFINE part == Slice(text, p, q)
<1>1. text \in Seq(Char) /\ Len(text) \in Nat
    BY DEF Text
<1>2. /\ part \in Seq(Char) /\ Len(part) = q - p
      /\ \A i \in 1 .. q - p : part[i] = text[p + i]
  <2>1. q \in p .. Len(text)
      BY <1>1
  <2> QED
      BY <1>1, <2>1, SliceFacts, ZenonT(60)
<1> HIDE DEF part
<1>3. part \in Text /\ part # <<>>
    BY <1>2 DEF Text
<1>4. PICK c \in 1 .. Len(part) :
         /\ c = Cut(part)
         /\ \/ part[c] = " "
            \/ c = Len(part)
            \/ c < Len(part) /\ part[c + 1] \in Blanks
    BY <1>3, CutFacts
<1>5. /\ c \in Nat /\ c >= 1 /\ p + c <= q /\ p + c \in Nat
      /\ p \in Nat /\ p + c \in p .. Len(text) /\ q \in p + c .. Len(text)
  <2>1. c \in 1 .. q - p
      BY <1>2, <1>4
  <2> QED
      BY <1>1, <2>1
<1>6. \/ text[p + c] \in Blanks
      \/ p + c = q
      \/ p + c < q /\ text[p + c + 1] \in Blanks
  <2>1. part[c] = text[p + c]
      BY <1>2, <1>4
  <2>2. c < Len(part) => part[c + 1] = text[p + c + 1]
    <3>1. c < q - p => c + 1 \in 1 .. q - p /\ p + (c + 1) = p + c + 1
        BY <1>5
    <3> QED
        BY <1>2, <3>1
  <2>3. /\ c = Len(part) => p + c = q
        /\ c < Len(part) => p + c < q
    <3>1. (c = q - p => p + c = q) /\ (c < q - p => p + c < q)
        BY <1>5
    <3> QED
        BY <1>2, <3>1
  <2>4. " " \in Blanks
      BY DEF Blanks
  <2> QED
      BY <1>4, <2>1, <2>2, <2>3, <2>4
<1>7. /\ Before(part) = Strip(Slice(text, p, p + c))
      /\ After(part) = Strip(Slice(text, p + c, q))
  <2>1. Slice(part, 0, c) = Slice(text, p, p + c)
    <3>1. 0 \in Nat /\ c \in 0 .. q - p /\ q \in p .. Len(text) /\ p + 0 = p
        BY <1>1, <1>5
    <3> QED
        BY <1>1, <3>1, SliceOfSlice DEF part
  <2>2. Slice(part, c, q - p) = Slice(text, p + c, q)
    <3>1. c \in Nat /\ q - p \in c .. q - p /\ q \in p .. Len(text) /\ p + (q - p) = q
        BY <1>1, <1>5
    <3> QED
        BY <1>1, <3>1, SliceOfSlice DEF part
  <2> QED
      BY <1>2, <1>3, <1>4, <2>1, <2>2, CutSlices
<1>8. PICK p1 \in p .. p + c : \E q1 \in p1 .. p + c :
         /\ Strip(Slice(text, p, p + c)) = Slice(text, p1, q1)
         /\ Blank(text, p, p1) /\ Blank(text, q1, p + c)
         /\ p1 < q1 => text[p1 + 1] \notin Blanks /\ text[q1] \notin Blanks
    BY <1>5, StripSlice, Zenon
<1>9. PICK q1 \in p1 .. p + c :
         /\ Strip(Slice(text, p, p + c)) = Slice(text, p1, q1)
         /\ Blank(text, p, p1) /\ Blank(text, q1, p + c)
         /\ p1 < q1 => text[p1 + 1] \notin Blanks /\ text[q1] \notin Blanks
    BY <1>8
<1>10. PICK p2 \in p + c .. q : \E q2 \in p2 .. q :
         /\ Strip(Slice(text, p + c, q)) = Slice(text, p2, q2)
         /\ Blank(text, p + c, p2) /\ Blank(text, q2, q)
         /\ p2 < q2 => text[p2 + 1] \notin Blanks /\ text[q2] \notin Blanks
    BY <1>5, StripSlice, Zenon
<1>11. PICK q2 \in p2 .. q :
         /\ Strip(Slice(text, p + c, q)) = Slice(text, p2, q2)
         /\ Blank(text, p + c, p2) /\ Blank(text, q2, q)
         /\ p2 < q2 => text[p2 + 1] \notin Blanks /\ text[q2] \notin Blanks
    BY <1>10
<1>12. p1 \in Nat /\ q1 \in Nat /\ p2 \in Nat /\ q2 \in Nat
    BY <1>5
<1>13. p1 = p /\ p < q1
  <2>1. ~(p < p1)
      BY <1>5, <1>9, <1>12 DEF Blank
  <2>2. ~(q1 = p)
      BY <1>5, <1>9, <1>12 DEF Blank
  <2> QED
      BY <1>5, <1>12, <2>1, <2>2
<1>14. Tile(Before(part), text, p, q1)
  <2>1. Ends(text, q1)
    <3>1. CASE q1 < p + c
        BY <1>5, <1>9, <1>12, <3>1 DEF Ends, Blank
    <3>2. CASE q1 = p + c
        BY <1>5, <1>6, <1>9, <1>12, <1>13, <3>2 DEF Ends
    <3> QED
        BY <1>5, <1>12, <3>1, <3>2
  <2>2. p \in p .. q1 /\ p < q1 /\ q1 <= Len(text)
      BY <1>5, <1>12, <1>13
  <2>3. Before(part) = Slice(text, p, q1) /\ Blank(text, p, p)
      BY <1>7, <1>9, <1>13
  <2> QED
      BY <2>1, <2>2, <2>3 DEF Tile, Ends
<1>15. Tiled(<<Before(part)>>, text, p, q1)
    BY <1>12, <1>13, <1>14, TiledOne
<1>16. Tiled(Chop[After(part)], text, p2, q2)
  <2>1. Ends(text, q2)
    <3>1. CASE q2 < q
        BY <1>1, <1>11, <1>12, <3>1 DEF Ends, Blank
    <3>2. CASE q2 = q
        BY <3>2
    <3> QED
        BY <1>12, <3>1, <3>2
  <2>2. p < p2 /\ p2 <= q2 /\ q2 <= q
      BY <1>5, <1>12
  <2> QED
      BY <1>7, <1>11, <1>12, <2>1, <2>2
<1>17. Tiled(<<>>, text, q1, p2) /\ Tiled(<<>>, text, q2, q)
  <2>1. Blank(text, q1, p2)
      BY <1>5, <1>9, <1>11, <1>12 DEF Blank
  <2> QED
      BY <1>5, <1>11, <1>12, <2>1, TiledNone
<1>18. /\ <<Before(part)>> \in Seq(Text) /\ <<>> \in Seq(Text)
       /\ Chop[After(part)] \in Seq(Text)
       /\ Chop[part] = <<Before(part)>> \o Chop[After(part)]
  <2>1. Before(part) \in Text /\ After(part) \in Text
      BY <1>3, AfterIsShorter, Zenon
  <2>2. Chop[After(part)] \in Seq(Text)
      BY <2>1, ChopFacts
  <2>3. Chop[part] = <<Before(part)>> \o Chop[After(part)]
      BY <1>3, ChopFacts, Zenon
  <2> QED
      BY <2>1, <2>2, <2>3
<1>19. p <= q1 /\ q1 <= p2 /\ p2 <= q2 /\ q2 <= q
    BY <1>5, <1>12, <1>13
<1>20. Tiled(<<Before(part)>> \o <<>>, text, p, p2)
    BY <1>12, <1>15, <1>17, <1>18, <1>19, TiledJoin
<1>21. Tiled(Chop[After(part)] \o <<>>, text, p2, q)
    BY <1>12, <1>16, <1>17, <1>18, <1>19, TiledJoin
<1>22. /\ <<Before(part)>> \o <<>> = <<Before(part)>>
       /\ Chop[After(part)] \o <<>> = Chop[After(part)]
    BY <1>18, ConcatEmptySeq
<1>23. p <= p2 /\ p2 <= q
    BY <1>12, <1>19
<1>24. Tiled(<<Before(part)>> \o Chop[After(part)], text, p, q)
    BY <1>12, <1>18, <1>20, <1>21, <1>22, <1>23, TiledJoin
<1> QED
    BY <1>18, <1>24 DEF part

\* Induction from all smaller numbers.
LEMMA StrongInduction ==
    ASSUME NEW T, \A n \in Nat : (\A m \in Nat : m < n => m \in T) => n \in T
    PROVE  Nat \subseteq T
<1> DEFINE id == [n \in Nat |-> n]
<1>1. id \in [Nat -> Nat]
    OBVIOUS
<1>2. \A n \in Nat : (\A m \in Nat : id[m] < id[n] => m \in T) => n \in T
    OBVIOUS
<1> HIDE DEF id
<1> QED
    BY <1>1, <1>2, SizeInduction, ZenonT(60)

\* A stripped slice that a blank follows, or nothing, is chopped into tiles.
LEMMA ChopTiled ==
    ASSUME NEW text \in Text, NEW p \in Nat, NEW q \in Nat,
           p <= q, q <= Len(text),
           p < q => text[p + 1] \notin Blanks /\ text[q] \notin Blanks,
           Ends(text, q)
    PROVE  Tiled(Chop[Slice(text, p, q)], text, p, q)
<1> DEFINE Good(x, y) ==
               /\ x <= y /\ y <= Len(text)
               /\ x < y => text[x + 1] \notin Blanks /\ text[y] \notin Blanks
               /\ Ends(text, y)
               => Tiled(Chop[Slice(text, x, y)], text, x, y)
           T == {n \in Nat : \A x \in Nat : \A y \in Nat :
                    y <= x + n => Good(x, y)}
<1>0. Len(text) \in Nat
    BY DEF Text
<1>1. ASSUME NEW n \in Nat, \A m \in Nat : m < n => m \in T
      PROVE  n \in T
  <2> SUFFICES ASSUME NEW x \in Nat, NEW y \in Nat, y <= x + n,
                      x <= y, y <= Len(text),
                      x < y => text[x + 1] \notin Blanks /\ text[y] \notin Blanks,
                      Ends(text, y)
               PROVE  Tiled(Chop[Slice(text, x, y)], text, x, y)
      OBVIOUS
  <2>1. CASE x = y
    <3>1. Chop[Slice(text, x, y)] = <<>>
        BY <2>1, SliceNone, ChopFacts
    <3>2. Blank(text, x, y)
        BY <2>1 DEF Blank
    <3> QED
        BY <3>1, <3>2, TiledNone
  <2>2. CASE x < y
    <3>1. ASSUME NEW p2 \in Nat, NEW q2 \in Nat, x < p2, p2 <= q2, q2 <= y
          PROVE  Good(p2, q2)
      <4>1. n - 1 \in Nat /\ n - 1 < n /\ q2 <= p2 + (n - 1)
          BY <2>2, <3>1
      <4>2. n - 1 \in T
          BY <1>1, <4>1
      <4> HIDE DEF Good
      <4> QED
          BY <4>1, <4>2
    <3>2. /\ text[x + 1] \notin Blanks /\ text[y] \notin Blanks
        BY <2>2
    <3>3. \A p2 \in Nat : \A q2 \in Nat :
               /\ x < p2 /\ p2 <= q2 /\ q2 <= y
               /\ p2 < q2 => text[p2 + 1] \notin Blanks /\ text[q2] \notin Blanks
               /\ Ends(text, q2)
               => Tiled(Chop[Slice(text, p2, q2)], text, p2, q2)
      <4>1. \A q2 \in Nat : q2 <= y => q2 <= Len(text)
          BY <1>0
      <4> QED
          BY <3>1, <4>1
    <3> QED
        BY <2>2, <3>2, <3>3, ChopStep
  <2> QED
      BY <2>1, <2>2
<1> HIDE DEF T
<1>2. Nat \subseteq T
    BY <1>1, StrongInduction, Zenon
<1>3. q \in T /\ q <= p + q
    BY <1>2
<1>4. Good(p, q)
  <2> HIDE DEF Good
  <2> QED
      BY <1>3 DEF T
<1> QED
    BY <1>4

\* What is split off first, stripped, and what is left.
Piece(text) == Strip(Within(text, 1, FirstEnd(text)))
Beyond(text) == Within(text, FirstEnd(text) + 1, Len(text))

\* A piece ends inside the text, before a blank or at the end.
LEMMA FirstEndFacts ==
    ASSUME NEW text \in Text, text # <<>>
    PROVE  FirstEnd(text) \in 1 .. Len(text) /\ Ends(text, FirstEnd(text))
<1>1. Len(text) \in Nat \ {0} /\ DOMAIN text = 1 .. Len(text)
    BY EmptySeq DEF Text
<1> DEFINE T == Separations(text) \cup {Len(text)}
<1>2. Separations(text) \subseteq 1 .. Len(text)
    BY <1>1 DEF Separations
<1>3. T \subseteq Nat /\ T \subseteq 1 .. Len(text) /\ T # {}
    BY <1>1, <1>2
<1>4. PICK e \in T : e = FirstEnd(text)
    BY <1>3, MinFacts, Zenon DEF FirstEnd
<1>5. e \in 1 .. Len(text)
    BY <1>3
<1>6. Ends(text, e)
  <2> SUFFICES ASSUME e < Len(text) PROVE text[e + 1] \in Blanks
      BY DEF Ends
  <2>1. e \in Separations(text)
      BY <1>1
  <2>2. CASE text[e] \in Stops /\ (e < Len(text) => text[e + 1] \in Blanks)
      BY <2>2
  <2>3. CASE Within(text, e + 1, e + 2) = <<"/", "/">>
    <3>0. text \in Seq(Char)
        BY DEF Text
    <3>1. e \in Nat /\ e + 2 \in Nat /\ Len(text) \in Nat /\ e <= Len(text)
      <4>1. PICK n \in Nat : n = Len(text)
          BY <1>1
      <4>2. e \in 1 .. n
          BY <1>5, <4>1, Zenon
      <4>3. e \in Nat /\ e + 2 \in Nat /\ e <= n
          BY <4>2
      <4> QED
          BY <4>1, <4>3
    <3>2. PICK b \in {e + 2, Len(text)} :
             b \in e + 1 .. Len(text) /\ Within(text, e + 1, e + 2) = Slice(text, e, b)
      <4>1. \/ e + 2 <= Len(text) /\ e + 2 \in e + 1 .. Len(text)
            \/ e + 2 >= Len(text) /\ Len(text) \in e + 1 .. Len(text)
          BY <3>1
      <4>2. /\ e + 2 <= Len(text) => Within(text, e + 1, e + 2) = Slice(text, e, e + 2)
            /\ e + 2 >= Len(text) => Within(text, e + 1, e + 2) = Slice(text, e, Len(text))
          BY <3>0, <3>1, WithinFacts, Zenon
      <4> QED
          BY <4>1, <4>2
    <3>3. b \in e .. Len(text) /\ 1 \in 1 .. b - e
        BY <3>1, <3>2
    <3>4. Slice(text, e, b)[1] = text[e + 1]
        BY <3>0, <3>1, <3>3, SliceFacts
    <3>5. Slice(text, e, b) = <<"/", "/">>
        BY <2>3, <3>2
    <3>6. <<"/", "/">>[1] \in Blanks
        BY DEF Blanks
    <3> QED
        BY <3>4, <3>5, <3>6, Zenon
  <2> QED
      BY <2>1, <2>2, <2>3 DEF Separations
<1> QED
    BY <1>4, <1>5, <1>6

\* The same as slices.
LEMMA PieceSlices ==
    ASSUME NEW text \in Text, text # <<>>
    PROVE  /\ Piece(text) = Strip(Slice(text, 0, FirstEnd(text)))
           /\ Beyond(text) = Slice(text, FirstEnd(text), Len(text))
<1>1. text \in Seq(Char) /\ Len(text) \in Nat
    BY DEF Text
<1>2. PICK c \in 1 .. Len(text) : c = FirstEnd(text)
    BY FirstEndFacts
<1>3. /\ 0 \in Nat /\ c \in Nat /\ c <= Len(text) /\ Len(text) <= Len(text)
      /\ 0 + 1 = 1
    BY <1>1
<1>4. Within(text, 1, c) = Slice(text, 0, c)
    BY <1>1, <1>3, WithinFacts
<1>5. Within(text, c + 1, Len(text)) = Slice(text, c, Len(text))
    BY <1>1, <1>3, WithinFacts
<1> QED
    BY <1>2, <1>4, <1>5 DEF Piece, Beyond

\* Splitting goes on with a shorter text.
LEMMA BeyondIsShorter ==
    ASSUME NEW text \in Text, text # <<>>
    PROVE  /\ Piece(text) \in Text
           /\ Beyond(text) \in Text /\ Len(Beyond(text)) < Len(text)
<1>1. text \in Seq(Char) /\ Len(text) \in Nat
    BY DEF Text
<1>2. PICK c \in 1 .. Len(text) : c = FirstEnd(text)
    BY FirstEndFacts
<1>3. c \in Nat /\ c \in 0 .. Len(text) /\ Len(text) \in c .. Len(text) /\ 0 \in Nat
    BY <1>1
<1> DEFINE l == Slice(text, 0, c)
           r == Slice(text, c, Len(text))
<1>4. l \in Text /\ r \in Text /\ Len(r) = Len(text) - c
    BY <1>1, <1>3, SliceFacts DEF Text
<1>5. Piece(text) = Strip(l) /\ Beyond(text) = r
    BY <1>2, PieceSlices
<1> HIDE DEF l, r
<1>6. Strip(l) \in Text
    BY <1>4, StripInText DEF Text
<1> QED
    BY <1>1, <1>2, <1>4, <1>5, <1>6

\* Parts is defined for every text.
LEMMA PartsFacts ==
    /\ Parts \in [Text -> Seq(Text)]
    /\ Parts[<<>>] = <<>>
    /\ \A text \in Text : text # <<>> =>
           Parts[text] = Chop[Piece(text)] \o Parts[Beyond(text)]
<1> DEFINE size == [t \in Text |-> Len(t)]
           next == [t \in Text |-> IF t = <<>> THEN t ELSE Beyond(t)]
           first == [t \in Text |-> IF t = <<>> THEN <<>> ELSE Chop[Piece(t)]]
           Done == {<<>>}
           Body(f) == f = [text \in Text |->
                              IF text = <<>> THEN <<>>
                              ELSE Chop[Strip(Within(text, 1, FirstEnd(text)))]
                                   \o f[Within(text, FirstEnd(text) + 1, Len(text))]]
<1>1. size \in [Text -> Nat] /\ <<>> \in Text
    BY DEF Text
<1>2. next \in [Text -> Text]
    BY BeyondIsShorter
<1>3. first \in [Text -> Seq(Text)]
  <2>1. \A t \in Text : t # <<>> => Chop[Piece(t)] \in Seq(Text)
      BY BeyondIsShorter, ChopFacts
  <2> QED
      BY <2>1
<1>4. \A t \in Text : t \notin Done => size[next[t]] < size[t]
    BY BeyondIsShorter
<1>5. \A f : PieceByPiece(f, Text, next, first, Done) <=> Body(f)
    BY DEF PieceByPiece, Piece, Beyond
<1> HIDE DEF size, next, first, Done, Body
<1>0. Pieces(Text, Text, size, next, first, Done)
    BY <1>1, <1>2, <1>3, <1>4 DEF Pieces
<1>6. /\ \E f : Body(f)
      /\ \A f : Body(f) => f \in [Text -> Seq(Text)]
  <2>1. /\ \E f : PieceByPiece(f, Text, next, first, Done)
        /\ \A f : PieceByPiece(f, Text, next, first, Done)
                  => f \in [Text -> Seq(Text)]
      BY <1>0, RecursiveSequence, Zenon
  <2> QED
      BY <1>5, <2>1, Zenon
<1>7. Body(Parts)
  <2>1. Body(CHOOSE f : Body(f))
      BY <1>6, Zenon
  <2> QED
      BY <2>1 DEF Parts, Body
<1>8. \A t \in Text : Parts[t] = IF t = <<>> THEN <<>>
                                ELSE Chop[Piece(t)] \o Parts[Beyond(t)]
    BY <1>7 DEF Body, Piece, Beyond
<1> QED
    BY <1>1, <1>6, <1>7, <1>8

\* The end of the end of a text.
LEMMA SliceEnd ==
    ASSUME NEW S, NEW text \in Seq(S), NEW a \in Nat, a <= Len(text),
           NEW e \in Nat, e <= Len(text) - a
    PROVE  Slice(Slice(text, a, Len(text)), e, Len(text) - a)
               = Slice(text, a + e, Len(text))
<1>1. PICK d \in Nat : d = Len(text) - a
    OBVIOUS
<1>2. d \in e .. Len(text) - a /\ Len(text) \in a .. Len(text)
      /\ a + d = Len(text)
    BY <1>1
<1>4. \A b \in a .. Len(text) : \A c \in e .. b - a :
         Slice(Slice(text, a, b), e, c) = Slice(text, a + e, a + c)
    BY SliceOfSlice
<1>3. Slice(Slice(text, a, Len(text)), e, d) = Slice(text, a + e, a + d)
    BY <1>2, <1>4
<1> QED
    BY <1>1, <1>2, <1>3, Zenon

\* If the parts of all that comes later are tiles, so are those from here on.
LEMMA PartsStep ==
    ASSUME NEW text \in Text, NEW a \in Nat, a < Len(text),
           \A b \in Nat : a < b /\ b <= Len(text)
               => Tiled(Parts[Slice(text, b, Len(text))], text, b, Len(text))
    PROVE  Tiled(Parts[Slice(text, a, Len(text))], text, a, Len(text))
<1> DEFINE n == Len(text)
           rest == Slice(text, a, n)
<1>1. text \in Seq(Char) /\ n \in Nat /\ a < n
    BY DEF Text
<1>2. /\ rest \in Seq(Char) /\ Len(rest) = n - a
      /\ \A i \in 1 .. n - a : rest[i] = text[a + i]
  <2>1. n \in a .. Len(text)
      BY <1>1
  <2> QED
      BY <1>1, <2>1, SliceFacts, ZenonT(60)
<1> HIDE DEF rest
<1>3. rest \in Text /\ rest # <<>>
    BY <1>1, <1>2 DEF Text
<1>4. PICK e \in 1 .. Len(rest) : e = FirstEnd(rest) /\ Ends(rest, e)
    BY <1>3, FirstEndFacts
<1>5. e \in 1 .. n - a
    BY <1>2, <1>4
<1>6. /\ e \in Nat /\ a < a + e /\ a + e <= n /\ a + e \in Nat
      /\ a + e \in a .. n /\ n \in a + e .. n
    BY <1>1, <1>5
<1>7. Ends(text, a + e)
  <2> SUFFICES ASSUME a + e < n PROVE text[a + e + 1] \in Blanks
      BY DEF Ends
  <2>1. e < n - a /\ e + 1 \in 1 .. n - a /\ a + (e + 1) = a + e + 1
      BY <1>1, <1>6
  <2>2. rest[e + 1] \in Blanks
      BY <1>2, <1>4, <2>1 DEF Ends
  <2>3. rest[e + 1] = text[a + (e + 1)]
      BY <1>2, <2>1
  <2> QED
      BY <2>1, <2>2, <2>3, Zenon
<1>8. /\ Piece(rest) = Strip(Slice(text, a, a + e))
      /\ Beyond(rest) = Slice(text, a + e, n)
  <2>1. Slice(rest, 0, e) = Slice(text, a, a + e)
    <3>1. 0 \in Nat /\ e \in 0 .. n - a /\ n \in a .. Len(text) /\ a + 0 = a
        BY <1>1, <1>6
    <3> QED
        BY <1>1, <3>1, SliceOfSlice DEF rest
  <2>2. Slice(rest, e, n - a) = Slice(text, a + e, n)
    <3>1. a <= Len(text) /\ e <= Len(text) - a
        BY <1>1, <1>6
    <3> QED
        BY <1>1, <1>6, <3>1, SliceEnd DEF rest
  <2> QED
      BY <1>2, <1>3, <1>4, <2>1, <2>2, PieceSlices
<1>9. PICK p \in a .. a + e : \E q \in p .. a + e :
         /\ Strip(Slice(text, a, a + e)) = Slice(text, p, q)
         /\ Blank(text, a, p) /\ Blank(text, q, a + e)
         /\ p < q => text[p + 1] \notin Blanks /\ text[q] \notin Blanks
    BY <1>6, StripSlice, Zenon
<1>10. PICK q \in p .. a + e :
         /\ Strip(Slice(text, a, a + e)) = Slice(text, p, q)
         /\ Blank(text, a, p) /\ Blank(text, q, a + e)
         /\ p < q => text[p + 1] \notin Blanks /\ text[q] \notin Blanks
    BY <1>9
<1>11. /\ p \in Nat /\ q \in Nat /\ a <= p /\ p <= q /\ q <= a + e /\ q <= n
       /\ a <= q
    BY <1>6
<1>12. Tiled(Chop[Piece(rest)], text, p, q)
  <2>1. Ends(text, q)
    <3>1. CASE q < a + e
        BY <1>6, <1>10, <1>11, <3>1 DEF Ends, Blank
    <3>2. CASE q = a + e
        BY <1>7, <3>2
    <3> QED
        BY <1>6, <1>11, <3>1, <3>2
  <2> QED
      BY <1>8, <1>10, <1>11, <2>1, ChopTiled
<1>13. Tiled(<<>>, text, a, p) /\ Tiled(<<>>, text, q, a + e)
    BY <1>6, <1>10, <1>11, TiledNone
<1>14. Tiled(Parts[Beyond(rest)], text, a + e, n)
    BY <1>6, <1>8
<1>15. /\ Chop[Piece(rest)] \in Seq(Text) /\ <<>> \in Seq(Text)
       /\ Parts[Beyond(rest)] \in Seq(Text)
       /\ Parts[rest] = Chop[Piece(rest)] \o Parts[Beyond(rest)]
  <2>1. Piece(rest) \in Text /\ Beyond(rest) \in Text
      BY <1>3, BeyondIsShorter
  <2>2. Chop[Piece(rest)] \in Seq(Text) /\ Parts[Beyond(rest)] \in Seq(Text)
      BY <2>1, ChopFacts, PartsFacts
  <2>3. Parts[rest] = Chop[Piece(rest)] \o Parts[Beyond(rest)]
      BY <1>3, PartsFacts, Zenon
  <2> QED
      BY <2>2, <2>3
<1>16. Tiled(<<>> \o Chop[Piece(rest)], text, a, q)
    BY <1>11, <1>12, <1>13, <1>15, TiledJoin
<1>17. <<>> \o Chop[Piece(rest)] = Chop[Piece(rest)]
    BY <1>15, ConcatEmptySeq
<1>18. Tiled(Chop[Piece(rest)] \o <<>>, text, a, a + e)
    BY <1>6, <1>11, <1>13, <1>15, <1>16, <1>17, TiledJoin
<1>19. Chop[Piece(rest)] \o <<>> = Chop[Piece(rest)]
    BY <1>15, ConcatEmptySeq
<1>20. a <= a + e
    BY <1>6
<1>21. Tiled(Chop[Piece(rest)] \o Parts[Beyond(rest)], text, a, n)
    BY <1>1, <1>6, <1>14, <1>15, <1>18, <1>19, <1>20, TiledJoin
<1> QED
    BY <1>15, <1>21 DEF rest

\* The parts of what is left of a text are its tiles.
LEMMA PartsTiledFrom ==
    ASSUME NEW text \in Text, NEW a \in Nat, a <= Len(text)
    PROVE  Tiled(Parts[Slice(text, a, Len(text))], text, a, Len(text))
<1> DEFINE Good(x) == Tiled(Parts[Slice(text, x, Len(text))], text, x, Len(text))
           T == {k \in Nat : \A x \in Nat : x + k = Len(text) => Good(x)}
<1>0. Len(text) \in Nat
    BY DEF Text
<1>1. ASSUME NEW k \in Nat, \A m \in Nat : m < k => m \in T
      PROVE  k \in T
  <2> SUFFICES ASSUME NEW x \in Nat, x + k = Len(text) PROVE Good(x)
      OBVIOUS
  <2>1. CASE k = 0
    <3>1. x = Len(text)
        BY <1>0, <2>1
    <3>2. Parts[Slice(text, x, Len(text))] = <<>>
        BY <3>1, SliceNone, PartsFacts
    <3>3. Blank(text, x, Len(text))
        BY <1>0, <3>1 DEF Blank
    <3> QED
        BY <1>0, <3>1, <3>2, <3>3, TiledNone
  <2>2. CASE k # 0
    <3>1. \A b \in Nat : x < b /\ b <= Len(text) => Good(b)
      <4> SUFFICES ASSUME NEW b \in Nat, x < b, b <= Len(text) PROVE Good(b)
          OBVIOUS
      <4>1. Len(text) - b \in Nat /\ Len(text) - b < k /\ b + (Len(text) - b) = Len(text)
          BY <1>0
      <4>2. Len(text) - b \in T
          BY <1>1, <4>1
      <4> HIDE DEF Good
      <4> QED
          BY <4>1, <4>2
    <3>2. x < Len(text)
        BY <2>2
    <3> QED
        BY <3>1, <3>2, PartsStep
  <2> QED
      BY <2>1, <2>2
<1> HIDE DEF T
<1>2. Nat \subseteq T
    BY <1>1, StrongInduction, Zenon
<1>3. Len(text) - a \in Nat /\ a + (Len(text) - a) = Len(text)
    BY <1>0
<1>4. Len(text) - a \in T
    BY <1>2, <1>3
<1>5. Good(a)
  <2> HIDE DEF Good
  <2> QED
      BY <1>3, <1>4 DEF T
<1> QED
    BY <1>5

\* The parts of a text are its tiles.
LEMMA PartsTiled ==
    ASSUME NEW text \in Text
    PROVE  Tiled(Parts[text], text, 0, Len(text))
<1>1. text \in Seq(Char) /\ Len(text) \in Nat /\ 0 \in Nat /\ 0 <= Len(text)
    BY DEF Text
<1>2. Slice(text, 0, Len(text)) = text
    BY <1>1, SliceAll
<1> QED
    BY <1>1, <1>2, PartsTiledFrom

----------------------------------------------------------------------------
(* _split_stream: the places of the parts                                  *)

\* Where the k-th part ends if the one before it ends at e.
EndAfter(text, k, e) ==
    LET place == Find(text, Parts[text][k], e + 1) IN
    IF place = 0 THEN e + Len(Parts[text][k])
                 ELSE place + Len(Parts[text][k]) - 1

\* str.find returns a number.
LEMMA FindIsNat ==
    ASSUME NEW text \in Text, NEW part \in Text, NEW a \in Nat
    PROVE  Find(text, part, a) \in Nat
<1>1. Len(text) \in Nat /\ Len(part) \in Nat
    BY DEF Text
<1> DEFINE found == {i \in a .. Len(text) - Len(part) + 1 :
                        Within(text, i, i + Len(part) - 1) = part}
<1>2. Find(text, part, a) = IF found = {} THEN 0 ELSE Min(found)
    BY DEF Find
<1>3. found \subseteq a .. Len(text) - Len(part) + 1
    OBVIOUS
<1> HIDE DEF found
<1>4. \A i \in a .. Len(text) - Len(part) + 1 : i \in Nat
    BY <1>1
<1>5. found # {} => Min(found) \in Nat
    BY <1>3, <1>4, MinFacts
<1> QED
    BY <1>2, <1>5

\* PartEnds is defined for every text.
LEMMA PartEndsFacts ==
    ASSUME NEW text \in Text
    PROVE  /\ PartEnds(text) \in [0 .. Len(Parts[text]) -> Nat]
           /\ PartEnds(text)[0] = 0
           /\ \A k \in 1 .. Len(Parts[text]) :
                 PartEnds(text)[k] = EndAfter(text, k, PartEnds(text)[k - 1])
<1> DEFINE parts == Parts[text]
           S == 0 .. Len(parts)
           size == [k \in S |-> k]
           next == [k \in S |-> IF k = 0 THEN 0 ELSE k - 1]
           base == [k \in S |-> 0]
           comb == [p \in S \X Nat |-> IF p[1] = 0 THEN 0
                                       ELSE EndAfter(text, p[1], p[2])]
           Done == {0}
           Body(f) == f = [k \in 0 .. Len(parts) |->
               IF k = 0 THEN 0
               ELSE LET place == Find(text, parts[k], f[k - 1] + 1) IN
                    IF place = 0 THEN f[k - 1] + Len(parts[k])
                                 ELSE place + Len(parts[k]) - 1]
<1>1. parts \in Seq(Text) /\ Len(parts) \in Nat
    BY PartsFacts
<1>2. \A k \in 1 .. Len(parts), e \in Nat : EndAfter(text, k, e) \in Nat
  <2> TAKE k \in 1 .. Len(parts), e \in Nat
  <2>1. parts[k] \in Text /\ Len(parts[k]) \in Nat
      BY <1>1 DEF Text
  <2>0. e + 1 \in Nat
      OBVIOUS
  <2>2. PICK place \in Nat : place = Find(text, parts[k], e + 1)
      BY <2>0, <2>1, FindIsNat
  <2> HIDE DEF parts
  <2>3. EndAfter(text, k, e) = IF place = 0 THEN e + Len(parts[k])
                               ELSE place + Len(parts[k]) - 1
      BY <2>2 DEF EndAfter, parts
  <2> QED
      BY <2>1, <2>3
<1>3. \A f : Body(f) <=>
          f = [k \in S |-> IF k = 0 THEN 0 ELSE EndAfter(text, k, f[k - 1])]
    BY DEF EndAfter
<1>4. Body(CHOOSE f : Body(f)) => Body(PartEnds(text))
    BY DEF PartEnds
<1> HIDE DEF parts, Body
<1>5. Recursion(S, Nat, size, next, base, comb, Done)
  <2>1. comb \in [S \X Nat -> Nat]
      BY <1>1, <1>2
  <2>2. size \in [S -> Nat] /\ next \in [S -> S] /\ base \in [S -> Nat]
      BY <1>1
  <2>3. \A k \in S : k \notin Done => size[next[k]] < size[k]
      BY <1>1
  <2> HIDE DEF size, next, base, comb, Done, S
  <2> QED
      BY <2>1, <2>2, <2>3 DEF Recursion
<1>6. \A f : f \in [S -> Nat] /\ Solves(f, S, Nat, next, base, comb, Done) => Body(f)
  <2> SUFFICES ASSUME NEW f, f \in [S -> Nat],
                      Solves(f, S, Nat, next, base, comb, Done)
               PROVE  Body(f)
      OBVIOUS
  <2>1. ASSUME NEW k \in S
        PROVE  f[k] = IF k = 0 THEN 0 ELSE EndAfter(text, k, f[k - 1])
    <3>1. CASE k = 0
        BY <3>1 DEF Solves
    <3>2. CASE k # 0
      <4>1. k - 1 \in S /\ next[k] = k - 1 /\ k \notin Done
          BY <1>1, <3>2
      <4>2. f[k - 1] \in Nat
          BY <4>1
      <4>3. comb[<<k, f[k - 1]>>] = EndAfter(text, k, f[k - 1])
          BY <3>2, <4>2
      <4> HIDE DEF comb, next, Done, S
      <4>4. f[k] = comb[<<k, f[next[k]]>>]
          BY <4>1, <4>2 DEF Solves
      <4> QED
          BY <3>2, <4>1, <4>3, <4>4
    <3> QED
        BY <3>1, <3>2
  <2>2. f = [k \in S |-> IF k = 0 THEN 0 ELSE EndAfter(text, k, f[k - 1])]
    <3> HIDE DEF S
    <3> QED
        BY <2>1
  <2> QED
      BY <1>3, <2>2
<1>7. \A f : Body(f) => f \in [S -> Nat]
  <2> SUFFICES ASSUME NEW f, Body(f) PROVE f \in [S -> Nat]
      OBVIOUS
  <2>1. f = [k \in S |-> IF k = 0 THEN 0 ELSE EndAfter(text, k, f[k - 1])]
      BY <1>3
  <2>2. Solves(f, S, Nat, next, base, comb, Done)
    <3>1. f = [k \in S |-> f[k]]
        BY <2>1
    <3>2. ASSUME NEW k \in S
          PROVE  /\ k \in Done => f[k] = base[k]
                 /\ k \notin Done /\ f[next[k]] \in Nat => f[k] = comb[<<k, f[next[k]]>>]
        BY <2>1, <3>2
    <3> HIDE DEF size, next, base, comb, Done, S
    <3> QED
        BY <3>1, <3>2 DEF Solves
  <2> HIDE DEF size, next, base, comb, Done, S
  <2> QED
      BY <1>5, <2>2, RecursiveFunction, Zenon
<1> HIDE DEF size, next, base, comb, Done
<1>8. \E f : Body(f)
  <2> HIDE DEF S
  <2>1. /\ \E f : f \in [S -> Nat] /\ Solves(f, S, Nat, next, base, comb, Done)
        /\ \A f : Solves(f, S, Nat, next, base, comb, Done) => f \in [S -> Nat]
      BY <1>5, RecursiveFunction, Zenon
  <2> QED
      BY <1>6, <2>1, Zenon
<1>9. Body(PartEnds(text))
  <2>1. Body(CHOOSE f : Body(f))
      BY <1>8, Zenon
  <2> QED
      BY <1>4, <2>1
<1>10. PartEnds(text) \in [S -> Nat]
    BY <1>7, <1>9
<1>11. PartEnds(text) = [k \in S |-> IF k = 0 THEN 0
                                 ELSE EndAfter(text, k, PartEnds(text)[k - 1])]
    BY <1>3, <1>9
<1>12. 0 \in S /\ \A k \in 1 .. Len(parts) : k \in S /\ k # 0
    BY <1>1
<1>13. /\ PartEnds(text)[0] = 0
       /\ \A k \in 1 .. Len(parts) :
              PartEnds(text)[k] = EndAfter(text, k, PartEnds(text)[k - 1])
  <2> DEFINE e == PartEnds(text)
  <2> HIDE DEF e, S
  <2>1. e = [k \in S |-> IF k = 0 THEN 0 ELSE EndAfter(text, k, e[k - 1])]
      BY <1>11 DEF e
  <2>2. \A k \in S : e[k] = IF k = 0 THEN 0 ELSE EndAfter(text, k, e[k - 1])
      BY <2>1
  <2> QED
      BY <1>12, <2>2 DEF e
<1> QED
    BY <1>10, <1>13 DEF parts

\* Nothing is left of blanks that are stripped.
LEMMA BlankStrips ==
    ASSUME NEW text \in Text, NEW a \in Nat, NEW b \in Nat, a <= b, b <= Len(text),
           Blank(text, a, b)
    PROVE  Strip(Within(text, a + 1, b)) = <<>>
<1>0. text \in Seq(Char) /\ Len(text) \in Nat /\ b \in a .. Len(text)
    BY DEF Text
<1>1. PICK p \in a .. b : \E q \in p .. b :
         /\ Strip(Slice(text, a, b)) = Slice(text, p, q)
         /\ Blank(text, a, p) /\ Blank(text, q, b)
         /\ p < q => text[p + 1] \notin Blanks /\ text[q] \notin Blanks
    BY <1>0, StripSlice, Zenon
<1>2. PICK q \in p .. b :
         /\ Strip(Slice(text, a, b)) = Slice(text, p, q)
         /\ p < q => text[p + 1] \notin Blanks /\ text[q] \notin Blanks
    BY <1>1
<1>3. p = q
    BY <1>2 DEF Blank
<1>4. Slice(text, p, q) = <<>>
    BY <1>3, SliceNone
<1>5. Within(text, a + 1, b) = Slice(text, a, b)
    BY <1>0, WithinFacts
<1> QED
    BY <1>2, <1>4, <1>5

\* A tile is found where it is: what comes before it is blank.
LEMMA FindTile ==
    ASSUME NEW text \in Text, NEW part, NEW a \in Nat, NEW b \in Nat,
           Tile(part, text, a, b)
    PROVE  /\ part # <<>> /\ Len(part) \in Nat /\ Len(part) <= b - a
           /\ Find(text, part, a + 1) = b - Len(part) + 1
           /\ LiesIn(part, text, a, b)
<1>1. text \in Seq(Char) /\ Len(text) \in Nat
    BY DEF Text
<1>2. PICK p \in a .. b :
         /\ p < b /\ b <= Len(text)
         /\ part = Slice(text, p, b)
         /\ Blank(text, a, p)
         /\ text[p + 1] \notin Blanks
    BY DEF Tile
<1>3. p \in Nat /\ b \in p .. Len(text) /\ 1 \in 1 .. b - p /\ a <= p
    BY <1>1, <1>2
<1>4. Len(part) = b - p /\ part[1] = text[p + 1]
    BY <1>1, <1>2, <1>3, SliceFacts, ZenonT(60)
<1>5. part # <<>>
  <2>1. Len(<<>>) = 0 /\ b - p # 0
      BY <1>2, <1>3
  <2> QED
      BY <1>4, <2>1
<1> DEFINE L == b - p
<1>6. /\ L \in Nat /\ L > 0 /\ b - L + 1 = p + 1 /\ p + 1 + L - 1 = b
      /\ p + 1 - 1 = p /\ L <= b - a
      /\ p + 1 \in a + 1 .. Len(text) - L + 1
    BY <1>1, <1>2, <1>3
<1>7. Within(text, p + 1, b) = part
    BY <1>1, <1>2, <1>3, WithinFacts
<1> DEFINE found == {i \in a + 1 .. Len(text) - L + 1 :
                        Within(text, i, i + L - 1) = part}
<1>8. p + 1 \in found
    BY <1>6, <1>7
<1>9. ASSUME NEW i \in found PROVE p + 1 <= i
  <2>1. i \in a + 1 .. Len(text) - L + 1 /\ Within(text, i, i + L - 1) = part
      OBVIOUS
  <2> HIDE DEF found
  <2>2. PICK j \in Nat : i = j + 1
    <3>1. i - 1 \in Nat /\ i = (i - 1) + 1
        BY <1>6, <2>1
    <3> QED
        BY <3>1
  <2>0. PICK e \in Nat : e = j + L
      BY <1>6, <2>2
  <2>3. /\ j >= a /\ e <= Len(text) /\ i + L - 1 = e
        /\ e \in j .. Len(text) /\ 1 \in 1 .. e - j
      BY <1>1, <1>6, <2>0, <2>1, <2>2
  <2> HIDE DEF L
  <2>4. Within(text, j + 1, e) = Slice(text, j, e)
      BY <1>1, <2>3, WithinFacts
  <2>5. Slice(text, j, e)[1] = text[j + 1]
      BY <1>1, <2>3, SliceFacts
  <2>6. text[j + 1] = text[p + 1]
      BY <1>4, <2>1, <2>2, <2>3, <2>4, <2>5
  <2>7. ~(j + 1 <= p)
      BY <1>2, <1>3, <2>3, <2>6 DEF Blank
  <2> QED
      BY <1>3, <2>2, <2>7
<1>10. Find(text, part, a + 1) = IF found = {} THEN 0 ELSE Min(found)
    BY <1>4 DEF Find
<1>11. Min(found) = p + 1
  <2>1. found \subseteq Nat
      BY <1>6
  <2> HIDE DEF found
  <2>2. Min(found) \in found /\ \A y \in found : Min(found) <= y
      BY <1>8, <2>1, MinFacts, Zenon
  <2>3. PICK m \in Nat : m = Min(found)
      BY <2>1, <2>2
  <2>4. m <= p + 1 /\ p + 1 <= m
      BY <1>8, <1>9, <2>2, <2>3
  <2> QED
      BY <1>3, <2>3, <2>4
<1>12. Find(text, part, a + 1) = p + 1
  <2> HIDE DEF found
  <2> QED
      BY <1>8, <1>10, <1>11
<1>13. Strip(Within(text, a + 1, p)) = <<>>
  <2>1. p <= Len(text)
      BY <1>1, <1>3
  <2> QED
      BY <1>2, <1>3, <2>1, BlankStrips
<1> HIDE DEF found, L
<1>14. b - Len(part) + 1 = p + 1 /\ b - Len(part) = p
    BY <1>3, <1>4
<1> QED
    BY <1>4, <1>5, <1>6, <1>7, <1>12, <1>13, <1>14 DEF L, LiesIn

\* PartEnds is where the tiles end.
LEMMA PartEndsTile ==
    ASSUME NEW text \in Text
    PROVE  Tiling(PartEnds(text), Parts[text], text, 0, Len(text))
<1> DEFINE parts == Parts[text]
           n == Len(parts)
           found == PartEnds(text)
<1>1. parts \in Seq(Text) /\ n \in Nat /\ Len(text) \in Nat
    BY PartsFacts DEF Text
<1>2. /\ found \in [0 .. n -> Nat]
      /\ found[0] = 0
      /\ \A k \in 1 .. n : found[k] = EndAfter(text, k, found[k - 1])
    BY PartEndsFacts
<1>3. PICK end : Tiling(end, parts, text, 0, Len(text))
    BY PartsTiled DEF Tiled
<1>4. /\ end \in [0 .. n -> 0 .. Len(text)]
      /\ end[0] = 0
      /\ \A k \in 1 .. n : Tile(parts[k], text, end[k - 1], end[k])
    BY <1>3 DEF Tiling
<1> DEFINE T == {k \in Nat : k <= n => found[k] = end[k]}
<1> HIDE DEF parts, n, found
<1>5. ASSUME NEW k \in Nat, \A m \in Nat : m < k => m \in T
      PROVE  k \in T
  <2>1. CASE k = 0
      BY <1>2, <1>4, <2>1
  <2>2. CASE k # 0 /\ k <= n
    <3>1. k - 1 \in Nat /\ k - 1 < k /\ k - 1 <= n /\ k \in 1 .. n
          /\ k - 1 \in 0 .. n /\ k \in 0 .. n
        BY <1>1, <2>2
    <3>2. found[k - 1] = end[k - 1]
        BY <1>5, <3>1
    <3>3. PICK a \in Nat : a = end[k - 1]
        BY <1>1, <1>4, <3>1
    <3>4. PICK b \in Nat : b = end[k]
        BY <1>1, <1>4, <3>1
    <3>0. PICK part : part = parts[k]
        OBVIOUS
    <3>5. Tile(part, text, a, b)
        BY <1>4, <3>0, <3>1, <3>3, <3>4
    <3>6. /\ Len(part) \in Nat /\ Len(part) <= b - a
          /\ Find(text, part, a + 1) = b - Len(part) + 1
        BY <3>5, FindTile
    <3>7. EndAfter(text, k, a) = IF b - Len(part) + 1 = 0 THEN a + Len(part)
                                 ELSE b - Len(part) + 1 + Len(part) - 1
        BY <3>0, <3>6 DEF EndAfter, parts
    <3>8. EndAfter(text, k, a) = b
      <4>1. PICK l \in Nat : l = Len(part) /\ l <= b - a
          BY <3>6
      <4>2. b - l + 1 # 0 /\ b - l + 1 + l - 1 = b
          BY <4>1
      <4> QED
          BY <3>7, <4>1, <4>2
    <3> QED
        BY <1>2, <3>1, <3>2, <3>3, <3>4, <3>8
  <2> QED
      BY <2>1, <2>2
<1> HIDE DEF T
<1>6. Nat \subseteq T
    BY <1>5, StrongInduction, Zenon
<1>7. \A k \in 0 .. n : found[k] = end[k]
  <2>1. \A k \in 0 .. n : k \in T /\ k <= n
      BY <1>1, <1>6
  <2> QED
      BY <2>1 DEF T
<1>8. found = end
  <2>1. \A k \in 0 .. n : end[k] = found[k]
      BY <1>7
  <2>2. /\ found = [k \in 0 .. n |-> found[k]]
        /\ end = [k \in 0 .. n |-> end[k]]
      BY <1>2, <1>4
  <2> QED
      BY <1>7, <2>2
<1> QED
    BY <1>3, <1>8 DEF parts, found

\* The places are exact, for any text.
LEMMA PlacesOfAnyText == \A text \in Text : PlacesExact(text)
<1> SUFFICES ASSUME NEW text \in Text PROVE PlacesExact(text)
    OBVIOUS
<1> DEFINE tiles == Parts[text]
           n == Len(tiles)
           ends == PartEnds(text)
<1>1. tiles \in Seq(Text) /\ n \in Nat /\ Len(text) \in Nat /\ DOMAIN tiles = 1 .. n
    BY PartsFacts DEF Text
<1>2. /\ ends \in [0 .. n -> 0 .. Len(text)]
      /\ \A k \in 1 .. n : Tile(tiles[k], text, ends[k - 1], ends[k])
      /\ Blank(text, ends[n], Len(text))
    BY PartEndsTile DEF Tiling
<1> HIDE DEF tiles, n, ends
<1>3. ASSUME NEW k \in DOMAIN tiles
      PROVE  LiesIn(tiles[k], text, ends[k - 1], ends[k])
  <2>1. k \in 1 .. n /\ k \in 0 .. n /\ k - 1 \in 0 .. n
      BY <1>1
  <2>2. PICK a \in Nat : a = ends[k - 1]
      BY <1>1, <1>2, <2>1
  <2>3. PICK b \in Nat : b = ends[k]
      BY <1>1, <1>2, <2>1
  <2>4. PICK part : part = tiles[k]
      OBVIOUS
  <2>5. Tile(part, text, a, b)
      BY <1>2, <2>1, <2>2, <2>3, <2>4
  <2>6. LiesIn(part, text, a, b)
      BY <2>5, FindTile
  <2> QED
      BY <2>2, <2>3, <2>4, <2>6, Zenon
<1>4. Strip(Within(text, ends[n] + 1, Len(text))) = <<>>
  <2>1. PICK a \in Nat : a = ends[n] /\ a <= Len(text)
      BY <1>1, <1>2
  <2>2. Len(text) <= Len(text) /\ Blank(text, a, Len(text))
      BY <1>1, <1>2, <2>1
  <2>3. Strip(Within(text, a + 1, Len(text))) = <<>>
      BY <1>1, <2>1, <2>2, BlankStrips
  <2> QED
      BY <2>1, <2>3, Zenon
<1> QED
    BY <1>3, <1>4 DEF PlacesExact, tiles, n, ends

----------------------------------------------------------------------------
(* Letters: of texts that are put together                                 *)

\* latin_to_cyrillic reads on.
LEMMA UntakenIsShorter ==
    ASSUME NEW text \in Text, text # <<>>
    PROVE  Untaken(text) \in Text /\ Len(Untaken(text)) < Len(text)
<1> DEFINE rest == Tail(text)
<1>1. rest \in Seq(Char) /\ Len(rest) = Len(text) - 1 /\ Len(text) \in Nat
    BY DEF Text
<1> HIDE DEF rest
<1>2. Len(text) > 1 => Tail(rest) \in Seq(Char) /\ Len(Tail(rest)) = Len(text) - 2
    BY <1>1
<1> QED
    BY <1>1, <1>2 DEF Untaken, Digraph, Text, rest

\* Letters is defined for every text.
LEMMA LettersFacts ==
    /\ Letters \in [Text -> Seq(Cyrillic)]
    /\ Letters[<<>>] = <<>>
    /\ \A text \in Text : text # <<>> =>
           Letters[text] = Sound(text) \o Letters[Untaken(text)]
<1> DEFINE size == [t \in Text |-> Len(t)]
           next == [t \in Text |-> IF t = <<>> THEN t ELSE Untaken(t)]
           first == [t \in Text |-> Sound(t)]
           Done == {<<>>}
           Body(f) == f = [text \in Text |->
                              IF text = <<>> THEN <<>>
                              ELSE Sound(text) \o f[Untaken(text)]]
<1>1. size \in [Text -> Nat] /\ <<>> \in Text
    BY DEF Text
<1>2. next \in [Text -> Text]
    BY UntakenIsShorter
<1>3. first \in [Text -> Seq(Cyrillic)]
    BY DEF Sound
<1>4. \A t \in Text : t \notin Done => size[next[t]] < size[t]
    BY UntakenIsShorter
<1>5. \A f : PieceByPiece(f, Text, next, first, Done) <=> Body(f)
    BY DEF PieceByPiece
<1> HIDE DEF size, next, first, Done, Body
<1>0. Pieces(Text, Cyrillic, size, next, first, Done)
    BY <1>1, <1>2, <1>3, <1>4 DEF Pieces
<1>6. /\ \E f : Body(f)
      /\ \A f : Body(f) => f \in [Text -> Seq(Cyrillic)]
  <2>1. /\ \E f : PieceByPiece(f, Text, next, first, Done)
        /\ \A f : PieceByPiece(f, Text, next, first, Done)
                  => f \in [Text -> Seq(Cyrillic)]
      BY <1>0, RecursiveSequence, Zenon
  <2> QED
      BY <1>5, <2>1, Zenon
<1>7. Body(Letters)
  <2>1. Body(CHOOSE f : Body(f))
      BY <1>6, Zenon
  <2> QED
      BY <2>1 DEF Letters, Body
<1>8. \A t \in Text : Letters[t] = IF t = <<>> THEN <<>>
                                   ELSE Sound(t) \o Letters[Untaken(t)]
    BY <1>7 DEF Body
<1> QED
    BY <1>1, <1>6, <1>7, <1>8

\* No digraph is torn apart between the two.
Parted(a, b) == a = <<>> \/ b = <<>> \/ a[Len(a)] # "s" \/ b[1] # "h"

\* The tail of a sequence.
LEMMA TailFacts ==
    ASSUME NEW S, NEW s \in Seq(S), s # <<>>
    PROVE  /\ Len(s) \in Nat /\ Len(s) >= 1 /\ Len(Tail(s)) \in Nat
           /\ Tail(s) \in Seq(S) /\ Len(Tail(s)) = Len(s) - 1
           /\ \A i \in 1 .. Len(s) - 1 : Tail(s)[i] = s[i + 1]
<1>1. Len(s) \in Nat /\ Len(s) >= 1
    BY EmptySeq
<1>2. /\ Tail(s) \in Seq(S) /\ Len(Tail(s)) = Len(s) - 1
      /\ \A i \in 1 .. Len(Tail(s)) : Tail(s)[i] = s[i + 1]
    BY HeadTailProperties
<1> QED
    BY <1>1, <1>2

\* The tail of two sequences, one after the other.
LEMMA TailConcat ==
    ASSUME NEW S, NEW a \in Seq(S), NEW b \in Seq(S), a # <<>>
    PROVE  Tail(a \o b) = Tail(a) \o b
<1> DEFINE u == a \o b
           v == Tail(a)
           x == Tail(u)
           y == v \o b
<1>1. /\ u \in Seq(S) /\ Len(u) = Len(a) + Len(b)
      /\ \A i \in 1 .. Len(a) + Len(b) :
            u[i] = IF i <= Len(a) THEN a[i] ELSE b[i - Len(a)]
    BY ConcatProperties
<1>2. /\ Len(a) \in Nat /\ Len(a) >= 1 /\ v \in Seq(S) /\ Len(v) = Len(a) - 1
      /\ \A i \in 1 .. Len(a) - 1 : v[i] = a[i + 1]
    BY TailFacts
<1>3. Len(b) \in Nat
    OBVIOUS
<1> HIDE DEF u, v
<1>4. u # <<>>
    BY <1>1, <1>2, <1>3, EmptySeq
<1>5. /\ x \in Seq(S) /\ Len(x) = Len(u) - 1
      /\ \A i \in 1 .. Len(u) - 1 : x[i] = u[i + 1]
    BY <1>1, <1>4, TailFacts
<1>6. /\ y \in Seq(S) /\ Len(y) = Len(v) + Len(b)
      /\ \A i \in 1 .. Len(v) + Len(b) :
            y[i] = IF i <= Len(v) THEN v[i] ELSE b[i - Len(v)]
    BY <1>2, ConcatProperties
<1> HIDE DEF x, y
<1>7. Len(x) = Len(y)
    BY <1>1, <1>2, <1>3, <1>5, <1>6
<1>8. ASSUME NEW i \in 1 .. Len(x) PROVE x[i] = y[i]
  <2>0. PICK m \in Nat : m = Len(a) /\ m >= 1
      BY <1>2
  <2>1. PICK n \in Nat : n = Len(b)
      BY <1>3
  <2>2. i \in 1 .. m + n - 1
      BY <1>1, <1>5, <2>0, <2>1
  <2>3. /\ i \in 1 .. Len(u) - 1 /\ i + 1 \in 1 .. Len(a) + Len(b)
        /\ i \in 1 .. Len(v) + Len(b)
      BY <1>1, <1>2, <2>0, <2>1, <2>2
  <2>4. x[i] = IF i + 1 <= m THEN a[i + 1] ELSE b[i + 1 - m]
      BY <1>1, <1>5, <2>0, <2>3
  <2>5. y[i] = IF i <= m - 1 THEN v[i] ELSE b[i - (m - 1)]
      BY <1>2, <1>6, <2>0, <2>3
  <2>6. i + 1 - m = i - (m - 1) /\ (i + 1 <= m <=> i <= m - 1)
      BY <2>0, <2>2
  <2>7. i <= m - 1 => v[i] = a[i + 1]
      BY <1>2, <2>0, <2>2
  <2> QED
      BY <2>4, <2>5, <2>6, <2>7
<1>9. x = y
    BY <1>5, <1>6, <1>7, <1>8, SeqEqual
<1> QED
    BY <1>9 DEF x, y, u, v

\* What two sequences, one after the other, begin with.
LEMMA ConcatEnds ==
    ASSUME NEW S, NEW a \in Seq(S), NEW b \in Seq(S), a # <<>>
    PROVE  /\ (a \o b)[1] = a[1]
           /\ Len(a) > 1 => (a \o b)[2] = a[2]
           /\ Len(a) = 1 /\ b # <<>> => (a \o b)[2] = b[1]
           /\ Len(a \o b) = Len(a) + Len(b) /\ a \o b # <<>>
<1> DEFINE u == a \o b
<1>1. /\ u \in Seq(S) /\ Len(u) = Len(a) + Len(b)
      /\ \A i \in 1 .. Len(a) + Len(b) :
            u[i] = IF i <= Len(a) THEN a[i] ELSE b[i - Len(a)]
    BY ConcatProperties
<1> HIDE DEF u
<1>2. /\ Len(a) \in Nat /\ Len(a) >= 1 /\ Len(b) \in Nat
      /\ b # <<>> => Len(b) >= 1
    BY EmptySeq
<1>3. u[1] = a[1]
    BY <1>1, <1>2
<1>4. Len(a) > 1 => u[2] = a[2]
    BY <1>1, <1>2
<1>5. Len(a) = 1 /\ b # <<>> => u[2] = b[1]
  <2>1. Len(a) = 1 /\ b # <<>> => 2 \in 1 .. Len(a) + Len(b) /\ ~(2 <= Len(a)) /\ 2 - Len(a) = 1
      BY <1>2
  <2> QED
      BY <1>1, <2>1
<1>6. u # <<>>
    BY <1>1, <1>2, EmptySeq
<1> QED
    BY <1>1, <1>3, <1>4, <1>5, <1>6 DEF u

\* What is read first does not depend on what is behind.
LEMMA UntakenConcat ==
    ASSUME NEW a \in Text, NEW b \in Text, a # <<>>, Parted(a, b)
    PROVE  /\ Sound(a \o b) = Sound(a)
           /\ Untaken(a \o b) = Untaken(a) \o b
           /\ Parted(Untaken(a), b)
<1>1. a \in Seq(Char) /\ b \in Seq(Char) /\ Len(b) \in Nat
      /\ (b # <<>> => Len(b) >= 1) /\ Len(<<>>) = 0
    BY EmptySeq DEF Text
<1>2. /\ (a \o b)[1] = a[1]
      /\ Len(a) > 1 => (a \o b)[2] = a[2]
      /\ Len(a) = 1 /\ b # <<>> => (a \o b)[2] = b[1]
      /\ Len(a \o b) = Len(a) + Len(b)
    BY <1>1, ConcatEnds
<1>3. /\ Len(a) \in Nat /\ Len(a) >= 1
      /\ Tail(a) \in Seq(Char) /\ Len(Tail(a)) = Len(a) - 1
      /\ \A i \in 1 .. Len(a) - 1 : Tail(a)[i] = a[i + 1]
    BY <1>1, TailFacts
<1>4. Digraph(a \o b) <=> Digraph(a)
  <2>1. CASE Len(a) > 1
      BY <1>1, <1>2, <2>1 DEF Digraph
  <2>2. CASE Len(a) = 1
    <3>1. CASE b = <<>>
        BY <1>1, <1>2, <2>2, <3>1 DEF Digraph
    <3>2. CASE b # <<>>
        BY <1>1, <1>2, <2>2, <3>2 DEF Digraph, Parted
    <3> QED
        BY <3>1, <3>2
  <2> QED
      BY <1>3, <2>1, <2>2
<1>5. Sound(a \o b) = Sound(a)
    BY <1>2, <1>4 DEF Sound, Transliterated
<1>6. Tail(a \o b) = Tail(a) \o b
    BY <1>1, TailConcat
<1>7. Len(a) > 1 => Tail(a) # <<>>
  <2>1. Tail(a) = <<>> => Len(Tail(a)) = 0
      BY <1>1, Zenon
  <2>2. Len(a) > 1 => Len(Tail(a)) # 0
      BY <1>3
  <2> QED
      BY <2>1, <2>2, Zenon
<1>8. Len(a) > 1 => Tail(Tail(a) \o b) = Tail(Tail(a)) \o b
    BY <1>1, <1>3, <1>7, TailConcat
<1>9. Digraph(a) => Len(a) > 1
    BY DEF Digraph
<1>10. Untaken(a \o b) = Untaken(a) \o b
    BY <1>4, <1>6, <1>8, <1>9 DEF Untaken
<1>11. Parted(Tail(a), b)
  <2> SUFFICES ASSUME Tail(a) # <<>>, b # <<>>
               PROVE  Tail(a)[Len(Tail(a))] # "s" \/ b[1] # "h"
      BY DEF Parted
  <2>1. Len(a) - 1 >= 1
      BY <1>1, <1>3, EmptySeq
  <2>2. Tail(a)[Len(a) - 1] = a[Len(a)]
      BY <1>3, <2>1
  <2> QED
      BY <1>3, <2>2 DEF Parted
<1>12. Digraph(a) => Parted(Tail(Tail(a)), b)
  <2> SUFFICES ASSUME Digraph(a), Tail(Tail(a)) # <<>>, b # <<>>
               PROVE  Tail(Tail(a))[Len(Tail(Tail(a)))] # "s" \/ b[1] # "h"
      BY DEF Parted
  <2> DEFINE t == Tail(a)
  <2>1. t \in Seq(Char) /\ t # <<>> /\ Parted(t, b)
      BY <1>3, <1>7, <1>9, <1>11
  <2> HIDE DEF t
  <2>2. /\ Tail(t) \in Seq(Char) /\ Len(Tail(t)) = Len(t) - 1 /\ Len(t) \in Nat
        /\ \A i \in 1 .. Len(t) - 1 : Tail(t)[i] = t[i + 1]
      BY <2>1, TailFacts
  <2>3. Len(Tail(t)) >= 1
      BY <2>2, EmptySeq DEF t
  <2>4. Tail(t)[Len(t) - 1] = t[Len(t)]
      BY <2>2, <2>3
  <2>5. t[Len(t)] # "s" \/ b[1] # "h"
      BY <2>1 DEF Parted
  <2> QED
      BY <2>2, <2>4, <2>5 DEF t
<1>13. Parted(Untaken(a), b)
    BY <1>11, <1>12 DEF Untaken
<1> QED
    BY <1>5, <1>10, <1>13

\* Texts are sequences of characters.
LEMMA TextBasics ==
    /\ Text = Seq(Char) /\ <<>> \in Text /\ Len(<<>>) = 0
    /\ \A t \in Text : Len(t) \in Nat /\ (t # <<>> => Len(t) >= 1)
    /\ \A a, b \in Text : a \o b \in Text
<1>1. \A t \in Text : t # <<>> => Len(t) >= 1
  <2> SUFFICES ASSUME NEW t \in Text, t # <<>> PROVE Len(t) >= 1
      OBVIOUS
  <2>1. Len(t) \in Nat \ {0}
      BY EmptySeq DEF Text
  <2> QED
      BY <2>1
<1>2. \A a, b \in Text : a \o b \in Text
    BY ConcatProperties DEF Text
<1> QED
    BY <1>1, <1>2 DEF Text

\* What holds of a text if it holds of all shorter ones holds of all.
LEMMA TextInduction ==
    ASSUME NEW T,
           \A t \in Text : (\A s \in Text : Len(s) < Len(t) => s \in T) => t \in T
    PROVE  Text \subseteq T
<1> DEFINE size == [t \in Text |-> Len(t)]
<1>1. size \in [Text -> Nat]
    BY DEF Text
<1>2. \A t \in Text : (\A s \in Text : size[s] < size[t] => s \in T) => t \in T
    OBVIOUS
<1> HIDE DEF size
<1> QED
    BY <1>1, <1>2, SizeInduction, ZenonT(60)

\* What is said of two texts one after the other, no digraph torn apart.
LEMMA LettersConcat ==
    ASSUME NEW a \in Text, NEW b \in Text, Parted(a, b)
    PROVE  Letters[a \o b] = Letters[a] \o Letters[b]
<1> DEFINE T == {t \in Text : Parted(t, b) => Letters[t \o b] = Letters[t] \o Letters[b]}
<1>1. Letters[b] \in Seq(Cyrillic) /\ <<>> \o b = b
  <2>1. b \in Seq(Char)
      BY DEF Text
  <2> QED
      BY <2>1, LettersFacts, ConcatEmptySeq
<1>2. ASSUME NEW t \in Text, \A s \in Text : Len(s) < Len(t) => s \in T
      PROVE  t \in T
  <2> SUFFICES ASSUME Parted(t, b)
               PROVE  Letters[t \o b] = Letters[t] \o Letters[b]
      OBVIOUS
  <2>1. CASE t = <<>>
    <3>1. <<>> \o Letters[b] = Letters[b]
        BY <1>1, ConcatEmptySeq
    <3> QED
        BY <1>1, <2>1, <3>1, LettersFacts
  <2>2. CASE t # <<>>
    <3>1. /\ Sound(t \o b) = Sound(t)
          /\ Untaken(t \o b) = Untaken(t) \o b
          /\ Parted(Untaken(t), b)
        BY <2>2, UntakenConcat
    <3>2. Untaken(t) \in Text /\ Len(Untaken(t)) < Len(t)
        BY <2>2, UntakenIsShorter
    <3>3. Untaken(t) \in T
        BY <1>2, <3>2
    <3>4. Letters[Untaken(t) \o b] = Letters[Untaken(t)] \o Letters[b]
        BY <3>1, <3>3
    <3>5. t \o b \in Text /\ t \o b # <<>>
        BY <2>2, ConcatEnds, TextBasics
    <3>6. Letters[t \o b] = Sound(t) \o (Letters[Untaken(t)] \o Letters[b])
        BY <3>1, <3>4, <3>5, LettersFacts
    <3>7. Letters[t] = Sound(t) \o Letters[Untaken(t)]
        BY <2>2, LettersFacts
    <3>8. /\ Sound(t) \in Seq(Cyrillic) /\ Letters[Untaken(t)] \in Seq(Cyrillic)
        BY <3>2, LettersFacts DEF Sound
    <3>9. (Sound(t) \o Letters[Untaken(t)]) \o Letters[b]
              = Sound(t) \o (Letters[Untaken(t)] \o Letters[b])
      <4>1. \A x, y, z \in Seq(Cyrillic) : (x \o y) \o z = x \o (y \o z)
          BY ConcatAssociative
      <4> QED
          BY <1>1, <3>8, <4>1, Zenon
    <3> QED
        BY <3>6, <3>7, <3>9
  <2> QED
      BY <2>1, <2>2
<1> HIDE DEF T
<1>3. Text \subseteq T
    BY <1>2, TextInduction, Zenon
<1> QED
    BY <1>3 DEF T

\* Blanks make no sound.
LEMMA BlanksAreSilent ==
    ASSUME NEW text \in Text, \A i \in 1 .. Len(text) : text[i] \in Blanks
    PROVE  Letters[text] = <<>>
<1> DEFINE T == {t \in Text : (\A i \in 1 .. Len(t) : t[i] \in Blanks)
                                  => Letters[t] = <<>>}
<1>1. ASSUME NEW t \in Text, \A s \in Text : Len(s) < Len(t) => s \in T
      PROVE  t \in T
  <2> SUFFICES ASSUME \A i \in 1 .. Len(t) : t[i] \in Blanks
               PROVE  Letters[t] = <<>>
      OBVIOUS
  <2>1. CASE t = <<>>
      BY <2>1, LettersFacts
  <2>2. CASE t # <<>>
    <3>1. /\ Len(t) \in Nat /\ Len(t) >= 1
          /\ Tail(t) \in Text /\ Len(Tail(t)) = Len(t) - 1
          /\ \A i \in 1 .. Len(t) - 1 : Tail(t)[i] = t[i + 1]
        BY <2>2, TailFacts DEF Text
    <3>2. t[1] \in Blanks
        BY <3>1
    <3>3. ~Digraph(t) /\ Single(t[1]) = t[1] /\ t[1] \notin Cyrillic
        BY <3>2 DEF Digraph, Blanks, Single, Cyrillic
    <3>4. Sound(t) = <<>> /\ Untaken(t) = Tail(t)
        BY <3>3 DEF Sound, Untaken, Transliterated
    <3>5. \A i \in 1 .. Len(Tail(t)) : Tail(t)[i] \in Blanks
        BY <3>1
    <3>9. Tail(t) \in Text /\ Len(Tail(t)) < Len(t)
        BY <3>1
    <3>6. Tail(t) \in T
        BY <1>1, <3>9, Zenon
    <3>7. Letters[Tail(t)] = <<>>
        BY <3>5, <3>6
    <3>8. Letters[t] = <<>> \o <<>>
        BY <2>2, <3>4, <3>7, LettersFacts
    <3> QED
        BY <3>8
  <2> QED
      BY <2>1, <2>2
<1> HIDE DEF T
<1>2. Text \subseteq T
    BY <1>1, TextInduction, Zenon
<1> QED
    BY <1>2 DEF T

\* Nor do the blanks of a slice.
LEMMA BlankSlice ==
    ASSUME NEW text \in Text, NEW a \in Nat, NEW b \in Nat, a <= b, b <= Len(text),
           Blank(text, a, b)
    PROVE  Slice(text, a, b) \in Text /\ Letters[Slice(text, a, b)] = <<>>
<1> DEFINE s == Slice(text, a, b)
<1>1. text \in Seq(Char) /\ b \in a .. Len(text)
    BY DEF Text
<1>2. /\ s \in Seq(Char) /\ Len(s) = b - a
      /\ \A i \in 1 .. b - a : s[i] = text[a + i]
    BY <1>1, SliceFacts, ZenonT(60)
<1> HIDE DEF s
<1>3. \A i \in 1 .. Len(s) : s[i] \in Blanks
  <2> TAKE i \in 1 .. Len(s)
  <2>1. i \in 1 .. b - a /\ a + i \in a + 1 .. b
      BY <1>2
  <2> QED
      BY <1>2, <2>1 DEF Blank
<1>4. s \in Text
    BY <1>2 DEF Text
<1> QED
    BY <1>3, <1>4, BlanksAreSilent DEF s

\* A slice that is cut at a blank, before or after, is said in two pieces.
LEMMA LettersSlices ==
    ASSUME NEW text \in Text, NEW a \in Nat, NEW b \in Nat, NEW c \in Nat,
           a <= b, b <= c, c <= Len(text),
           a < b /\ b < c => text[b] \in Blanks \/ text[b + 1] \in Blanks
    PROVE  Letters[Slice(text, a, c)]
               = Letters[Slice(text, a, b)] \o Letters[Slice(text, b, c)]
<1> DEFINE s == Slice(text, a, b)
           t == Slice(text, b, c)
<1>1. text \in Seq(Char) /\ b \in a .. Len(text) /\ c \in b .. Len(text)
      /\ c \in a .. Len(text) /\ b \in a .. c
    BY DEF Text
<1>2. /\ s \in Seq(Char) /\ Len(s) = b - a
      /\ \A i \in 1 .. b - a : s[i] = text[a + i]
    BY <1>1, SliceFacts, ZenonT(60)
<1>3. /\ t \in Seq(Char) /\ Len(t) = c - b
      /\ \A i \in 1 .. c - b : t[i] = text[b + i]
    BY <1>1, SliceFacts
<1>4. Slice(text, a, c) = s \o t
    BY <1>1, SliceJoin
<1> HIDE DEF s, t
<1>5. Parted(s, t)
  <2> SUFFICES ASSUME s # <<>>, t # <<>>
               PROVE  s[Len(s)] # "s" \/ t[1] # "h"
      BY DEF Parted
  <2>1. b - a >= 1 /\ c - b >= 1
      BY <1>2, <1>3, TextBasics
  <2>2. s[b - a] = text[a + (b - a)] /\ t[1] = text[b + 1]
      BY <1>2, <1>3, <2>1
  <2>3. a + (b - a) = b /\ a < b /\ b < c
      BY <2>1
  <2>4. text[b] # "s" \/ text[b + 1] # "h"
      BY <2>3 DEF Blanks
  <2> QED
      BY <1>2, <2>2, <2>3, <2>4
<1>6. Letters[s \o t] = Letters[s] \o Letters[t]
    BY <1>2, <1>3, <1>5, LettersConcat DEF Text
<1> QED
    BY <1>4, <1>6 DEF s, t

\* What is said is Cyrillic.
LEMMA LettersAreLetters ==
    ASSUME NEW text \in Text
    PROVE  /\ Letters[text] \in Seq(Cyrillic)
           /\ Letters[text] \o <<>> = Letters[text]
           /\ <<>> \o Letters[text] = Letters[text]
<1>1. Letters[text] \in Seq(Cyrillic)
    BY LettersFacts
<1> QED
    BY <1>1, ConcatEmptySeq

\* A slice of a text is a text.
LEMMA SliceIsText ==
    ASSUME NEW text \in Text, NEW a \in Nat, NEW b \in Nat, a <= b, b <= Len(text)
    PROVE  Slice(text, a, b) \in Text /\ Len(Slice(text, a, b)) = b - a
<1>1. text \in Seq(Char) /\ b \in a .. Len(text)
    BY DEF Text
<1> QED
    BY <1>1, SliceFacts DEF Text

\* Stripping leaves the letters.
LEMMA LettersStrip ==
    ASSUME NEW text \in Text
    PROVE  Letters[Strip(text)] = Letters[text]
<1> DEFINE n == Len(text)
<1>0. n \in Nat /\ 0 \in Nat /\ n \in 0 .. Len(text) /\ text \in Seq(Char)
    BY DEF Text
<1>1. PICK p \in 0 .. n : \E q \in p .. n :
         /\ Strip(Slice(text, 0, n)) = Slice(text, p, q)
         /\ Blank(text, 0, p) /\ Blank(text, q, n)
         /\ p < q => text[p + 1] \notin Blanks /\ text[q] \notin Blanks
    BY <1>0, StripSlice, Zenon
<1>2. PICK q \in p .. n :
         /\ Strip(Slice(text, 0, n)) = Slice(text, p, q)
         /\ Blank(text, 0, p) /\ Blank(text, q, n)
    BY <1>1
<1>3. Strip(text) = Slice(text, p, q) /\ Slice(text, 0, n) = text
    BY <1>0, <1>2, SliceAll
<1>4. p \in Nat /\ q \in Nat /\ 0 <= p /\ p <= q /\ q <= n /\ 0 <= q /\ n <= Len(text)
      /\ p <= Len(text) /\ p <= n
    BY <1>0
<1> HIDE DEF n
<1>5. /\ Letters[Slice(text, 0, p)] = <<>>
      /\ Letters[Slice(text, q, n)] = <<>>
    BY <1>0, <1>2, <1>4, BlankSlice
<1>6. Letters[Slice(text, 0, n)] = Letters[Slice(text, 0, p)] \o Letters[Slice(text, p, n)]
  <2>1. 0 < p /\ p < n => text[p] \in Blanks \/ text[p + 1] \in Blanks
      BY <1>0, <1>2, <1>4 DEF Blank
  <2> QED
      BY <1>0, <1>4, <2>1, LettersSlices, ZenonT(60)
<1>7. Letters[Slice(text, p, n)] = Letters[Slice(text, p, q)] \o Letters[Slice(text, q, n)]
  <2>1. p < q /\ q < n => text[q] \in Blanks \/ text[q + 1] \in Blanks
      BY <1>0, <1>2, <1>4 DEF Blank
  <2> QED
      BY <1>0, <1>4, <2>1, LettersSlices, ZenonT(60)
<1>8. Slice(text, p, n) \in Text /\ Slice(text, p, q) \in Text
    BY <1>0, <1>4, SliceIsText
<1>9. /\ <<>> \o Letters[Slice(text, p, n)] = Letters[Slice(text, p, n)]
      /\ Letters[Slice(text, p, q)] \o <<>> = Letters[Slice(text, p, q)]
    BY <1>8, LettersAreLetters
<1> QED
    BY <1>3, <1>5, <1>6, <1>7, <1>9

\* The letters of a tile are those of its part.
LEMMA LettersTile ==
    ASSUME NEW text \in Text, NEW part, NEW a \in Nat, NEW b \in Nat,
           Tile(part, text, a, b)
    PROVE  part \in Text /\ a < b /\ b <= Len(text)
           /\ Letters[Slice(text, a, b)] = Letters[part]
<1>1. PICK p \in a .. b :
         /\ p < b /\ b <= Len(text)
         /\ part = Slice(text, p, b)
         /\ Blank(text, a, p)
    BY DEF Tile
<1>0. Len(text) \in Nat
    BY TextBasics
<1>2. p \in Nat /\ a <= p /\ p <= b /\ p <= Len(text) /\ a < b
    BY <1>0, <1>1
<1>3. Letters[Slice(text, a, p)] = <<>>
    BY <1>1, <1>2, BlankSlice
<1>4. part \in Text
    BY <1>1, <1>2, SliceIsText
<1>5. Letters[Slice(text, a, b)] = Letters[Slice(text, a, p)] \o Letters[Slice(text, p, b)]
  <2>1. a < p /\ p < b => text[p] \in Blanks \/ text[p + 1] \in Blanks
      BY <1>1, <1>2 DEF Blank
  <2> QED
      BY <1>1, <1>2, <2>1, LettersSlices, ZenonT(60)
<1>6. <<>> \o Letters[part] = Letters[part]
    BY <1>4, LettersAreLetters
<1> QED
    BY <1>1, <1>2, <1>3, <1>4, <1>5, <1>6

----------------------------------------------------------------------------
(* The sentence stream loses no letter                                     *)

\* What holds of <<>> and survives a further member holds of every sequence.
LEMMA AppendInduction ==
    ASSUME NEW A, NEW T, <<>> \in T,
           \A s \in Seq(A) : \A e \in A : s \in T => Append(s, e) \in T
    PROVE  Seq(A) \subseteq T
<1> DEFINE size == [s \in Seq(A) |-> Len(s)]
<1>1. size \in [Seq(A) -> Nat]
    OBVIOUS
<1>2. ASSUME NEW s \in Seq(A), \A r \in Seq(A) : size[r] < size[s] => r \in T
      PROVE  s \in T
  <2>1. CASE s = <<>>
      BY <2>1
  <2>2. CASE s # <<>>
    <3>1. PICK r \in Seq(A), e \in A : s = Append(r, e)
        BY <2>2, SequenceEmptyOrAppend
    <3>2. Len(s) = Len(r) + 1 /\ Len(r) \in Nat
        BY <3>1, AppendProperties
    <3>3. size[r] < size[s]
        BY <3>2
    <3> QED
        BY <1>2, <3>1, <3>3
  <2> QED
      BY <2>1, <2>2
<1>3. \A s \in Seq(A) :
         (\A r \in Seq(A) : size[r] < size[s] => r \in T) => s \in T
    BY <1>2
<1> HIDE DEF size
<1> QED
    BY <1>1, <1>3, SizeInduction, ZenonT(60)

\* What is said, in three pieces.
LEMMA CyrillicAssociative ==
    \A a, b, c \in Seq(Cyrillic) : (a \o b) \o c = a \o (b \o c)
<1> QED
    BY ConcatAssociative

\* What is said, in two pieces.
LEMMA CyrillicClosed ==
    \A a, b \in Seq(Cyrillic) : a \o b \in Seq(Cyrillic) /\ a \o <<>> = a
<1> QED
    BY ConcatProperties, ConcatEmptySeq

\* A text in three pieces.
LEMMA CharAssociative ==
    \A a, b, c \in Seq(Char) : (a \o b) \o c = a \o (b \o c)
<1> QED
    BY ConcatAssociative

\* Front and Last undo Append.
LEMMA FrontFacts ==
    ASSUME NEW A, NEW s \in Seq(A), NEW e \in A
    PROVE  /\ Append(s, e) \in Seq(A) /\ Append(s, e) # <<>>
           /\ Front(Append(s, e)) = s /\ Last(Append(s, e)) = e
           /\ Len(Append(s, e)) = Len(s) + 1
<1> DEFINE t == Append(s, e)
<1>1. /\ t \in Seq(A) /\ t # <<>> /\ Len(t) = Len(s) + 1 /\ Len(s) \in Nat
      /\ \A i \in 1 .. Len(s) : t[i] = s[i]
      /\ t[Len(s) + 1] = e
    BY AppendProperties
<1> HIDE DEF t
<1>2. Front(t) = Slice(t, 0, Len(s))
  <2>1. 0 + 1 = 1 /\ Len(t) - 1 = Len(s)
      BY <1>1
  <2> QED
      BY <2>1, Zenon DEF Front, Slice
<1>3. 0 \in Nat /\ Len(s) \in 0 .. Len(t)
    BY <1>1
<1> DEFINE f == Slice(t, 0, Len(s))
<1>4. /\ f \in Seq(A) /\ Len(f) = Len(s) - 0
      /\ \A i \in 1 .. Len(s) - 0 : f[i] = t[0 + i]
    BY <1>1, <1>3, SliceFacts, ZenonT(60)
<1> HIDE DEF f
<1>5. Len(f) = Len(s) /\ \A i \in 1 .. Len(f) : f[i] = s[i]
    BY <1>1, <1>4
<1>6. f = s
    BY <1>4, <1>5, SeqEqual
<1> QED
    BY <1>1, <1>2, <1>6, Zenon DEF t, f, Last

\* What separates tokens and words.
Gap == <<" ">>

\* A gap is a text, and makes no sound.
LEMMA GapFacts ==
    /\ " " \in Char /\ " " \in Blanks
    /\ Gap \in Text /\ Gap # <<>> /\ Len(Gap) = 1 /\ Gap[1] = " "
    /\ Letters[Gap] = <<>>
<1>1. " " \in Char /\ " " \in Blanks
    BY DEF Char, Blanks
<1>2. Gap \in Seq(Char)
  <2>1. \A e \in Char : <<e>> \in Seq(Char)
      OBVIOUS
  <2> QED
      BY <1>1, <2>1, Zenon DEF Gap
<1>3. Len(Gap) = 1 /\ Gap[1] = " "
    BY DEF Gap
<1>4. Gap # <<>>
    BY DEF Gap
<1>5. \A i \in 1 .. Len(Gap) : Gap[i] \in Blanks
  <2>1. \A i \in 1 .. 1 : i = 1
      OBVIOUS
  <2> QED
      BY <1>1, <1>3, <2>1
<1>6. Letters[Gap] = <<>>
    BY <1>2, <1>5, BlanksAreSilent DEF Text
<1> QED
    BY <1>1, <1>2, <1>3, <1>4, <1>6 DEF Text

\* The gap between two tokens is not heard.
LEMMA JoinedIsText ==
    ASSUME NEW out \in Text, NEW token \in Text
    PROVE  /\ Joined(out, token) \in Text
           /\ Letters[Joined(out, token)] = Letters[out] \o Letters[token]
<1>1. CASE out = <<>>
    BY <1>1, LettersFacts, LettersAreLetters DEF Joined
<1>2. CASE out # <<>>
  <2>1. Gap \in Text /\ Len(Gap) = 1 /\ Gap[1] = " " /\ Gap # <<>>
      BY GapFacts
  <2>2. Letters[Gap] = <<>>
      BY GapFacts
  <2>3. out \in Seq(Char) /\ token \in Seq(Char) /\ Gap \in Seq(Char)
      BY <2>1 DEF Text
  <2>4. out \o Gap \in Text /\ (out \o Gap) \o token \in Text
      BY <2>1, TextBasics
  <2>5. Letters[out \o Gap] = Letters[out] \o <<>>
    <3>1. Parted(out, Gap)
        BY <2>1 DEF Parted
    <3> QED
        BY <2>1, <2>2, <3>1, LettersConcat
  <2>6. Parted(out \o Gap, token)
    <3>1. (out \o Gap)[Len(out \o Gap)] = " "
      <4>1. Append(out, " ") = out \o Gap
        <5>1. " " \in Char
            BY GapFacts
        <5> QED
            BY <2>3, <5>1, AppendIsConcat DEF Gap
      <4>2. /\ Len(Append(out, " ")) = Len(out) + 1
            /\ Append(out, " ")[Len(out) + 1] = " "
        <5>1. " " \in Char
            BY GapFacts
        <5> QED
            BY <2>3, <5>1, AppendProperties
      <4> QED
          BY <4>1, <4>2
    <3> QED
        BY <3>1 DEF Parted
  <2>7. Letters[(out \o Gap) \o token] = (Letters[out] \o <<>>) \o Letters[token]
      BY <2>4, <2>5, <2>6, LettersConcat
  <2>8. Letters[out] \o <<>> = Letters[out]
      BY LettersAreLetters
  <2>9. Joined(out, token) = (out \o Gap) \o token
    <3>1. Joined(out, token) = out \o Gap \o token
        BY <1>2 DEF Joined, Gap
    <3> QED
        BY <3>1
  <2> QED
      BY <2>4, <2>7, <2>8, <2>9
<1> QED
    BY <1>1, <1>2

\* Join is defined for all sequences of texts.
LEMMA JoinFacts ==
    /\ Join \in [Seq(Text) -> Text]
    /\ Join[<<>>] = <<>>
    /\ \A s \in Seq(Text) : \A e \in Text : Join[Append(s, e)] = Joined(Join[s], e)
<1> DEFINE S == Seq(Text)
           size == [s \in S |-> Len(s)]
           next == [s \in S |-> IF s = <<>> THEN s ELSE Front(s)]
           base == [s \in S |-> <<>>]
           comb == [p \in S \X Text |-> IF p[1] = <<>> THEN <<>>
                                        ELSE Joined(p[2], Last(p[1]))]
           Done == {<<>>}
           Body(f) == f = [tokens \in Seq(Text) |->
               IF tokens = <<>> THEN <<>>
               ELSE Joined(f[Front(tokens)], Last(tokens))]
<1>1. \A s \in S : s # <<>> => /\ Front(s) \in S /\ Last(s) \in Text
                               /\ Len(Front(s)) < Len(s)
  <2> SUFFICES ASSUME NEW s \in S, s # <<>>
               PROVE  /\ Front(s) \in S /\ Last(s) \in Text
                      /\ Len(Front(s)) < Len(s)
      OBVIOUS
  <2>1. PICK r \in Seq(Text), e \in Text : s = Append(r, e)
      BY SequenceEmptyOrAppend
  <2>2. Front(s) = r /\ Last(s) = e /\ Len(s) = Len(r) + 1 /\ Len(r) \in Nat
      BY <2>1, FrontFacts
  <2> QED
      BY <2>2
<1>2. <<>> \in S /\ <<>> \in Text /\ \A s \in S : Len(s) \in Nat
    BY TextBasics
<1>3. Recursion(S, Text, size, next, base, comb, Done)
  <2>1. size \in [S -> Nat] /\ next \in [S -> S] /\ base \in [S -> Text]
      BY <1>1, <1>2
  <2>2. comb \in [S \X Text -> Text]
    <3>1. ASSUME NEW s \in S, NEW v \in Text, s # <<>>
          PROVE  Joined(v, Last(s)) \in Text
        BY <1>1, <3>1, JoinedIsText
    <3> QED
        BY <1>2, <3>1
  <2>3. \A s \in S : s \notin Done => size[next[s]] < size[s]
      BY <1>1
  <2> HIDE DEF size, next, base, comb, Done, S
  <2> QED
      BY <2>1, <2>2, <2>3 DEF Recursion
<1>4. ASSUME NEW f, f \in [S -> Text], Solves(f, S, Text, next, base, comb, Done)
      PROVE  Body(f)
  <2>1. ASSUME NEW s \in S
        PROVE  f[s] = IF s = <<>> THEN <<>> ELSE Joined(f[Front(s)], Last(s))
    <3>1. CASE s = <<>>
        BY <1>4, <3>1 DEF Solves
    <3>2. CASE s # <<>>
      <4>1. Front(s) \in S /\ next[s] = Front(s) /\ s \notin Done
          BY <1>1, <3>2
      <4>2. f[Front(s)] \in Text
          BY <1>4, <4>1
      <4>3. comb[<<s, f[Front(s)]>>] = Joined(f[Front(s)], Last(s))
          BY <3>2, <4>2
      <4> HIDE DEF comb, next, Done, S
      <4>4. f[s] = comb[<<s, f[next[s]]>>]
          BY <1>4, <4>1, <4>2 DEF Solves
      <4> QED
          BY <3>2, <4>1, <4>3, <4>4
    <3> QED
        BY <3>1, <3>2
  <2>2. f = [s \in S |-> f[s]]
      BY <1>4
  <2> QED
      BY <2>1, <2>2
<1>5. ASSUME NEW f, Body(f) PROVE Solves(f, S, Text, next, base, comb, Done)
  <2>1. f = [s \in S |-> IF s = <<>> THEN <<>> ELSE Joined(f[Front(s)], Last(s))]
      BY <1>5
  <2>2. f = [s \in S |-> f[s]]
      BY <2>1
  <2>3. ASSUME NEW s \in S
        PROVE  /\ s \in Done => f[s] = base[s]
               /\ s \notin Done /\ f[next[s]] \in Text => f[s] = comb[<<s, f[next[s]]>>]
      BY <2>1, <2>3
  <2> HIDE DEF size, next, base, comb, Done, S
  <2> QED
      BY <2>2, <2>3 DEF Solves
<1> HIDE DEF size, next, base, comb, Done
<1>6. /\ \E f : f \in [S -> Text] /\ Solves(f, S, Text, next, base, comb, Done)
      /\ \A f : Solves(f, S, Text, next, base, comb, Done) => f \in [S -> Text]
  <2> HIDE DEF S
  <2> QED
      BY <1>3, RecursiveFunction, Zenon
<1> HIDE DEF Body
<1>7. Body(Join)
  <2>1. \E f : Body(f)
      BY <1>4, <1>6, Zenon
  <2>2. Body(CHOOSE f : Body(f))
      BY <2>1, Zenon
  <2> QED
      BY <2>2 DEF Join, Body
<1>8. Join \in [S -> Text]
    BY <1>5, <1>6, <1>7, Zenon
<1>9. \A s \in S : Join[s] = IF s = <<>> THEN <<>> ELSE Joined(Join[Front(s)], Last(s))
    BY <1>7 DEF Body
<1>10. ASSUME NEW s \in Seq(Text), NEW e \in Text
       PROVE  Join[Append(s, e)] = Joined(Join[s], e)
  <2>1. /\ Append(s, e) \in S /\ Append(s, e) # <<>>
        /\ Front(Append(s, e)) = s /\ Last(Append(s, e)) = e
      BY FrontFacts
  <2> QED
      BY <1>9, <2>1, Zenon
<1> QED
    BY <1>2, <1>8, <1>9, <1>10

\* The letters of the first token come first.
LEMMA JoinHead ==
    ASSUME NEW tokens \in Seq(Text), tokens # <<>>
    PROVE  /\ Head(tokens) \in Text /\ Tail(tokens) \in Seq(Text)
           /\ Letters[Join[tokens]] = Letters[Head(tokens)] \o Letters[Join[Tail(tokens)]]
<1> DEFINE T == {s \in Seq(Text) : s # <<>> =>
                    Letters[Join[s]] = Letters[Head(s)] \o Letters[Join[Tail(s)]]}
<1>1. <<>> \in T
    OBVIOUS
<1>2. ASSUME NEW s \in Seq(Text), NEW e \in Text, s \in T
      PROVE  Append(s, e) \in T
  <2>1. Append(s, e) \in Seq(Text) /\ Join[Append(s, e)] = Joined(Join[s], e)
        /\ Join[s] \in Text
      BY JoinFacts, FrontFacts
  <2>2. Letters[Join[Append(s, e)]] = Letters[Join[s]] \o Letters[e]
      BY <2>1, JoinedIsText
  <2>3. /\ Head(Append(s, e)) = IF s = <<>> THEN e ELSE Head(s)
        /\ Tail(Append(s, e)) = IF s = <<>> THEN <<>> ELSE Append(Tail(s), e)
      BY HeadTailAppend
  <2>4. CASE s = <<>>
    <3>1. /\ Join[s] = <<>> /\ Letters[<<>>] = <<>>
          /\ Head(Append(s, e)) = e /\ Tail(Append(s, e)) = <<>>
        BY <2>3, <2>4, JoinFacts, LettersFacts
    <3>2. <<>> \o Letters[e] = Letters[e] /\ Letters[e] \o <<>> = Letters[e]
        BY LettersAreLetters
    <3>3. Letters[Join[Append(s, e)]]
              = Letters[Head(Append(s, e))] \o Letters[Join[Tail(Append(s, e))]]
        BY <2>2, <2>4, <3>1, <3>2, JoinFacts, Zenon
    <3> QED
        BY <2>1, <3>3
  <2>5. CASE s # <<>>
    <3>1. Head(s) \in Text /\ Tail(s) \in Seq(Text)
        BY <2>5
    <3>2. Letters[Join[s]] = Letters[Head(s)] \o Letters[Join[Tail(s)]]
        BY <1>2, <2>5
    <3>3. Join[Tail(s)] \in Text /\ Join[Append(Tail(s), e)] = Joined(Join[Tail(s)], e)
        BY <3>1, JoinFacts
    <3>4. Letters[Join[Append(Tail(s), e)]] = Letters[Join[Tail(s)]] \o Letters[e]
        BY <3>3, JoinedIsText
    <3>5. /\ Letters[Head(s)] \in Seq(Cyrillic) /\ Letters[Join[Tail(s)]] \in Seq(Cyrillic)
          /\ Letters[e] \in Seq(Cyrillic)
        BY <3>1, <3>3, LettersAreLetters
    <3>7. (Letters[Head(s)] \o Letters[Join[Tail(s)]]) \o Letters[e]
              = Letters[Head(s)] \o (Letters[Join[Tail(s)]] \o Letters[e])
        BY <3>5, CyrillicAssociative, ZenonT(60)
    <3>8. Head(Append(s, e)) = Head(s) /\ Tail(Append(s, e)) = Append(Tail(s), e)
        BY <2>3, <2>5
    <3>9. Letters[Join[Append(s, e)]]
              = Letters[Head(Append(s, e))] \o Letters[Join[Tail(Append(s, e))]]
        BY <2>2, <3>2, <3>4, <3>7, <3>8, Zenon
    <3> QED
        BY <2>1, <3>9
  <2> QED
      BY <2>4, <2>5
<1>3. \A s \in Seq(Text) : \A e \in Text : s \in T => Append(s, e) \in T
    BY <1>2
<1> HIDE DEF T
<1>4. Seq(Text) \subseteq T
    BY <1>1, <1>3, AppendInduction, Zenon
<1>5. tokens \in T
    BY <1>4
<1>6. Letters[Join[tokens]] = Letters[Head(tokens)] \o Letters[Join[Tail(tokens)]]
    BY <1>5 DEF T
<1>7. Head(tokens) \in Text /\ Tail(tokens) \in Seq(Text)
    BY HeadTailProperties
<1> QED
    BY <1>6, <1>7

\* What comes before the end of a tile, and the letters of it.
LEMMA TilingFacts ==
    ASSUME NEW text \in Text, NEW parts \in Seq(Text), NEW end,
           Tiling(end, parts, text, 0, Len(text)), NEW k \in 1 .. Len(parts)
    PROVE  /\ end[k - 1] \in Nat /\ end[k] \in Nat
           /\ end[k - 1] < end[k] /\ end[k] <= Len(text)
           /\ Letters[Slice(text, 0, end[k])]
                  = Letters[Slice(text, 0, end[k - 1])] \o Letters[parts[k]]
<1>1. Len(parts) \in Nat /\ Len(text) \in Nat
    BY TextBasics
<1>2. /\ end \in [0 .. Len(parts) -> 0 .. Len(text)]
      /\ end[0] = 0
      /\ \A j \in 1 .. Len(parts) : Tile(parts[j], text, end[j - 1], end[j])
    BY DEF Tiling
<1>3. k \in 0 .. Len(parts) /\ k - 1 \in 0 .. Len(parts)
    BY <1>1
<1>4. PICK a \in Nat : a = end[k - 1]
    BY <1>1, <1>2, <1>3
<1>5. PICK b \in Nat : b = end[k]
    BY <1>1, <1>2, <1>3
<1>6. Tile(parts[k], text, a, b)
    BY <1>2, <1>4, <1>5
<1>7. PICK part : part = parts[k]
    OBVIOUS
<1>8. Tile(part, text, a, b)
    BY <1>6, <1>7
<1>9. a < b /\ b <= Len(text) /\ Letters[Slice(text, a, b)] = Letters[part]
    BY <1>8, LettersTile
<1>10. 0 < a => text[a + 1] \in Blanks
  <2> SUFFICES ASSUME 0 < a PROVE text[a + 1] \in Blanks
      OBVIOUS
  <2>1. k # 1
      BY <1>2, <1>4
  <2>2. k - 1 \in 1 .. Len(parts)
      BY <1>1, <2>1
  <2>3. Tile(parts[k - 1], text, end[k - 1 - 1], a)
      BY <1>2, <1>4, <2>2
  <2>4. a < Len(text) => text[a + 1] \in Blanks
      BY <2>3 DEF Tile
  <2> QED
      BY <1>1, <1>9, <2>4
<1>11. Letters[Slice(text, 0, b)] = Letters[Slice(text, 0, a)] \o Letters[Slice(text, a, b)]
  <2>1. 0 \in Nat /\ 0 <= a /\ a <= b
      BY <1>9
  <2> QED
      BY <1>9, <1>10, <2>1, LettersSlices, ZenonT(60)
<1> QED
    BY <1>4, <1>5, <1>6, <1>7, <1>9, <1>11

\* The letters of what flush makes of a buffer.
LEMMA FlushLetters ==
    ASSUME NEW out \in Text, NEW text \in Text
    PROVE  /\ <<out>> \o Parts[text] \in Seq(Text)
           /\ Letters[Join[<<out>> \o Parts[text]]] = Letters[out] \o Letters[text]
<1> DEFINE parts == Parts[text]
           n == Len(parts)
           first(k) == <<out>> \o Slice(parts, 0, k)
           said(k) == Letters[Slice(text, 0, PartEnds(text)[k])]
           T == {k \in Nat : k <= n =>
                    Letters[Join[first(k)]] = Letters[out] \o said(k)}
<1>1. parts \in Seq(Text) /\ n \in Nat /\ <<out>> \in Seq(Text)
    BY PartsFacts
<1>2. Tiling(PartEnds(text), parts, text, 0, Len(text))
    BY PartEndsTile
<1>3. PartEnds(text)[0] = 0
    BY PartEndsFacts
<1> HIDE DEF parts, n
<1>4. Join[<<out>>] = out
  <2>1. <<>> \in Seq(Text) /\ Append(<<>>, out) = <<out>>
      OBVIOUS
  <2>2. Join[<<out>>] = Joined(<<>>, out)
      BY <2>1, JoinFacts
  <2> QED
      BY <2>2 DEF Joined
<1>5. \A k \in 0 .. n : Slice(parts, 0, k) \in Seq(Text) /\ first(k) \in Seq(Text)
  <2> SUFFICES ASSUME NEW k \in 0 .. n
               PROVE  Slice(parts, 0, k) \in Seq(Text) /\ first(k) \in Seq(Text)
      OBVIOUS
  <2>1. 0 \in Nat /\ k \in 0 .. Len(parts)
      BY DEF n
  <2>2. Slice(parts, 0, k) \in Seq(Text)
      BY <1>1, <2>1, SliceFacts, ZenonT(60)
  <2> QED
      BY <1>1, <2>2, ConcatProperties
<1>6. ASSUME NEW k \in Nat, \A m \in Nat : m < k => m \in T, k <= n
      PROVE  Letters[Join[first(k)]] = Letters[out] \o said(k)
  <2>1. CASE k = 0
    <3>1. Slice(parts, 0, 0) = <<>> /\ Slice(text, 0, 0) = <<>>
        BY SliceNone
    <3>2. first(0) = <<out>> /\ said(0) = <<>>
        BY <1>1, <1>3, <3>1, ConcatEmptySeq, LettersFacts
    <3>3. Letters[out] \o <<>> = Letters[out]
        BY LettersAreLetters
    <3> QED
        BY <1>4, <2>1, <3>2, <3>3
  <2>2. CASE k # 0
    <3>1. PICK j \in Nat : k = j + 1
      <4>1. k - 1 \in Nat /\ k = (k - 1) + 1
          BY <2>2
      <4> QED
          BY <4>1
    <3>2. j < k /\ j <= n /\ j \in 0 .. n /\ k \in 1 .. n /\ k \in 0 .. n /\ k - 1 = j
        BY <1>1, <1>6, <3>1
    <3>3. Letters[Join[first(j)]] = Letters[out] \o said(j)
      <4>1. j \in T
          BY <1>6, <3>2
      <4> QED
          BY <3>2, <4>1
    <3>4. k \in 1 .. Len(parts)
        BY <3>2 DEF n
    <3>5. said(k) = said(j) \o Letters[parts[k]]
      <4> DEFINE end == PartEnds(text)
      <4> HIDE DEF end
      <4>1. Tiling(end, parts, text, 0, Len(text))
          BY <1>2 DEF end
      <4>2. Letters[Slice(text, 0, end[k])]
                = Letters[Slice(text, 0, end[k - 1])] \o Letters[parts[k]]
          BY <1>1, <3>4, <4>1, TilingFacts, Zenon
      <4> QED
          BY <3>2, <4>2 DEF end
    <3>6. PICK part \in Text : part = parts[k]
        BY <1>1, <3>4
    <3>7. first(k) = Append(first(j), part)
      <4>1. Slice(parts, 0, k) = Append(Slice(parts, 0, j), part)
        <5>1. 1 \in 1 .. Len(parts) /\ k \in 1 .. Len(parts)
            BY <1>1, <3>4
        <5>2. SubSeq(parts, 1, k) = SubSeq(parts, 1, k - 1) \o <<parts[k]>>
            BY <1>1, <5>1, SubSeqRecursiveSecond
        <5>3. Slice(parts, 0, k) = SubSeq(parts, 1, k) /\ Slice(parts, 0, j) = SubSeq(parts, 1, k - 1)
            BY <3>2 DEF Slice
        <5>4. Append(Slice(parts, 0, j), part) = Slice(parts, 0, j) \o <<part>>
            BY <1>5, <3>2, AppendIsConcat
        <5> QED
            BY <3>6, <5>2, <5>3, <5>4
      <4>2. PICK s \in Seq(Text) : s = Slice(parts, 0, j)
          BY <1>5, <3>2
      <4>3. <<out>> \o Append(s, part) = Append(<<out>> \o s, part)
        <5>1. <<part>> \in Seq(Text)
            OBVIOUS
        <5>2. Append(s, part) = s \o <<part>>
            BY AppendIsConcat
        <5>3. <<out>> \o s \in Seq(Text)
            BY <1>1, ConcatProperties
        <5>4. Append(<<out>> \o s, part) = (<<out>> \o s) \o <<part>>
            BY <5>3, AppendIsConcat
        <5>5. (<<out>> \o s) \o <<part>> = <<out>> \o (s \o <<part>>)
            BY <1>1, <5>1, ConcatAssociative
        <5> QED
            BY <5>2, <5>4, <5>5
      <4> QED
          BY <4>1, <4>2, <4>3
    <3>8. PICK s \in Seq(Text) : s = first(j)
        BY <1>5, <3>2
    <3>9. Join[s] \in Text /\ Join[Append(s, part)] = Joined(Join[s], part)
        BY JoinFacts
    <3>10. Letters[Join[Append(s, part)]] = Letters[Join[s]] \o Letters[part]
        BY <3>9, JoinedIsText
    <3>11. Letters[out] \in Seq(Cyrillic) /\ said(j) \in Seq(Cyrillic)
           /\ Letters[part] \in Seq(Cyrillic)
      <4>1. PICK a \in 0 .. Len(text) : a = PartEnds(text)[j]
          BY <1>2, <3>2 DEF Tiling, n
      <4>2. 0 \in Nat /\ a \in Nat /\ 0 <= a /\ a <= Len(text)
          BY <4>1, TextBasics
      <4>3. Slice(text, 0, a) \in Text
          BY <4>2, SliceIsText
      <4> QED
          BY <4>1, <4>3, LettersAreLetters
    <3>12. \A x, y, z \in Seq(Cyrillic) : (x \o y) \o z = x \o (y \o z)
        BY ConcatAssociative
    <3>13. (Letters[out] \o said(j)) \o Letters[part]
               = Letters[out] \o (said(j) \o Letters[part])
        BY <3>11, <3>12, Zenon
    <3> HIDE DEF first, said
    <3> QED
        BY <3>3, <3>5, <3>6, <3>7, <3>8, <3>10, <3>13, Zenon
  <2> QED
      BY <2>1, <2>2
<1>7. \A k \in Nat : (\A m \in Nat : m < k => m \in T) => k \in T
    BY <1>6
<1> HIDE DEF T
<1>8. Nat \subseteq T
    BY <1>7, StrongInduction, Zenon
<1>9. n \in T /\ n <= n
    BY <1>1, <1>8
<1>10. Letters[Join[first(n)]] = Letters[out] \o said(n)
  <2> HIDE DEF first, said
  <2> QED
      BY <1>9 DEF T
<1>11. first(n) = <<out>> \o parts
    BY <1>1, SliceAll DEF n
<1>12. said(n) = Letters[text]
  <2>1. PICK a \in 0 .. Len(text) : a = PartEnds(text)[n] /\ Blank(text, a, Len(text))
      BY <1>1, <1>2 DEF Tiling, n
  <2>2. 0 \in Nat /\ a \in Nat /\ 0 <= a /\ a <= Len(text) /\ Len(text) \in Nat
        /\ Len(text) <= Len(text)
      BY <2>1, TextBasics
  <2>3. 0 < a /\ a < Len(text) => text[a] \in Blanks \/ text[a + 1] \in Blanks
      BY <2>1, <2>2 DEF Blank
  <2>4. Letters[Slice(text, 0, Len(text))]
            = Letters[Slice(text, 0, a)] \o Letters[Slice(text, a, Len(text))]
      BY <2>2, <2>3, LettersSlices, ZenonT(60)
  <2>5. Letters[Slice(text, a, Len(text))] = <<>>
      BY <2>1, <2>2, BlankSlice
  <2>6. Slice(text, 0, a) \in Text
      BY <2>2, SliceIsText
  <2>7. Letters[Slice(text, 0, a)] \o <<>> = Letters[Slice(text, 0, a)]
      BY <2>6, LettersAreLetters
  <2>8. Slice(text, 0, Len(text)) = text
      BY SliceAll DEF Text
  <2> QED
      BY <2>1, <2>4, <2>5, <2>7, <2>8
<1>13. <<out>> \o parts \in Seq(Text)
    BY <1>1, ConcatProperties
<1> QED
    BY <1>10, <1>11, <1>12, <1>13 DEF parts

\* The letters in a stream that is still to be given a text.
Kept(buf, more) ==
    Letters[Join[buf.tokens]] \o Letters[buf.out] \o Letters[buf.in \o more]

\* The text of the buffer is its first part, with the blanks before it, and
\* what is left when that part has been taken, which starts with a blank.
LEMMA FirstPart ==
    ASSUME NEW text \in Text, Len(Parts[text]) > 1
    PROVE  LET rest == Within(text, PartEnds(text)[1] + 1, Len(text)) IN
           /\ Parts[text][1] \in Text
           /\ rest \in Text /\ Len(rest) < Len(text)
           /\ \A more \in Text :
                 Letters[text \o more] = Letters[Parts[text][1]] \o Letters[rest \o more]
<1> DEFINE parts == Parts[text]
           end == PartEnds(text)
           rest == Within(text, end[1] + 1, Len(text))
<1>1. parts \in Seq(Text) /\ Len(parts) \in Nat /\ Len(parts) > 1
    BY PartsFacts
<1>2. Tiling(end, parts, text, 0, Len(text))
    BY PartEndsTile
<1>3. Len(text) \in Nat /\ text \in Seq(Char)
    BY TextBasics
<1> HIDE DEF parts, end
<1>4. 1 \in 1 .. Len(parts) /\ 2 \in 1 .. Len(parts) /\ 1 - 1 = 0 /\ 2 - 1 = 1
    BY <1>1
<1>5. end[0] = 0 /\ Tile(parts[1], text, end[0], end[1])
    BY <1>2, <1>4 DEF Tiling
<1>6. /\ end[1 - 1] \in Nat /\ end[1] \in Nat
      /\ end[1 - 1] < end[1] /\ end[1] <= Len(text)
      /\ Letters[Slice(text, 0, end[1])]
             = Letters[Slice(text, 0, end[1 - 1])] \o Letters[parts[1]]
    BY <1>1, <1>2, <1>4, TilingFacts, Zenon
<1>7. end[2 - 1] < end[2] /\ end[2] <= Len(text) /\ end[2] \in Nat
  <2>1. /\ end[2 - 1] \in Nat /\ end[2] \in Nat
        /\ end[2 - 1] < end[2] /\ end[2] <= Len(text)
        /\ Letters[Slice(text, 0, end[2])]
               = Letters[Slice(text, 0, end[2 - 1])] \o Letters[parts[2]]
      BY <1>1, <1>2, <1>4, TilingFacts, Zenon
  <2> QED
      BY <2>1
<1>8. PICK e \in Nat : e = end[1]
    BY <1>6
<1>9. 0 < e /\ e < Len(text) /\ 0 \in Nat /\ 0 <= e /\ e <= Len(text)
  <2>1. PICK f \in Nat : f = end[2]
      BY <1>7
  <2> QED
      BY <1>3, <1>4, <1>5, <1>6, <1>7, <1>8, <2>1
<1>10. text[e + 1] \in Blanks
    BY <1>5, <1>8, <1>9 DEF Tile
<1> DEFINE head == Slice(text, 0, e)
           tail == Slice(text, e, Len(text))
<1>11. head \in Text /\ tail \in Text /\ Len(tail) = Len(text) - e
  <2>1. Len(text) <= Len(text)
      BY <1>3
  <2>2. head \in Text
      BY <1>9, SliceIsText
  <2>3. tail \in Text /\ Len(tail) = Len(text) - e
      BY <1>3, <1>9, <2>1, SliceIsText
  <2> QED
      BY <2>2, <2>3
<1>12. rest = tail
  <2>1. \A a, b \in Nat : b >= Len(text) => Within(text, a + 1, b) = Slice(text, a, Len(text))
      BY <1>3, WithinFacts
  <2>2. Within(text, e + 1, Len(text)) = Slice(text, e, Len(text))
      BY <1>3, <2>1
  <2> QED
      BY <1>8, <2>2
<1>13. Letters[head] = Letters[parts[1]]
  <2>1. PICK part \in Text : part = parts[1]
      BY <1>1
  <2>2. Slice(text, 0, 0) = <<>>
      BY SliceNone
  <2>3. <<>> \o Letters[part] = Letters[part] /\ Letters[<<>>] = <<>>
      BY LettersAreLetters, LettersFacts
  <2> QED
      BY <1>4, <1>5, <1>6, <1>8, <2>1, <2>2, <2>3
<1>14. head \o tail = text
  <2>1. e \in 0 .. Len(text) /\ Len(text) \in 0 .. Len(text)
      BY <1>3, <1>9
  <2>2. head \o tail = Slice(text, 0, Len(text))
      BY <1>3, <1>9, <2>1, SliceJoin
  <2> QED
      BY <1>3, <2>2, SliceAll
<1>15. tail # <<>> /\ tail[1] \in Blanks
  <2>1. Len(text) \in e .. Len(text)
      BY <1>3, <1>9
  <2>2. \A i \in 1 .. Len(text) - e : tail[i] = text[e + i]
      BY <1>3, <2>1, SliceFacts, ZenonT(60)
  <2>3. 1 \in 1 .. Len(text) - e
      BY <1>3, <1>9
  <2>4. tail[1] = text[e + 1]
      BY <2>2, <2>3
  <2>5. Len(tail) # 0
      BY <1>3, <1>9, <1>11
  <2> QED
      BY <1>10, <2>4, <2>5, TextBasics
<1> HIDE DEF head, tail, rest
<1>16. ASSUME NEW more \in Text
       PROVE  Letters[text \o more] = Letters[parts[1]] \o Letters[rest \o more]
  <2>1. head \in Seq(Char) /\ tail \in Seq(Char) /\ more \in Seq(Char)
      BY <1>11, TextBasics
  <2>2. text \o more = head \o (tail \o more)
      BY <1>14, <2>1, CharAssociative, ZenonT(60)
  <2>3. (tail \o more)[1] = tail[1]
      BY <1>15, <2>1, ConcatEnds
  <2>4. Parted(head, tail \o more)
      BY <1>15, <2>3 DEF Parted, Blanks
  <2>5. tail \o more \in Text
      BY <1>11, TextBasics
  <2>6. Letters[head \o (tail \o more)] = Letters[head] \o Letters[tail \o more]
      BY <1>11, <2>4, <2>5, LettersConcat
  <2> QED
      BY <1>12, <1>13, <2>2, <2>6
<1>17. Len(tail) < Len(text)
    BY <1>3, <1>9, <1>11
<1>18. parts[1] \in Text
    BY <1>1, <1>4
<1> QED
    BY <1>11, <1>12, <1>16, <1>17, <1>18 DEF rest, parts, end

\* A part that leaves the buffer takes its letters along, to the tokens or to
\* what waits to be long enough.
LEMMA EmittedFacts ==
    ASSUME NEW buf \in Buffers, Len(Parts[buf.in]) > 1
    PROVE  /\ Emitted(buf) \in Buffers
           /\ Len(Emitted(buf).in) < Len(buf.in)
           /\ \A more \in Text : Kept(Emitted(buf), more) = Kept(buf, more)
<1>1. PICK text \in Text, out \in Text, tokens \in Seq(Text) :
          buf = [in |-> text, out |-> out, tokens |-> tokens]
    BY DEF Buffers
<1>2. buf.in = text /\ buf.out = out /\ buf.tokens = tokens
    BY <1>1
<1> DEFINE rest == Within(text, PartEnds(text)[1] + 1, Len(text))
           first == Parts[text][1]
           longer == Joined(out, first)
           long == Len(longer) >= MinLen
<1>3. /\ first \in Text /\ rest \in Text /\ Len(rest) < Len(text)
      /\ \A more \in Text : Letters[text \o more] = Letters[first] \o Letters[rest \o more]
    BY <1>2, FirstPart
<1>4. Emitted(buf) = [in |-> rest,
                      out |-> IF long THEN <<>> ELSE longer,
                      tokens |-> IF long THEN Append(tokens, longer) ELSE tokens]
    BY <1>2 DEF Emitted
<1> HIDE DEF rest, first
<1>5. longer \in Text /\ Letters[longer] = Letters[out] \o Letters[first]
    BY <1>3, JoinedIsText
<1> HIDE DEF longer, long
<1>6. Append(tokens, longer) \in Seq(Text) /\ <<>> \in Text
    BY <1>5, TextBasics
<1>7. Emitted(buf) \in Buffers
    BY <1>3, <1>4, <1>5, <1>6 DEF Buffers
<1>8. ASSUME NEW more \in Text
      PROVE  Kept(Emitted(buf), more) = Kept(buf, more)
  <2>1. Letters[text \o more] = Letters[first] \o Letters[rest \o more]
      BY <1>3
  <2>2. Kept(buf, more) = (Letters[Join[tokens]] \o Letters[out])
                          \o (Letters[first] \o Letters[rest \o more])
      BY <1>2, <2>1 DEF Kept
  <2>3. Join[tokens] \in Text /\ rest \o more \in Text
      BY <1>3, JoinFacts, TextBasics
  <2>4. PICK w \in Seq(Cyrillic) : w = Letters[Join[tokens]]
      BY <2>3, LettersAreLetters
  <2>5. PICK x \in Seq(Cyrillic) : x = Letters[out]
      BY LettersAreLetters
  <2>6. PICK y \in Seq(Cyrillic) : y = Letters[first]
      BY <1>3, LettersAreLetters
  <2>7. PICK z \in Seq(Cyrillic) : z = Letters[rest \o more]
      BY <2>3, LettersAreLetters
  <2>8. /\ (w \o (x \o y)) \o <<>> \o z = (w \o x) \o (y \o z)
        /\ w \o (x \o y) \o z = (w \o x) \o (y \o z)
    <3>1. PICK v \in Seq(Cyrillic) : v = w \o x
        BY CyrillicClosed, ZenonT(60)
    <3>2. (v \o y) \o z = v \o (y \o z)
        BY CyrillicAssociative, ZenonT(60)
    <3>3. (w \o x) \o y = w \o (x \o y)
        BY CyrillicAssociative, ZenonT(60)
    <3>4. PICK u \in Seq(Cyrillic) : u = v \o y
        BY CyrillicClosed, ZenonT(60)
    <3>5. u \o <<>> = u
        BY CyrillicClosed, ZenonT(60)
    <3> QED
        BY <3>1, <3>2, <3>3, <3>4, <3>5, Zenon
  <2>9. CASE long
    <3>1. Emitted(buf) = [in |-> rest, out |-> <<>>, tokens |-> Append(tokens, longer)]
        BY <1>4, <2>9
    <3>6. /\ Emitted(buf).in = rest /\ Emitted(buf).out = <<>>
          /\ Emitted(buf).tokens = Append(tokens, longer)
        BY <3>1
    <3>2. Kept(Emitted(buf), more) = Letters[Join[Append(tokens, longer)]]
                                     \o Letters[<<>>] \o Letters[rest \o more]
        BY <3>6, Zenon DEF Kept
    <3>3. Join[Append(tokens, longer)] = Joined(Join[tokens], longer)
        BY <1>5, JoinFacts
    <3>4. Letters[Join[Append(tokens, longer)]] = Letters[Join[tokens]] \o Letters[longer]
      <4>1. PICK joined \in Text : joined = Join[tokens]
          BY <2>3
      <4>2. Letters[Joined(joined, longer)] = Letters[joined] \o Letters[longer]
          BY <1>5, JoinedIsText
      <4> QED
          BY <3>3, <4>1, <4>2, Zenon
    <3>5. Letters[<<>>] = <<>>
        BY LettersFacts
    <3> QED
        BY <1>5, <2>2, <2>4, <2>5, <2>6, <2>7, <2>8, <3>2, <3>4, <3>5, Zenon
  <2>10. CASE ~long
    <3>1. Emitted(buf) = [in |-> rest, out |-> longer, tokens |-> tokens]
        BY <1>4, <2>10
    <3>6. /\ Emitted(buf).in = rest /\ Emitted(buf).out = longer
          /\ Emitted(buf).tokens = tokens
        BY <3>1
    <3>2. Kept(Emitted(buf), more) = Letters[Join[tokens]]
                                     \o Letters[longer] \o Letters[rest \o more]
        BY <3>6, Zenon DEF Kept
    <3> QED
        BY <1>5, <2>2, <2>4, <2>5, <2>6, <2>7, <2>8, <3>2, Zenon
  <2> QED
      BY <2>9, <2>10
<1>9. Emitted(buf).in = rest
    BY <1>4
<1> QED
    BY <1>2, <1>3, <1>7, <1>8, <1>9

\* Drain is defined for all buffers.
LEMMA DrainFacts ==
    /\ Drain \in [Buffers -> Buffers]
    /\ \A buf \in Buffers :
           Drain[buf] = IF Len(Parts[buf.in]) <= 1 THEN buf ELSE Drain[Emitted(buf)]
<1> DEFINE S == Buffers
           Done == {b \in S : Len(Parts[b.in]) <= 1}
           size == [b \in S |-> Len(b.in)]
           next == [b \in S |-> IF b \in Done THEN b ELSE Emitted(b)]
           base == [b \in S |-> b]
           comb == [p \in S \X S |-> p[2]]
           Body(f) == f = [buf \in S |->
               IF Len(Parts[buf.in]) <= 1 THEN buf ELSE f[Emitted(buf)]]
<1>1. \A b \in S : b \notin Done => /\ Emitted(b) \in S
                                    /\ Len(Emitted(b).in) < Len(b.in)
  <2> SUFFICES ASSUME NEW b \in S, b \notin Done
               PROVE  Emitted(b) \in S /\ Len(Emitted(b).in) < Len(b.in)
      OBVIOUS
  <2>1. b.in \in Text
      BY DEF Buffers
  <2>2. Parts[b.in] \in Seq(Text)
      BY <2>1, PartsFacts
  <2>3. Len(Parts[b.in]) > 1
      BY <2>2
  <2> QED
      BY <2>3, EmittedFacts
<1>2. \A b \in S : Len(b.in) \in Nat
    BY TextBasics DEF Buffers
<1>3. Recursion(S, S, size, next, base, comb, Done)
  <2> HIDE DEF Done, S
  <2>1. size \in [S -> Nat] /\ next \in [S -> S] /\ base \in [S -> S]
      BY <1>1, <1>2
  <2>2. comb \in [S \X S -> S]
      OBVIOUS
  <2>3. \A b \in S : b \notin Done => size[next[b]] < size[b]
      BY <1>1
  <2> HIDE DEF size, next, base, comb
  <2> QED
      BY <2>1, <2>2, <2>3 DEF Recursion
<1>4. ASSUME NEW f, f \in [S -> S], Solves(f, S, S, next, base, comb, Done)
      PROVE  Body(f)
  <2>1. ASSUME NEW b \in S
        PROVE  f[b] = IF Len(Parts[b.in]) <= 1 THEN b ELSE f[Emitted(b)]
    <3>1. CASE b \in Done
      <4>1. f[b] = b
        <5> HIDE DEF Done, S
        <5> QED
            BY <1>4, <3>1 DEF Solves
      <4> QED
          BY <3>1, <4>1
    <3>2. CASE b \notin Done
      <4>1. Emitted(b) \in S /\ next[b] = Emitted(b)
        <5> HIDE DEF Done, S
        <5> QED
            BY <1>1, <3>2
      <4>2. f[Emitted(b)] \in S
          BY <1>4, <4>1
      <4>3. f[b] = f[Emitted(b)]
        <5> HIDE DEF Done, S
        <5>1. comb[<<b, f[next[b]]>>] = f[next[b]]
            BY <4>1, <4>2
        <5> HIDE DEF comb, next
        <5> QED
            BY <1>4, <3>2, <4>1, <4>2, <5>1 DEF Solves
      <4>4. ~(Len(Parts[b.in]) <= 1)
          BY <3>2
      <4> QED
          BY <4>3, <4>4
    <3> QED
        BY <3>1, <3>2
  <2>2. f = [b \in S |-> f[b]]
      BY <1>4
  <2> QED
      BY <2>1, <2>2
<1>5. ASSUME NEW f, Body(f) PROVE Solves(f, S, S, next, base, comb, Done)
  <2>1. f = [b \in S |-> IF Len(Parts[b.in]) <= 1 THEN b ELSE f[Emitted(b)]]
      BY <1>5
  <2>2. f = [b \in S |-> f[b]]
      BY <2>1
  <2>3. \A b \in S : /\ b \in Done => f[b] = b
                     /\ b \notin Done => f[b] = f[Emitted(b)]
      BY <2>1
  <2>4. ASSUME NEW b \in S
        PROVE  /\ b \in Done => f[b] = base[b]
               /\ b \notin Done /\ f[next[b]] \in S => f[b] = comb[<<b, f[next[b]]>>]
    <3> HIDE DEF Done, S
    <3> QED
        BY <2>3, <2>4
  <2> HIDE DEF size, next, base, comb, Done, S
  <2> QED
      BY <2>2, <2>4 DEF Solves
<1> HIDE DEF size, next, base, comb, Done
<1>6. /\ \E f : f \in [S -> S] /\ Solves(f, S, S, next, base, comb, Done)
      /\ \A f : Solves(f, S, S, next, base, comb, Done) => f \in [S -> S]
  <2> HIDE DEF S
  <2> QED
      BY <1>3, RecursiveFunction, Zenon
<1> HIDE DEF Body
<1>7. Body(Drain)
  <2>1. \E f : Body(f)
      BY <1>4, <1>6, Zenon
  <2>2. Body(CHOOSE f : Body(f))
      BY <2>1, Zenon
  <2> QED
      BY <2>2 DEF Drain, Body
<1>8. Drain \in [S -> S]
    BY <1>5, <1>6, <1>7, Zenon
<1> QED
    BY <1>7, <1>8 DEF Body

\* Whatever push_text takes out of the buffer, no letter is lost or moved.
LEMMA DrainKeeps ==
    ASSUME NEW buf \in Buffers
    PROVE  /\ Drain[buf] \in Buffers
           /\ \A more \in Text : Kept(Drain[buf], more) = Kept(buf, more)
<1> DEFINE T == {b \in Buffers :
                    \A more \in Text : Kept(Drain[b], more) = Kept(b, more)}
           size == [b \in Buffers |-> Len(b.in)]
<1>1. size \in [Buffers -> Nat]
    BY TextBasics DEF Buffers
<1>2. ASSUME NEW b \in Buffers, \A c \in Buffers : size[c] < size[b] => c \in T
      PROVE  b \in T
  <2>1. CASE Len(Parts[b.in]) <= 1
      BY <2>1, DrainFacts
  <2>2. CASE ~(Len(Parts[b.in]) <= 1)
    <3>1. Parts[b.in] \in Seq(Text)
        BY PartsFacts DEF Buffers
    <3>2. Len(Parts[b.in]) > 1
        BY <2>2, <3>1
    <3>3. /\ Emitted(b) \in Buffers /\ Len(Emitted(b).in) < Len(b.in)
          /\ \A more \in Text : Kept(Emitted(b), more) = Kept(b, more)
        BY <3>2, EmittedFacts
    <3>4. Emitted(b) \in T
        BY <1>2, <3>3
    <3>5. Drain[b] = Drain[Emitted(b)]
        BY <2>2, DrainFacts
    <3> QED
        BY <3>3, <3>4, <3>5
  <2> QED
      BY <2>1, <2>2
<1>3. \A b \in Buffers : (\A c \in Buffers : size[c] < size[b] => c \in T) => b \in T
    BY <1>2
<1> HIDE DEF T, size
<1>4. Buffers \subseteq T
    BY <1>1, <1>3, SizeInduction, ZenonT(60)
<1> QED
    BY <1>4, DrainFacts DEF T

\* Nor by flush, which leaves the tokens only.
LEMMA FlushedKeeps ==
    ASSUME NEW buf \in Buffers
    PROVE  /\ Flushed(buf) \in Buffers
           /\ Flushed(buf).in = <<>> /\ Flushed(buf).out = <<>>
           /\ Letters[Join[Flushed(buf).tokens]] = Kept(buf, <<>>)
<1>1. PICK text \in Text, out \in Text, tokens \in Seq(Text) :
          buf = [in |-> text, out |-> out, tokens |-> tokens]
    BY DEF Buffers
<1>2. buf.in = text /\ buf.out = out /\ buf.tokens = tokens
    BY <1>1
<1> DEFINE all == Join[<<out>> \o Parts[text]]
           more == IF all = <<>> THEN tokens ELSE Append(tokens, all)
<1>3. all \in Text /\ Letters[all] = Letters[out] \o Letters[text]
    BY FlushLetters, JoinFacts
<1>4. Flushed(buf) = [in |-> <<>>, out |-> <<>>, tokens |-> more]
    BY <1>2 DEF Flushed
<1> HIDE DEF all
<1>5. more \in Seq(Text) /\ <<>> \in Text /\ Join[tokens] \in Text
    BY <1>3, TextBasics, JoinFacts
<1>6. Flushed(buf) \in Buffers
    BY <1>4, <1>5 DEF Buffers
<1>7. Letters[Join[more]] = Letters[Join[tokens]] \o Letters[all]
  <2>1. CASE all = <<>>
      BY <1>5, <2>1, LettersFacts, LettersAreLetters
  <2>2. CASE all # <<>>
    <3>1. Join[Append(tokens, all)] = Joined(Join[tokens], all)
        BY <1>3, JoinFacts
    <3>2. Letters[Joined(Join[tokens], all)] = Letters[Join[tokens]] \o Letters[all]
        BY <1>3, <1>5, JoinedIsText
    <3>3. more = Append(tokens, all)
        BY <2>2
    <3> QED
        BY <3>1, <3>2, <3>3, Zenon
  <2> QED
      BY <2>1, <2>2
<1>8. Kept(buf, <<>>) = Letters[Join[tokens]] \o Letters[out] \o Letters[text]
  <2>1. text \o <<>> = text
      BY TextBasics, ConcatEmptySeq
  <2> QED
      BY <1>2, <2>1 DEF Kept
<1>9. Letters[Join[tokens]] \o (Letters[out] \o Letters[text])
          = Letters[Join[tokens]] \o Letters[out] \o Letters[text]
  <2>1. PICK x \in Seq(Cyrillic) : x = Letters[Join[tokens]]
      BY <1>5, LettersAreLetters
  <2>2. PICK y \in Seq(Cyrillic) : y = Letters[out]
      BY LettersAreLetters
  <2>3. PICK z \in Seq(Cyrillic) : z = Letters[text]
      BY LettersAreLetters
  <2>4. (x \o y) \o z = x \o (y \o z)
      BY CyrillicAssociative, ZenonT(60)
  <2> QED
      BY <2>1, <2>2, <2>3, <2>4, Zenon
<1>10. Flushed(buf).in = <<>> /\ Flushed(buf).out = <<>> /\ Flushed(buf).tokens = more
    BY <1>4
<1> QED
    BY <1>3, <1>6, <1>7, <1>8, <1>9, <1>10

----------------------------------------------------------------------------
(* digits_to_words, chunk by chunk                                         *)

\* The words of the transforms.
LEMMA WordFacts ==
    /\ "O" \in Char /\ "N" \in Char
    /\ <<"O", "N">> \in Text /\ <<"O", "N", " ">> \in Text
    /\ <<"O", "N", " ">> = <<"O", "N">> \o Gap
    /\ \A chunk \in Text : chunk # <<>> => Word(chunk) \in Text
<1>1. "O" \in Char /\ "N" \in Char /\ " " \in Char
    BY DEF Char, WordChars, Cyrillic, Blanks
<1>2. \A d, e \in Char : <<d, e>> \in Seq(Char)
    OBVIOUS
<1>3. \A d, e, f \in Char : <<d, e, f>> \in Seq(Char)
    OBVIOUS
<1>4. \A e \in Char : <<e>> \in Seq(Char)
    OBVIOUS
<1>5. <<"O", "N">> \in Seq(Char) /\ <<"O", "N", " ">> \in Seq(Char)
    BY <1>1, <1>2, <1>3, Zenon
<1>6. <<"O", "N", " ">> = <<"O", "N">> \o Gap
  <2>1. \A d, e, f \in Char : <<d, e, f>> = <<d, e>> \o <<f>>
      OBVIOUS
  <2> QED
      BY <1>1, <2>1, Zenon DEF Gap
<1>7. ASSUME NEW chunk \in Text, chunk # <<>> PROVE Word(chunk) \in Text
  <2>1. chunk[1] \in Char
      BY <1>7 DEF Text
  <2>2. <<chunk[1]>> \in Seq(Char)
      BY <1>4, <2>1, Zenon
  <2> QED
      BY <1>5, <2>2, Zenon DEF Word, Text
<1> QED
    BY <1>1, <1>5, <1>6, <1>7 DEF Text

\* Another digit comes next.
Followed(chunk) == Len(chunk) > 1 /\ chunk[2] \in Digits

\* What the word of a chunk depends on.
LEMMA WordOf ==
    ASSUME NEW p, NEW q, p[1] = q[1],
           p[1] \in Digits => (Followed(p) <=> Followed(q))
    PROVE  Word(p) = Word(q)
  BY Zenon DEF Word, Followed

\* The word of a digit.
LEMMA WordOfDigit ==
    ASSUME NEW p, p[1] \in Digits
    PROVE  /\ Followed(p) => Word(p) = <<"O", "N", " ">>
           /\ ~Followed(p) => Word(p) = <<"O", "N">>
           /\ Word(p) # <<>> /\ Word(p)[1] = "O"
<1>1. /\ Followed(p) => Word(p) = <<"O", "N", " ">>
      /\ ~Followed(p) => Word(p) = <<"O", "N">>
    BY Zenon DEF Word, Followed
<1>2. /\ \A d, e, f \in Char : <<d, e, f>>[1] = d /\ <<d, e, f>> # <<>>
      /\ \A d, e \in Char : <<d, e>>[1] = d /\ <<d, e>> # <<>>
    OBVIOUS
<1>3. " " \in Char
    BY GapFacts
<1>4. /\ <<"O", "N", " ">>[1] = "O" /\ <<"O", "N", " ">> # <<>>
      /\ <<"O", "N">>[1] = "O" /\ <<"O", "N">> # <<>>
    BY <1>2, <1>3, WordFacts, Zenon
<1> QED
    BY <1>1, <1>4, Zenon

\* Spell is defined for all texts.
LEMMA SpellFacts ==
    /\ Spell \in [Text -> Text]
    /\ Spell[<<>>] = <<>>
    /\ \A chunk \in Text : chunk # <<>> =>
           Spell[chunk] = Word(chunk) \o Spell[Tail(chunk)]
<1> DEFINE size == [t \in Text |-> Len(t)]
           next == [t \in Text |-> IF t = <<>> THEN t ELSE Tail(t)]
           first == [t \in Text |-> IF t = <<>> THEN <<>> ELSE Word(t)]
           Done == {<<>>}
           Body(f) == f = [chunk \in Text |->
                              IF chunk = <<>> THEN <<>>
                              ELSE Word(chunk) \o f[Tail(chunk)]]
<1>1. \A t \in Text : t # <<>> => Tail(t) \in Text /\ Len(Tail(t)) < Len(t)
    BY TailFacts DEF Text
<1>2. size \in [Text -> Nat] /\ next \in [Text -> Text] /\ <<>> \in Text
    BY <1>1, TextBasics
<1>3. first \in [Text -> Seq(Char)]
  <2>1. \A t \in Text : t # <<>> => Word(t) \in Text
      BY WordFacts
  <2> QED
      BY <2>1, TextBasics
<1>4. \A t \in Text : t \notin Done => size[next[t]] < size[t]
    BY <1>1
<1>5. \A f : PieceByPiece(f, Text, next, first, Done) <=> Body(f)
  <2> SUFFICES ASSUME NEW f
               PROVE  PieceByPiece(f, Text, next, first, Done) <=> Body(f)
      OBVIOUS
  <2> DEFINE g == [x \in Text |-> IF x \in Done THEN <<>> ELSE first[x] \o f[next[x]]]
             h == [x \in Text |-> IF x = <<>> THEN <<>> ELSE Word(x) \o f[Tail(x)]]
  <2>1. \A x \in Text : g[x] = h[x]
      OBVIOUS
  <2>2. g = h
      BY <2>1
  <2>3. PieceByPiece(f, Text, next, first, Done) <=> f = g
      BY DEF PieceByPiece
  <2>4. Body(f) <=> f = h
      OBVIOUS
  <2> QED
      BY <2>2, <2>3, <2>4
<1> HIDE DEF size, next, first, Done, Body
<1>0. Pieces(Text, Char, size, next, first, Done)
    BY <1>2, <1>3, <1>4 DEF Pieces
<1>6. /\ \E f : Body(f)
      /\ \A f : Body(f) => f \in [Text -> Seq(Char)]
  <2>1. /\ \E f : PieceByPiece(f, Text, next, first, Done)
        /\ \A f : PieceByPiece(f, Text, next, first, Done)
                  => f \in [Text -> Seq(Char)]
      BY <1>0, RecursiveSequence, Zenon
  <2> QED
      BY <1>5, <2>1, Zenon
<1>7. Body(Spell)
  <2>1. Body(CHOOSE f : Body(f))
      BY <1>6, Zenon
  <2> QED
      BY <2>1 DEF Spell, Body
<1>8. \A t \in Text : Spell[t] = IF t = <<>> THEN <<>>
                                 ELSE Word(t) \o Spell[Tail(t)]
    BY <1>7 DEF Body
<1> QED
    BY <1>2, <1>6, <1>7, <1>8, TextBasics

\* A gap is not heard where no digraph is split.
LEMMA GapIsSilent ==
    ASSUME NEW a \in Text, NEW b \in Text, Parted(a, b)
    PROVE  Letters[a \o (Gap \o b)] = Letters[a \o b]
<1>1. Gap \in Text /\ Len(Gap) = 1 /\ Gap[1] = " " /\ Gap # <<>> /\ Letters[Gap] = <<>>
    BY GapFacts
<1>2. a \in Seq(Char) /\ b \in Seq(Char) /\ Gap \in Seq(Char) /\ Gap \o b \in Text
    BY <1>1, TextBasics
<1>3. Parted(Gap, b)
    BY <1>1 DEF Parted
<1>4. Letters[Gap \o b] = Letters[Gap] \o Letters[b]
    BY <1>1, <1>3, LettersConcat
<1>5. (Gap \o b)[1] = " "
    BY <1>1, <1>2, ConcatEnds
<1>6. Parted(a, Gap \o b)
    BY <1>5 DEF Parted
<1>7. Letters[a \o (Gap \o b)] = Letters[a] \o Letters[Gap \o b]
    BY <1>2, <1>6, LettersConcat
<1>8. <<>> \o Letters[b] = Letters[b]
    BY LettersAreLetters
<1>9. Letters[a \o b] = Letters[a] \o Letters[b]
    BY LettersConcat
<1> QED
    BY <1>1, <1>4, <1>7, <1>8, <1>9

\* A chunk that is spelt in two parts gives the same letters, whatever comes
\* before it: only the gap between the words of two digits is lost.
LEMMA SpellConcat ==
    ASSUME NEW a \in Text, NEW b \in Text, NEW before \in Text
    PROVE  Letters[before \o Spell[a \o b]] = Letters[before \o (Spell[a] \o Spell[b])]
<1> DEFINE T == {t \in Text : \A x \in Text :
                    Letters[x \o Spell[t \o b]] = Letters[x \o (Spell[t] \o Spell[b])]}
<1>1. b \in Seq(Char) /\ Spell[b] \in Text /\ Spell[b] \in Seq(Char)
    BY SpellFacts, TextBasics
<1>2. ASSUME NEW t \in Text, \A s \in Text : Len(s) < Len(t) => s \in T
      PROVE  t \in T
  <2> SUFFICES ASSUME NEW x \in Text
               PROVE  Letters[x \o Spell[t \o b]] = Letters[x \o (Spell[t] \o Spell[b])]
      OBVIOUS
  <2>1. CASE t = <<>>
    <3>1. t \o b = b /\ <<>> \o Spell[b] = Spell[b]
        BY <1>1, <2>1, ConcatEmptySeq
    <3> QED
        BY <2>1, <3>1, SpellFacts
  <2>2. CASE t # <<>>
    <3>1. t \in Seq(Char) /\ x \in Seq(Char) /\ Len(t) \in Nat /\ Len(t) >= 1
        BY <2>2, TextBasics
    <3>2. /\ (t \o b)[1] = t[1]
          /\ Len(t) > 1 => (t \o b)[2] = t[2]
          /\ Len(t) = 1 /\ b # <<>> => (t \o b)[2] = b[1]
          /\ Len(t \o b) = Len(t) + Len(b) /\ t \o b # <<>>
        BY <1>1, <2>2, <3>1, ConcatEnds
    <3>3. Tail(t) \in Text /\ Len(Tail(t)) < Len(t) /\ Len(Tail(t)) = Len(t) - 1
        BY <2>2, <3>1, TailFacts, TextBasics
    <3>4. Tail(t \o b) = Tail(t) \o b
        BY <1>1, <2>2, <3>1, TailConcat
    <3>5. t \o b \in Text /\ Tail(t) \o b \in Text
        BY <3>3, TextBasics
    <3>6. Spell[t \o b] = Word(t \o b) \o Spell[Tail(t) \o b]
        BY <3>2, <3>4, <3>5, SpellFacts
    <3>7. Spell[t] = Word(t) \o Spell[Tail(t)]
        BY <2>2, SpellFacts
    <3>8. PICK word \in Seq(Char) : word = Word(t)
        BY <2>2, WordFacts, TextBasics
    <3>9. PICK rest \in Seq(Char) : rest = Spell[Tail(t)]
        BY <3>3, SpellFacts, TextBasics
    <3>10. PICK more \in Seq(Char) : more = Spell[b]
        BY <1>1
    <3>11. PICK both \in Seq(Char) : both = Spell[Tail(t) \o b]
        BY <3>5, SpellFacts, TextBasics
    <3>12. x \o word \in Text
        BY <3>1, <3>8, TextBasics
    <3>13. x \o (word \o both) = (x \o word) \o both
        BY <3>1, CharAssociative, ZenonT(60)
    <3>14. CASE t[1] \in Digits => (Followed(t \o b) <=> Followed(t))
      <4>0. Word(t \o b) = Word(t)
          BY <3>2, <3>14, WordOf, Zenon
      <4>1. Letters[(x \o word) \o both] = Letters[(x \o word) \o (rest \o more)]
        <5>1. Tail(t) \in T
            BY <1>2, <3>3
        <5> QED
            BY <3>9, <3>10, <3>11, <3>12, <5>1
      <4>2. (x \o word) \o (rest \o more) = x \o (word \o (rest \o more))
        <5>1. PICK u \in Seq(Char) : u = rest \o more
            BY ConcatProperties
        <5>2. \A v \in Seq(Char) : (x \o word) \o v = x \o (word \o v)
            BY <3>1, CharAssociative, ZenonT(60)
        <5> QED
            BY <5>1, <5>2, Zenon
      <4>3. (word \o rest) \o more = word \o (rest \o more)
          BY CharAssociative, ZenonT(60)
      <4> QED
          BY <3>6, <3>7, <3>8, <3>9, <3>10, <3>11, <3>13, <4>0, <4>1, <4>2, <4>3, Zenon
    <3>15. CASE ~(t[1] \in Digits => (Followed(t \o b) <=> Followed(t)))
      <4>1. /\ Len(t) = 1 /\ b # <<>> /\ b[1] \in Digits
            /\ ~Followed(t) /\ Followed(t \o b)
        <5>1. Len(b) \in Nat /\ (b = <<>> => Len(b) = 0)
            BY TextBasics
        <5>2. CASE Len(t) > 1
          <6>1. Len(t \o b) > 1 /\ (t \o b)[2] = t[2]
              BY <3>1, <3>2, <5>1, <5>2
          <6> QED
              BY <3>15, <5>2, <6>1 DEF Followed
        <5>3. CASE ~(Len(t) > 1)
          <6>1. ~Followed(t)
              BY <5>3 DEF Followed
          <6>2. Followed(t \o b)
              BY <3>15, <6>1
          <6>3. Len(t) = 1
            <7>1. PICK n \in Nat : n = Len(t)
                BY <3>1
            <7>2. n >= 1 /\ ~(n > 1)
                BY <3>1, <5>3, <7>1
            <7> QED
                BY <7>1, <7>2
          <6>4. Len(t \o b) > 1 /\ (t \o b)[2] \in Digits
              BY <6>2 DEF Followed
          <6>5. b # <<>>
              BY <3>2, <5>1, <6>3, <6>4
          <6> QED
              BY <3>2, <6>1, <6>2, <6>3, <6>4, <6>5
        <5> QED
            BY <5>2, <5>3
      <4>2. (t \o b)[1] \in Digits /\ t[1] \in Digits
          BY <3>2, <3>15
      <4>3. Word(t \o b) = <<"O", "N", " ">> /\ Word(t) = <<"O", "N">>
          BY <4>1, <4>2, WordOfDigit, Zenon
      <4>4. Word(t \o b) = word \o Gap
          BY <3>8, <4>3, WordFacts
      <4>5. Tail(t) = <<>>
          BY <3>3, <4>1, TextBasics
      <4>6. rest = <<>> /\ both = more
        <5>1. Tail(t) \o b = b
            BY <1>1, <4>5, ConcatEmptySeq
        <5> QED
            BY <3>9, <3>10, <3>11, <4>5, <5>1, SpellFacts
      <4>7. Parted(x \o word, more)
        <5>1. more = Word(b) \o Spell[Tail(b)]
            BY <3>10, <4>1, SpellFacts
        <5>2. Word(b) \in Seq(Char)
            BY <4>1, WordFacts, TextBasics
        <5>3. Word(b) # <<>> /\ Word(b)[1] = "O"
            BY <4>1, WordOfDigit, Zenon
        <5>4. Spell[Tail(b)] \in Seq(Char)
            BY <4>1, TailFacts, SpellFacts, TextBasics
        <5>5. more[1] = "O"
            BY <5>1, <5>2, <5>3, <5>4, ConcatEnds
        <5> QED
            BY <5>5 DEF Parted
      <4>8. Letters[(x \o word) \o (Gap \o more)] = Letters[(x \o word) \o more]
          BY <3>10, <3>12, <4>7, GapIsSilent, TextBasics
      <4>9. x \o ((word \o Gap) \o more) = (x \o word) \o (Gap \o more)
        <5>1. Gap \in Seq(Char)
            BY GapFacts, TextBasics
        <5>2. (word \o Gap) \o more = word \o (Gap \o more)
            BY <5>1, CharAssociative, ZenonT(60)
        <5>3. PICK u \in Seq(Char) : u = Gap \o more
            BY <5>1, ConcatProperties
        <5>4. \A v \in Seq(Char) : (x \o word) \o v = x \o (word \o v)
            BY <3>1, CharAssociative, ZenonT(60)
        <5> QED
            BY <5>2, <5>3, <5>4, Zenon
      <4>10. (x \o word) \o more = x \o ((word \o rest) \o more)
        <5>1. word \o rest = word
            BY <4>6, ConcatEmptySeq
        <5>2. (x \o word) \o more = x \o (word \o more)
            BY <3>1, CharAssociative, ZenonT(60)
        <5> QED
            BY <5>1, <5>2, Zenon
      <4> QED
          BY <3>6, <3>7, <3>8, <3>9, <3>10, <3>11, <4>4, <4>6, <4>8, <4>9, <4>10, Zenon
    <3> QED
        BY <3>14, <3>15
  <2> QED
      BY <2>1, <2>2
<1>3. \A t \in Text : (\A s \in Text : Len(s) < Len(t) => s \in T) => t \in T
    BY <1>2
<1> HIDE DEF T
<1>4. Text \subseteq T
    BY <1>3, TextInduction, Zenon
<1>5. a \in T
    BY <1>4
<1> QED
    BY <1>5 DEF T

\* The letters in a stream are letters.
LEMMA KeptFacts ==
    ASSUME NEW buf \in Buffers, NEW more \in Text
    PROVE  /\ buf.in \in Text /\ buf.out \in Text /\ buf.tokens \in Seq(Text)
           /\ Letters[Join[buf.tokens]] \in Seq(Cyrillic)
           /\ Letters[buf.out] \in Seq(Cyrillic)
           /\ Letters[buf.in \o more] \in Seq(Cyrillic)
           /\ Kept(buf, more) \in Seq(Cyrillic)
<1>1. buf.in \in Text /\ buf.out \in Text /\ buf.tokens \in Seq(Text)
    BY DEF Buffers
<1>2. Join[buf.tokens] \in Text /\ buf.in \o more \in Text
    BY <1>1, JoinFacts, TextBasics
<1>3. /\ Letters[Join[buf.tokens]] \in Seq(Cyrillic)
      /\ Letters[buf.out] \in Seq(Cyrillic)
      /\ Letters[buf.in \o more] \in Seq(Cyrillic)
    BY <1>1, <1>2, LettersAreLetters
<1>4. Kept(buf, more) \in Seq(Cyrillic)
    BY <1>3, CyrillicClosed, Zenon DEF Kept
<1> QED
    BY <1>1, <1>3, <1>4

\* A chunk moves letters from what is still to come into the buffer.
LEMMA ChunkKeeps ==
    ASSUME NEW buf \in Buffers, NEW a \in Text, NEW b \in Text
    PROVE  LET longer == [buf EXCEPT !.in = @ \o Spell[a]] IN
           /\ longer \in Buffers
           /\ Kept(longer, Spell[b]) = Kept(buf, Spell[a \o b])
<1> DEFINE longer == [buf EXCEPT !.in = buf.in \o Spell[a]]
<1>1. buf.in \in Text /\ buf.out \in Text /\ buf.tokens \in Seq(Text)
    BY DEF Buffers
<1>2. Spell[a] \in Text /\ Spell[b] \in Text
    BY SpellFacts
<1>3. buf.in \o Spell[a] \in Text
    BY <1>1, <1>2, TextBasics
<1>4. /\ longer \in Buffers
      /\ longer.in = buf.in \o Spell[a]
      /\ longer.out = buf.out /\ longer.tokens = buf.tokens
    BY <1>3 DEF Buffers
<1> HIDE DEF longer
<1>5. Letters[buf.in \o Spell[a \o b]] = Letters[buf.in \o (Spell[a] \o Spell[b])]
    BY <1>1, SpellConcat
<1>6. (buf.in \o Spell[a]) \o Spell[b] = buf.in \o (Spell[a] \o Spell[b])
  <2>1. buf.in \in Seq(Char) /\ Spell[a] \in Seq(Char) /\ Spell[b] \in Seq(Char)
      BY <1>1, <1>2, TextBasics
  <2> QED
      BY <2>1, CharAssociative, ZenonT(60)
<1>7. Kept(longer, Spell[b]) = Kept(buf, Spell[a \o b])
    BY <1>4, <1>5, <1>6, Zenon DEF Kept
<1> QED
    BY <1>4, <1>7 DEF longer

\* push_text keeps every letter, whether it takes tokens out or not.
LEMMA PushedKeeps ==
    ASSUME NEW buf \in Buffers, NEW a \in Text, NEW b \in Text
    PROVE  LET longer == [buf EXCEPT !.in = @ \o Spell[a]] IN
           /\ longer \in Buffers /\ Drain[longer] \in Buffers
           /\ Kept(longer, Spell[b]) = Kept(buf, Spell[a \o b])
           /\ Kept(Drain[longer], Spell[b]) = Kept(buf, Spell[a \o b])
<1> DEFINE longer == [buf EXCEPT !.in = @ \o Spell[a]]
<1>1. longer \in Buffers /\ Kept(longer, Spell[b]) = Kept(buf, Spell[a \o b])
    BY ChunkKeeps
<1> HIDE DEF longer
<1>2. Spell[b] \in Text
    BY SpellFacts
<1>3. Drain[longer] \in Buffers /\ Kept(Drain[longer], Spell[b]) = Kept(longer, Spell[b])
    BY <1>1, <1>2, DrainKeeps
<1>4. /\ longer \in Buffers /\ Drain[longer] \in Buffers
      /\ Kept(longer, Spell[b]) = Kept(buf, Spell[a \o b])
      /\ Kept(Drain[longer], Spell[b]) = Kept(buf, Spell[a \o b])
    BY <1>1, <1>3
<1> QED
    BY <1>4 DEF longer

\* A stream that has nothing, apart from its tokens.
LEMMA KeptTokens ==
    ASSUME NEW buf \in Buffers, buf.in = <<>>, buf.out = <<>>
    PROVE  Kept(buf, <<>>) = Letters[Join[buf.tokens]]
<1>1. <<>> \in Text /\ Letters[<<>>] = <<>> /\ <<>> \o <<>> = <<>>
    BY TextBasics, LettersFacts
<1>2. PICK x \in Seq(Cyrillic) : x = Letters[Join[buf.tokens]]
    BY <1>1, KeptFacts
<1>3. x \o <<>> = x
    BY CyrillicClosed, ZenonT(60)
<1> QED
    BY <1>1, <1>2, <1>3, Zenon DEF Kept

\* The token that is read has the first letters.
LEMMA TokenKeeps ==
    ASSUME NEW buf \in Buffers, buf.tokens # <<>>, NEW more \in Text
    PROVE  LET next == [buf EXCEPT !.tokens = Tail(@)] IN
           /\ next \in Buffers /\ next.in = buf.in /\ next.out = buf.out
           /\ Head(buf.tokens) \in Text
           /\ Kept(buf, more) = Letters[Head(buf.tokens)] \o Kept(next, more)
<1> DEFINE next == [buf EXCEPT !.tokens = Tail(buf.tokens)]
<1>1. buf.tokens \in Seq(Text)
    BY DEF Buffers
<1>2. /\ Head(buf.tokens) \in Text /\ Tail(buf.tokens) \in Seq(Text)
      /\ Letters[Join[buf.tokens]]
             = Letters[Head(buf.tokens)] \o Letters[Join[Tail(buf.tokens)]]
    BY <1>1, JoinHead
<1>3. next \in Buffers
    BY <1>2 DEF Buffers
<1>4. next.in = buf.in /\ next.out = buf.out /\ next.tokens = Tail(buf.tokens)
    BY DEF Buffers
<1> HIDE DEF next
<1>5. PICK w \in Seq(Cyrillic) : w = Letters[Head(buf.tokens)]
    BY <1>2, LettersAreLetters
<1>6. PICK x \in Seq(Cyrillic) : x = Letters[Join[next.tokens]]
    BY <1>3, KeptFacts
<1>7. PICK y \in Seq(Cyrillic) : y = Letters[next.out]
    BY <1>3, KeptFacts
<1>8. PICK z \in Seq(Cyrillic) : z = Letters[next.in \o more]
    BY <1>3, KeptFacts
<1>9. ((w \o x) \o y) \o z = w \o ((x \o y) \o z)
  <2>1. PICK v \in Seq(Cyrillic) : v = x \o y
      BY CyrillicClosed, ZenonT(60)
  <2>2. (w \o x) \o y = w \o (x \o y)
      BY CyrillicAssociative, ZenonT(60)
  <2>3. (w \o v) \o z = w \o (v \o z)
      BY CyrillicAssociative, ZenonT(60)
  <2> QED
      BY <2>1, <2>2, <2>3, Zenon
<1>10. Kept(buf, more) = ((w \o x) \o y) \o z
    BY <1>2, <1>4, <1>5, <1>6, <1>7, <1>8, Zenon DEF Kept
<1>11. Kept(next, more) = (x \o y) \o z
    BY <1>6, <1>7, <1>8, Zenon DEF Kept
<1>12. Kept(buf, more) = Letters[Head(buf.tokens)] \o Kept(next, more)
    BY <1>5, <1>9, <1>10, <1>11, Zenon
<1> QED
    BY <1>2, <1>3, <1>4, <1>12 DEF next

----------------------------------------------------------------------------
(* The service and its clients                                             *)

\* What _synth_executor is given.
Jobs == [by : Clients, text : Texts]

\* A client that sleeps has an attempt left.
AttemptsLeft ==
    \A c \in Clients : at[c] = "backoff" => attempt[c] < MaxRetries

\* The caches are full while requests are answered.
ServesWarm == phase = "serving" => warm = Phrases /\ named = Keys

\* The worker is never asked for a text of the warm-up.
PhrasesNeverQueued ==
    \A i \in DOMAIN queue : queue[i].text \notin Phrases

ServiceInv == TypeOK /\ AttemptsLeft /\ ServesWarm /\ PhrasesNeverQueued

USE MaxRetriesAssumption
USE DEF serviceVars, clientVars

\* Requests of the three kinds are told apart by their kind.
LEMMA TtsRequest ==
    ASSUME NEW r \in Requests, r.kind = "tts"
    PROVE  r.text \in Texts /\ r = Tts(r.text)
  BY DEF Requests, Select, Tts

\* The fields of a job.
LEMMA JobTypes ==
    ASSUME queue \in Seq(Jobs)
    PROVE  \A i \in DOMAIN queue :
              /\ queue[i] \in Jobs
              /\ queue[i].by \in Clients
              /\ queue[i].text \in Texts
<1>1. \A i \in DOMAIN queue : queue[i] \in Jobs
    OBVIOUS
<1> QED
    BY <1>1 DEF Jobs

\* The service starts cold, and nobody has asked for anything.
LEMMA InitInv == Init => ServiceInv
  BY DEF Init, ServiceInv, TypeOK, AttemptsLeft, ServesWarm,
         PhrasesNeverQueued, Requests, Select

\* The service's life leaves the clients alone; a crash empties the queue.
LEMMA LifespanStep == ServiceInv /\ Lifespan => ServiceInv'
<1> SUFFICES ASSUME ServiceInv, Lifespan PROVE ServiceInv'
    OBVIOUS
<1> USE DEF ServiceInv, TypeOK, AttemptsLeft, ServesWarm, PhrasesNeverQueued
<1>1. CASE WarmUp
    BY <1>1 DEF WarmUp
<1>2. CASE Serve
    BY <1>2 DEF Serve, WarmedUp
<1>3. CASE Crash
    BY <1>3 DEF Crash
<1>4. CASE Restart
    BY <1>4 DEF Restart
<1> QED
    BY <1>1, <1>2, <1>3, <1>4 DEF Lifespan

\* A handler answers from the caches, or appends a job that is for no phrase.
LEMMA HandleStep ==
    ASSUME ServiceInv, NEW c \in Clients, Handle(c)
    PROVE  ServiceInv'
<1> USE DEF ServiceInv, TypeOK
<1>1. CASE Cached(asked[c])
  <2>1. /\ \E to \in {"failed", "answered"} : at' = [at EXCEPT ![c] = to]
        /\ UNCHANGED <<serviceVars, queue, asked, attempt>>
        /\ at[c] = "send"
      BY <1>1 DEF Handle
  <2> QED
      BY <2>1 DEF AttemptsLeft, ServesWarm, PhrasesNeverQueued
<1>2. CASE ~Cached(asked[c])
  <2>1. /\ at' = [at EXCEPT ![c] = "wait"]
        /\ queue' = Append(queue, Job(c))
        /\ UNCHANGED <<serviceVars, asked, attempt>>
        /\ at[c] = "send" /\ phase = "serving"
      BY <1>2 DEF Handle
  <2>2. /\ asked[c].text \in Texts \ Phrases
        /\ asked[c] = Tts(asked[c].text)
      BY <1>2, <2>1, TtsRequest DEF Cached, ServesWarm
  <2>3. Job(c) \in Jobs
      BY <2>2 DEF Job, Jobs
  <2>4. queue \in Seq(Jobs)
      BY DEF Jobs
  <2>5. /\ queue' \in Seq(Jobs)
        /\ DOMAIN queue' = 1 .. Len(queue) + 1
        /\ \A i \in 1 .. Len(queue) : queue'[i] = queue[i]
        /\ queue'[Len(queue) + 1] = Job(c)
      BY <2>1, <2>3, <2>4
  <2>6. TypeOK'
      BY <2>1, <2>5 DEF Jobs
  <2>7. AttemptsLeft' /\ ServesWarm'
      BY <2>1 DEF AttemptsLeft, ServesWarm
  <2>8. PhrasesNeverQueued'
      BY <2>1, <2>2, <2>4, <2>5 DEF PhrasesNeverQueued, Job
  <2> QED
      BY <2>6, <2>7, <2>8
<1> QED
    BY <1>1, <1>2

\* The worker answers whoever waits for its first job.
LEMMA WorkerStep == ServiceInv /\ WorkerDone => ServiceInv'
<1> SUFFICES ASSUME ServiceInv, WorkerDone PROVE ServiceInv'
    OBVIOUS
<1> USE DEF ServiceInv, TypeOK
<1>1. /\ queue \in Seq(Jobs) /\ queue # <<>>
      /\ queue' = Tail(queue)
      /\ UNCHANGED <<serviceVars, asked, attempt>>
    BY DEF WorkerDone, Jobs
<1>2. /\ queue' \in Seq(Jobs)
      /\ \A i \in DOMAIN queue' : /\ i + 1 \in DOMAIN queue
                                  /\ queue'[i] = queue[i + 1]
      /\ 1 \in DOMAIN queue /\ Head(queue) = queue[1]
      /\ \A i \in DOMAIN queue' : i \in Nat /\ i + 1 # 1
    BY <1>1
<1>3. /\ queue[1] \in Jobs
      /\ at' = at \/ at' = [at EXCEPT ![queue[1].by] = "answered"]
    BY <1>1, <1>2 DEF WorkerDone
<1>4. TypeOK'
    BY <1>1, <1>2, <1>3 DEF Jobs
<1>5. AttemptsLeft' /\ ServesWarm'
    BY <1>1, <1>3 DEF AttemptsLeft, ServesWarm, Jobs
<1>6. PhrasesNeverQueued'
    BY <1>1, <1>2 DEF PhrasesNeverQueued
<1> QED
    BY <1>4, <1>5, <1>6

\* A client that gives up, or sleeps, leaves its job where it is.
LEMMA GiveUpStep ==
    ASSUME ServiceInv, NEW c \in Clients, TryAgain(c) \/ Cancel(c)
    PROVE  ServiceInv'
<1> USE DEF ServiceInv, TypeOK
<1>1. /\ UNCHANGED <<serviceVars, queue, asked, attempt>>
      /\ \E to \in {"failed", "backoff", "idle"} :
            /\ at' = [at EXCEPT ![c] = to]
            /\ to = "backoff" => attempt[c] # MaxRetries
    BY DEF TryAgain, Cancel, LastAttempt
<1>2. TypeOK'
    BY <1>1
<1>3. AttemptsLeft' /\ ServesWarm' /\ PhrasesNeverQueued'
    BY <1>1 DEF AttemptsLeft, ServesWarm, PhrasesNeverQueued
<1> QED
    BY <1>2, <1>3

\* The client's other steps leave the service and its queue alone.
LEMMA ClientStep ==
    ASSUME ServiceInv, NEW c \in Clients,
           \/ \E r \in Requests : Ask(c, r)
           \/ Dropped(c) \/ BackoffOver(c) \/ Return(c)
    PROVE  ServiceInv'
<1> USE DEF ServiceInv, TypeOK
<1>1. /\ UNCHANGED <<serviceVars, queue>>
      /\ \E to \in {"send", "failed", "idle"} : at' = [at EXCEPT ![c] = to]
    BY DEF Ask, Dropped, BackoffOver, Return, Goto
<1>2. /\ asked' \in [Clients -> Requests]
      /\ \A d \in Clients \ {c} : asked'[d] = asked[d]
    BY DEF Ask, Dropped, BackoffOver, Return
<1>3. attempt' \in [Clients -> 0 .. MaxRetries] /\ AttemptsLeft'
  <2>1. CASE \E r \in Requests : Ask(c, r)
      BY <2>1 DEF Ask, Goto, AttemptsLeft
  <2>2. CASE Dropped(c) \/ Return(c)
      BY <2>2 DEF Dropped, Return, Goto, AttemptsLeft
  <2>3. CASE BackoffOver(c)
      BY <2>3 DEF BackoffOver, NextAttempt, Goto, AttemptsLeft
  <2> QED
      BY <2>1, <2>2, <2>3
<1>4. TypeOK'
    BY <1>1, <1>2, <1>3
<1>5. ServesWarm' /\ PhrasesNeverQueued'
    BY <1>1 DEF ServesWarm, PhrasesNeverQueued
<1> QED
    BY <1>3, <1>4, <1>5

\* ServiceInv is kept by every step.
LEMMA ServiceInvStep ==
    ASSUME ServiceInv, [Next]_vars
    PROVE  ServiceInv'
<1>1. CASE UNCHANGED vars
    BY <1>1 DEF vars, ServiceInv, TypeOK, AttemptsLeft, ServesWarm,
                PhrasesNeverQueued
<1>2. CASE Lifespan \/ WorkerDone
    BY <1>2, LifespanStep, WorkerStep
<1>3. ASSUME NEW c \in Clients,
             \/ \E r \in Requests : Ask(c, r)
             \/ Attempt(c) \/ Cancel(c) \/ Return(c)
      PROVE  ServiceInv'
    BY <1>3, HandleStep, GiveUpStep, ClientStep DEF Attempt
<1> QED
    BY <1>1, <1>2, <1>3 DEF Next

\* ServiceInv is inductive.
THEOREM Invariance == Spec => []ServiceInv
  BY InitInv, ServiceInvStep, PTL DEF Spec

\* Every variable keeps its type, and no request is made more than
\* 1 + MaxRetries times.
THEOREM TypeCorrect == Spec => []TypeOK
<1>1. ServiceInv => TypeOK
    BY DEF ServiceInv
<1> QED
    BY Invariance, <1>1, PTL

\* No client waits behind the worker for a phrase of the warm-up.
THEOREM PhrasesAreCached == Spec => []PhrasesNeverQueued
<1>1. ServiceInv => PhrasesNeverQueued
    BY DEF ServiceInv
<1> QED
    BY Invariance, <1>1, PTL

\* A request for a phrase that reaches a handler is answered.
THEOREM PhrasesAreServed == Spec => PhraseServed
<1>1. ServiceInv /\ [Next]_vars =>
          [\A c \in Clients :
              Handle(c) /\ ForPhrase(asked[c]) /\ Phrases # {}
                  => at'[c] = "answered"]_vars
  <2> SUFFICES ASSUME ServiceInv, NEW c \in Clients, Handle(c),
                      ForPhrase(asked[c]), Phrases # {}
               PROVE  at'[c] = "answered"
      OBVIOUS
  <2>1. asked[c] \in Requests /\ warm = Phrases /\ named = Keys
      BY DEF ServiceInv, TypeOK, ServesWarm, Handle
  <2>2. ~Rejected(asked[c]) /\ Cached(asked[c])
      BY <2>1 DEF Rejected, Cached, Requests, Select, ForPhrase
  <2> QED
      BY <2>2 DEF Handle, ServiceInv, TypeOK
<1> QED
    BY <1>1, Invariance, PTL DEF Spec, PhraseServed

----------------------------------------------------------------------------
(* The reply                                                               *)

\* Any text may be asked for.
AllTexts == Text \subseteq Texts

\* What the reply says.
Wanted == Letters[Spell[reply]]

\* What the LLM has yet to give.
Rest == Slice(reply, given, Len(reply))

\* The letters of the sentence that is asked for.
Saying == IF at[speech] = "idle" THEN <<>> ELSE Letters[asked[speech].text]

\* The types.
ReplyOK ==
    /\ reply \in Replies
    /\ given \in 0 .. Len(reply)
    /\ stream \in Buffers
    /\ state \in {"written", "complete", "said", "failed"}
    /\ heard \in Seq(Cyrillic \cup {Silence})

\* The plugin asks for texts, and for nothing after the reply's end.
AsksForTexts ==
    /\ at[speech] # "idle" => asked[speech].kind = "tts" /\ asked[speech].text \in Text
    /\ state \in {"said", "failed"} => at[speech] = "idle"

\* The end of the reply is reached when everything has left the stream.
EndsEmpty ==
    /\ state \in {"complete", "said"} =>
           given = Len(reply) /\ stream.in = <<>> /\ stream.out = <<>>
    /\ state = "said" => stream.tokens = <<>>

\* The letters that have been played, or were silent.
Passed == Within(Wanted, 1, Len(heard))

\* No letter is lost, doubled or moved: what has passed, what is being said,
\* what is in the stream and what is still to come make the reply.
NoLetterLost ==
    state # "failed" => (Passed \o Saying) \o Kept(stream, Spell[Rest]) = Wanted

\* One sequence is the other as far as it goes, but for the silence.
Echoes(some, all) == \A i \in DOMAIN some : some[i] \in {all[i], Silence}

\* What was heard is the beginning of the reply, but for the silence.
HeardFirst == Len(heard) <= Len(Wanted) /\ Echoes(heard, Wanted)

\* What makes SaidInOrder inductive.
SpeechInv ==
    ReplyOK /\ AsksForTexts /\ EndsEmpty /\ NoLetterLost /\ HeardFirst

\* The types of what the invariant is made of.
LEMMA ReplyFacts ==
    ASSUME ReplyOK
    PROVE  /\ reply \in Text /\ reply \in Seq(Char) /\ Len(reply) \in Nat
           /\ given \in Nat /\ given <= Len(reply)
           /\ Rest \in Text /\ Spell[Rest] \in Text
           /\ Wanted \in Seq(Cyrillic)
           /\ Kept(stream, Spell[Rest]) \in Seq(Cyrillic)
           /\ Len(heard) \in Nat
<1>1. reply \in Text /\ reply \in Seq(Char) /\ Len(reply) \in Nat
    BY SpeechAssumption, TextBasics DEF ReplyOK
<1>2. given \in Nat /\ given <= Len(reply) /\ Len(reply) <= Len(reply)
    BY <1>1 DEF ReplyOK
<1>3. Rest \in Text
    BY <1>1, <1>2, SliceIsText DEF Rest
<1>4. Spell[Rest] \in Text /\ Spell[reply] \in Text
    BY <1>1, <1>3, SpellFacts
<1>5. Wanted \in Seq(Cyrillic)
    BY <1>4, LettersAreLetters DEF Wanted
<1>6. Kept(stream, Spell[Rest]) \in Seq(Cyrillic)
    BY <1>4, KeptFacts DEF ReplyOK
<1>7. Len(heard) \in Nat
    BY DEF ReplyOK
<1> QED
    BY <1>1, <1>2, <1>3, <1>4, <1>5, <1>6, <1>7

\* What has passed is the first letters of the reply.
LEMMA PassedFacts ==
    ASSUME ReplyOK, Len(heard) <= Len(Wanted)
    PROVE  Passed \in Seq(Cyrillic) /\ Len(Passed) = Len(heard)
<1>1. PICK n \in Nat : n = Len(heard)
    BY ReplyFacts
<1>2. PICK w \in Seq(Cyrillic) : w = Wanted
    BY ReplyFacts
<1>3. 0 \in Nat /\ n \in 0 .. Len(w) /\ 0 + 1 = 1 /\ 0 <= n /\ n - 0 = n
    BY <1>1, <1>2
<1>4. Slice(w, 0, n) \in Seq(Cyrillic) /\ Len(Slice(w, 0, n)) = n
    BY <1>3, SliceFacts, ZenonT(60)
<1>5. Within(w, 0 + 1, n) = Slice(w, 0, n)
    BY <1>1, <1>2, <1>3, WithinFacts
<1> QED
    BY <1>1, <1>2, <1>3, <1>4, <1>5 DEF Passed

\* What comes first is the beginning.
LEMMA FirstLetters ==
    ASSUME NEW x \in Seq(Cyrillic), NEW y \in Seq(Cyrillic), NEW z \in Seq(Cyrillic)
    PROVE  x = Within((x \o y) \o z, 1, Len(x))
<1>1. PICK v \in Seq(Cyrillic) : v = y \o z
    BY CyrillicClosed, ZenonT(60)
<1>2. (x \o y) \o z = x \o v
    BY <1>1, CyrillicAssociative, ZenonT(60)
<1>3. x \o v \in Seq(Cyrillic) /\ Len(x) \in Nat /\ Len(x) <= Len(x \o v)
    BY ConcatProperties
<1>4. Slice(x \o v, 0, Len(x)) = x
    BY SliceOfConcat
<1>5. 0 \in Nat /\ 0 + 1 = 1
    OBVIOUS
<1>6. \A b \in Nat : b <= Len(x \o v) => Within(x \o v, 0 + 1, b) = Slice(x \o v, 0, b)
    BY <1>3, <1>5, WithinFacts
<1> QED
    BY <1>2, <1>3, <1>4, <1>5, <1>6

\* The first chunk of what is left, and what is left then.
LEMMA RestSplits ==
    ASSUME ReplyOK, NEW last \in given + 1 .. Len(reply)
    PROVE  /\ last \in 0 .. Len(reply)
           /\ Within(reply, given + 1, last) = Slice(reply, given, last)
           /\ Slice(reply, given, last) \in Text
           /\ Slice(reply, last, Len(reply)) \in Text
           /\ Rest = Slice(reply, given, last) \o Slice(reply, last, Len(reply))
<1>1. /\ reply \in Text /\ reply \in Seq(Char) /\ Len(reply) \in Nat
      /\ given \in Nat /\ given <= Len(reply)
    BY ReplyFacts
<1>2. last \in Nat /\ given <= last /\ last <= Len(reply) /\ Len(reply) <= Len(reply)
    BY <1>1
<1>3. Within(reply, given + 1, last) = Slice(reply, given, last)
    BY <1>1, <1>2, WithinFacts
<1>4. Slice(reply, given, last) \in Text /\ Slice(reply, last, Len(reply)) \in Text
    BY <1>1, <1>2, SliceIsText
<1>5. last \in given .. Len(reply) /\ Len(reply) \in given .. Len(reply)
    BY <1>1, <1>2
<1>6. Slice(reply, given, last) \o Slice(reply, last, Len(reply))
          = Slice(reply, given, Len(reply))
    BY <1>1, <1>5, SliceJoin
<1> QED
    BY <1>1, <1>2, <1>3, <1>4, <1>6 DEF Rest

\* Nothing is left when all of the reply has been given.
LEMMA NoRest ==
    ASSUME ReplyOK, given = Len(reply)
    PROVE  Rest = <<>> /\ Spell[Rest] = <<>>
<1>1. Rest = <<>>
    BY ReplyFacts, SliceNone DEF Rest
<1> QED
    BY <1>1, SpellFacts

\* Nothing has been given, and nothing said.
LEMMA SpeechInitInv == SpeechInit => SpeechInv
<1> SUFFICES ASSUME SpeechInit PROVE SpeechInv
    OBVIOUS
<1> USE DEF SpeechInit
<1>1. reply \in Text /\ Len(reply) \in Nat /\ speech \in Clients
    BY SpeechAssumption, TextBasics
<1>2. <<>> \in Text /\ <<>> \in Seq(Text) /\ <<>> \in Seq(Cyrillic)
    BY TextBasics
<1>3. stream \in Buffers /\ stream.in = <<>> /\ stream.out = <<>> /\ stream.tokens = <<>>
    BY <1>2 DEF Buffers
<1>4. ReplyOK
    BY <1>1, <1>2, <1>3 DEF ReplyOK
<1>5. at[speech] = "idle"
    BY <1>1 DEF Init
<1>6. AsksForTexts /\ EndsEmpty
    BY <1>5 DEF AsksForTexts, EndsEmpty
<1>7. NoLetterLost
  <2>1. Rest = reply
      BY <1>1, SliceAll, TextBasics DEF Rest
  <2>2. <<>> \o Spell[reply] = Spell[reply]
      BY <1>1, SpellFacts, TextBasics, ConcatEmptySeq
  <2>3. Letters[<<>>] = <<>> /\ Join[<<>>] = <<>>
      BY LettersFacts, JoinFacts
  <2>4. Kept(stream, Spell[Rest]) = (<<>> \o <<>>) \o Wanted
      BY <1>3, <2>1, <2>2, <2>3 DEF Kept, Wanted
  <2>5. Wanted \in Seq(Cyrillic) /\ <<>> \o <<>> = <<>>
      BY <1>4, ReplyFacts
  <2>6. <<>> \o Wanted = Wanted
      BY <2>5, ConcatEmptySeq
  <2>7. Saying = <<>>
      BY <1>5 DEF Saying
  <2>8. Passed = <<>>
    <3>1. Len(heard) = 0 /\ 0 <= Len(Wanted)
        BY <2>5
    <3>2. Passed \in Seq(Cyrillic) /\ Len(Passed) = 0
        BY <1>4, <3>1, PassedFacts
    <3> QED
        BY <3>2
  <2> QED
      BY <2>4, <2>5, <2>6, <2>7, <2>8 DEF NoLetterLost
<1>8. HeardFirst
  <2>1. Wanted \in Seq(Cyrillic)
      BY <1>4, ReplyFacts
  <2>2. Len(heard) = 0 /\ DOMAIN heard = {} /\ Len(Wanted) >= 0
      BY <2>1
  <2> QED
      BY <2>1, <2>2 DEF HeardFirst, Echoes
<1> QED
    BY <1>4, <1>6, <1>7, <1>8 DEF SpeechInv

\* A chunk goes into the stream.
LEMMA PushStep ==
    ASSUME SpeechInv, PushText
    PROVE  SpeechInv'
<1>1. ReplyOK /\ AsksForTexts /\ EndsEmpty /\ NoLetterLost /\ HeardFirst
    BY DEF SpeechInv
<1>2. PICK last \in given + 1 .. Len(reply) :
          /\ given' = last
          /\ stream' = Pushed(Spell[Within(reply, given + 1, last)])
    BY DEF PushText
<1>3. UNCHANGED <<at, asked, reply, state, heard>> /\ state = "written"
    BY DEF PushText, vars
<1> DEFINE a == Slice(reply, given, last)
           b == Slice(reply, last, Len(reply))
<1>4. /\ last \in 0 .. Len(reply)
      /\ Within(reply, given + 1, last) = a
      /\ a \in Text /\ b \in Text /\ Rest = a \o b
    BY <1>1, RestSplits
<1>5. Rest' = b
    BY <1>2, <1>3 DEF Rest, Slice
<1> HIDE DEF a, b
<1>6. stream' \in Buffers /\ Kept(stream', Spell[b]) = Kept(stream, Spell[a \o b])
  <2> DEFINE longer == [stream EXCEPT !.in = @ \o Spell[a]]
  <2>1. stream' = longer \/ stream' = Drain[longer]
      BY <1>2, <1>4 DEF Pushed
  <2>2. stream \in Buffers
      BY <1>1 DEF ReplyOK
  <2>3. /\ longer \in Buffers /\ Drain[longer] \in Buffers
        /\ Kept(longer, Spell[b]) = Kept(stream, Spell[a \o b])
        /\ Kept(Drain[longer], Spell[b]) = Kept(stream, Spell[a \o b])
      BY <1>4, <2>2, PushedKeeps
  <2> HIDE DEF longer
  <2> QED
      BY <2>1, <2>3, Zenon
<1>7. ReplyOK'
    BY <1>1, <1>2, <1>3, <1>4, <1>6 DEF ReplyOK
<1>8. AsksForTexts' /\ EndsEmpty' /\ HeardFirst'
    BY <1>1, <1>3 DEF AsksForTexts, EndsEmpty, HeardFirst, Wanted
<1>9. NoLetterLost'
  <2>1. (Passed \o Saying) \o Kept(stream, Spell[Rest]) = Wanted
      BY <1>1, <1>3 DEF NoLetterLost
  <2>2. Wanted' = Wanted /\ Saying' = Saying /\ Passed' = Passed
      BY <1>3 DEF Wanted, Saying, Passed
  <2>3. Kept(stream, Spell[Rest])' = Kept(stream, Spell[Rest])
      BY <1>4, <1>5, <1>6 DEF Kept
  <2> QED
      BY <1>3, <2>1, <2>2, <2>3 DEF NoLetterLost
<1> QED
    BY <1>7, <1>8, <1>9 DEF SpeechInv

\* flush makes a token of what is left.
LEMMA EndStep ==
    ASSUME SpeechInv, EndInput
    PROVE  SpeechInv'
<1>1. ReplyOK /\ AsksForTexts /\ EndsEmpty /\ NoLetterLost /\ HeardFirst
    BY DEF SpeechInv
<1>2. /\ UNCHANGED <<at, asked, reply, given, heard>> /\ state = "written"
      /\ state' = "complete" /\ given = Len(reply) /\ stream' = Flushed(stream)
    BY DEF EndInput, vars
<1>3. stream \in Buffers
    BY <1>1 DEF ReplyOK
<1>4. /\ stream' \in Buffers /\ stream'.in = <<>> /\ stream'.out = <<>>
      /\ Letters[Join[stream'.tokens]] = Kept(stream, <<>>)
    BY <1>2, <1>3, FlushedKeeps
<1>5. Kept(stream', <<>>) = Kept(stream, <<>>)
    BY <1>4, KeptTokens
<1>6. ReplyOK'
    BY <1>1, <1>2, <1>4 DEF ReplyOK
<1>7. AsksForTexts' /\ EndsEmpty' /\ HeardFirst'
    BY <1>1, <1>2, <1>4 DEF AsksForTexts, EndsEmpty, HeardFirst, Wanted
<1>8. NoLetterLost'
  <2>1. (Passed \o Saying) \o Kept(stream, Spell[Rest]) = Wanted
      BY <1>1, <1>2 DEF NoLetterLost
  <2>2. Wanted' = Wanted /\ Saying' = Saying /\ Rest' = Rest /\ Passed' = Passed
      BY <1>2 DEF Wanted, Saying, Rest, Slice, Passed
  <2>3. Spell[Rest] = <<>>
      BY <1>1, <1>2, NoRest
  <2>4. Kept(stream, Spell[Rest])' = Kept(stream, Spell[Rest])
      BY <1>5, <2>2, <2>3 DEF Kept
  <2> QED
      BY <1>2, <2>1, <2>2, <2>4 DEF NoLetterLost
<1> QED
    BY <1>6, <1>7, <1>8 DEF SpeechInv

\* A token is asked for.
LEMMA SpeakStep ==
    ASSUME SpeechInv, TypeOK, Speak
    PROVE  SpeechInv'
<1>1. ReplyOK /\ AsksForTexts /\ EndsEmpty /\ NoLetterLost /\ HeardFirst
    BY DEF SpeechInv
<1>2. /\ UNCHANGED <<reply, given, state, heard>>
      /\ Going /\ stream.tokens # <<>>
      /\ stream' = [stream EXCEPT !.tokens = Tail(@)]
      /\ Ask(speech, Tts(Strip(Token)))
    BY DEF Speak, NextToken
<1>3. state \notin {"said", "failed"}
    BY <1>2 DEF Going
<1>4. /\ at[speech] = "idle" /\ at'[speech] = "send"
      /\ asked'[speech] = Tts(Strip(Token))
    BY <1>2, SpeechAssumption DEF TypeOK, Ask, Goto
<1>5. stream \in Buffers
    BY <1>1 DEF ReplyOK
<1>6. Spell[Rest] \in Text
    BY <1>1, ReplyFacts
<1>7. /\ stream' \in Buffers /\ stream'.in = stream.in /\ stream'.out = stream.out
      /\ Token \in Text
      /\ Kept(stream, Spell[Rest]) = Letters[Token] \o Kept(stream', Spell[Rest])
    BY <1>2, <1>5, <1>6, TokenKeeps DEF Token
<1>8. Strip(Token) \in Text /\ Letters[Strip(Token)] = Letters[Token]
    BY <1>7, StripInText, LettersStrip
<1>9. asked'[speech].kind = "tts" /\ asked'[speech].text = Strip(Token)
    BY <1>4 DEF Tts
<1>10. ReplyOK'
    BY <1>1, <1>2, <1>7 DEF ReplyOK
<1>11. AsksForTexts' /\ EndsEmpty' /\ HeardFirst'
    BY <1>1, <1>2, <1>3, <1>4, <1>7, <1>8, <1>9
       DEF AsksForTexts, EndsEmpty, HeardFirst, Wanted
<1>12. NoLetterLost'
  <2>1. PICK h \in Seq(Cyrillic) : h = Passed
      BY <1>1, PassedFacts DEF HeardFirst
  <2>2. PICK l \in Seq(Cyrillic) : l = Letters[Token]
      BY <1>7, LettersAreLetters
  <2>3. PICK k \in Seq(Cyrillic) : k = Kept(stream', Spell[Rest])
      BY <1>6, <1>7, KeptFacts
  <2>4. (h \o <<>>) \o (l \o k) = (h \o l) \o k
    <3>1. h \o <<>> = h
        BY CyrillicClosed, ZenonT(60)
    <3>2. (h \o l) \o k = h \o (l \o k)
        BY CyrillicAssociative, ZenonT(60)
    <3> QED
        BY <3>1, <3>2, Zenon
  <2>5. (Passed \o Saying) \o Kept(stream, Spell[Rest]) = Wanted
      BY <1>1, <1>3 DEF NoLetterLost
  <2>6. Saying = <<>> /\ Saying' = l
      BY <1>4, <1>8, <1>9, <2>2 DEF Saying
  <2>7. Wanted' = Wanted /\ Rest' = Rest /\ Passed' = h
      BY <1>2, <2>1 DEF Wanted, Rest, Slice, Passed
  <2>8. Kept(stream, Spell[Rest])' = k
      BY <2>3, <2>7 DEF Kept
  <2>9. (h \o l) \o k = Wanted
      BY <1>7, <2>1, <2>2, <2>3, <2>4, <2>5, <2>6
  <2> QED
      BY <2>6, <2>7, <2>8, <2>9 DEF NoLetterLost
<1> QED
    BY <1>10, <1>11, <1>12 DEF SpeechInv

\* What is heard while some of the text is said.
Sounds(some, said, all) ==
    /\ some \in Seq(Cyrillic \cup {Silence})
    /\ Len(some) = Len(said)
    /\ Echoes(some, all)

\* What is heard after a sentence, played or silent.
LEMMA HeardNext ==
    ASSUME NEW w \in Seq(Cyrillic), NEW p \in Seq(Cyrillic),
           NEW l \in Seq(Cyrillic), NEW k \in Seq(Cyrillic),
           NEW h \in Seq(Cyrillic \cup {Silence}),
           NEW s \in Seq(Cyrillic \cup {Silence}),
           (p \o l) \o k = w, Sounds(h, p, w), Sounds(s, l, l)
    PROVE  Sounds(h \o s, p \o l, w) /\ Len(h \o s) <= Len(w)
<1>0. Len(h) = Len(p) /\ Echoes(h, w) /\ Len(s) = Len(l) /\ Echoes(s, l)
    BY DEF Sounds
<1> DEFINE g == h \o s
           v == p \o l
           u == v \o k
<1>1. /\ g \in Seq(Cyrillic \cup {Silence}) /\ Len(g) = Len(h) + Len(s)
      /\ \A i \in 1 .. Len(h) + Len(s) :
            g[i] = IF i <= Len(h) THEN h[i] ELSE s[i - Len(h)]
    BY ConcatProperties
<1>2. /\ v \in Seq(Cyrillic) /\ Len(v) = Len(p) + Len(l)
      /\ \A i \in 1 .. Len(p) + Len(l) :
            v[i] = IF i <= Len(p) THEN p[i] ELSE l[i - Len(p)]
    BY ConcatProperties
<1> HIDE DEF g, v
<1>3. /\ u \in Seq(Cyrillic) /\ Len(u) = Len(v) + Len(k)
      /\ \A i \in 1 .. Len(v) + Len(k) :
            u[i] = IF i <= Len(v) THEN v[i] ELSE k[i - Len(v)]
  <2>1. PICK x \in Seq(Cyrillic) : x = v
      BY <1>2
  <2>2. /\ x \o k \in Seq(Cyrillic) /\ Len(x \o k) = Len(x) + Len(k)
        /\ \A i \in 1 .. Len(x) + Len(k) :
              (x \o k)[i] = IF i <= Len(x) THEN x[i] ELSE k[i - Len(x)]
      BY ConcatProperties
  <2> QED
      BY <2>1, <2>2
<1>4. u = w
    BY DEF v
<1> HIDE DEF u
<1>5. PICK n \in Nat : n = Len(h)
    OBVIOUS
<1>6. PICK m \in Nat : m = Len(s)
    OBVIOUS
<1>7. PICK r \in Nat : r = Len(k)
    OBVIOUS
<1>8. /\ Len(g) = n + m /\ Len(v) = n + m /\ Len(w) = n + m + r
      /\ DOMAIN h = 1 .. n /\ DOMAIN s = 1 .. m /\ DOMAIN g = 1 .. n + m
    BY <1>0, <1>1, <1>2, <1>3, <1>4, <1>5, <1>6, <1>7
<1>9. ASSUME NEW i \in 1 .. n + m PROVE g[i] \in {w[i], Silence}
  <2>1. w[i] = v[i]
    <3>1. i \in 1 .. (n + m) + r /\ i <= n + m
        BY <1>5, <1>6, <1>7
    <3>2. u[i] = v[i]
        BY <1>3, <1>7, <1>8, <3>1
    <3> QED
        BY <1>4, <3>2
  <2>2. CASE i <= n
    <3>1. i \in 1 .. n /\ g[i] = h[i]
        BY <1>1, <1>5, <1>6, <2>2
    <3> QED
        BY <1>0, <1>8, <3>1 DEF Echoes
  <2>3. CASE ~(i <= n)
    <3>1. i - n \in 1 .. m /\ g[i] = s[i - n]
        BY <1>1, <1>5, <1>6, <2>3
    <3>2. v[i] = l[i - n]
        BY <1>0, <1>2, <1>5, <1>6, <2>3
    <3> QED
        BY <1>0, <1>8, <2>1, <3>1, <3>2 DEF Echoes
  <2> QED
      BY <2>2, <2>3
<1>10. Len(g) = Len(v) /\ Len(g) <= Len(w)
    BY <1>8
<1>11. Echoes(g, w)
    BY <1>8, <1>9 DEF Echoes
<1> QED
    BY <1>1, <1>10, <1>11 DEF g, v, Sounds

\* What is said has passed, heard or silent.
LEMMA PlayedStep ==
    ASSUME SpeechInv, TypeOK, Played
    PROVE  SpeechInv'
<1>1. ReplyOK /\ AsksForTexts /\ EndsEmpty /\ NoLetterLost /\ HeardFirst
    BY DEF SpeechInv
<1>2. /\ UNCHANGED <<reply, given, stream, state, asked>>
      /\ at[speech] = "answered" /\ at'[speech] = "idle"
      /\ heard' \in {heard \o Letters[asked[speech].text],
                     heard \o Silent(Letters[asked[speech].text])}
    BY SpeechAssumption DEF Played, Return, replyVars, TypeOK
<1>3. state # "failed" /\ state # "said"
    BY <1>1, <1>2 DEF AsksForTexts
<1>4. PICK p \in Seq(Cyrillic) : p = Passed /\ Len(p) = Len(heard)
    BY <1>1, PassedFacts DEF HeardFirst
<1>5. PICK l \in Seq(Cyrillic) : l = Letters[asked[speech].text]
    BY <1>1, <1>2, LettersAreLetters DEF AsksForTexts
<1>6. PICK k \in Seq(Cyrillic) : k = Kept(stream, Spell[Rest])
    BY <1>1, ReplyFacts
<1>7. PICK w \in Seq(Cyrillic) : w = Wanted
    BY <1>1, ReplyFacts
<1>8. Saying = l /\ Saying' = <<>>
    BY <1>2, <1>5 DEF Saying
<1>9. Wanted' = w /\ Rest' = Rest
    BY <1>2, <1>7 DEF Wanted, Rest, Slice
<1>10. Kept(stream, Spell[Rest])' = k
    BY <1>2, <1>6, <1>9 DEF Kept
<1>11. (p \o l) \o k = w
    BY <1>1, <1>3, <1>4, <1>6, <1>7, <1>8 DEF NoLetterLost
<1>12. /\ heard' \in Seq(Cyrillic \cup {Silence})
       /\ Len(heard') = Len(p \o l)
       /\ Len(heard') <= Len(w)
       /\ Echoes(heard', w)
  <2>1. PICK h \in Seq(Cyrillic \cup {Silence}) : h = heard
      BY <1>1 DEF ReplyOK
  <2>2. Sounds(h, p, w)
      BY <1>1, <1>4, <1>7, <2>1 DEF HeardFirst, Sounds
  <2>3. PICK s \in {l, Silent(l)} : heard' = h \o s
      BY <1>2, <1>5, <2>1
  <2>4. s \in Seq(Cyrillic \cup {Silence}) /\ Sounds(s, l, l)
    <3>1. CASE s = l
      <4>1. DOMAIN l = 1 .. Len(l) /\ Len(l) \in Nat
            /\ \A i \in 1 .. Len(l) : l[i] \in Cyrillic \cup {Silence}
          OBVIOUS
      <4>2. l \in Seq(Cyrillic \cup {Silence})
          BY <4>1
      <4> QED
          BY <3>1, <4>2 DEF Echoes, Sounds
    <3>2. CASE s = Silent(l)
      <4>1. DOMAIN l = 1 .. Len(l) /\ Len(l) \in Nat
          OBVIOUS
      <4>2. Silent(l) = [i \in 1 .. Len(l) |-> Silence]
          BY <4>1 DEF Silent
      <4>3. Silent(l) \in Seq(Cyrillic \cup {Silence}) /\ Len(Silent(l)) = Len(l)
          BY <4>1, <4>2
      <4> QED
          BY <3>2, <4>1, <4>2, <4>3 DEF Echoes, Sounds
    <3> QED
        BY <2>3, <3>1, <3>2
  <2>5. Sounds(h \o s, p \o l, w) /\ Len(h \o s) <= Len(w)
      BY <1>11, <2>2, <2>4, HeardNext, Zenon
  <2> QED
      BY <2>3, <2>5 DEF Sounds
<1>13. Passed' = p \o l
  <2>1. PICK q \in Seq(Cyrillic) : q = p \o l
      BY CyrillicClosed, ZenonT(60)
  <2>2. q \o <<>> = q
      BY CyrillicClosed, ZenonT(60)
  <2>3. <<>> \in Seq(Cyrillic)
      OBVIOUS
  <2>4. q = Within((q \o <<>>) \o k, 1, Len(q))
      BY <2>3, FirstLetters, Zenon
  <2>5. Passed' = Within(w, 1, Len(q))
      BY <1>9, <1>12, <2>1 DEF Passed
  <2> QED
      BY <1>11, <2>1, <2>2, <2>4, <2>5
<1>14. ReplyOK'
    BY <1>1, <1>2, <1>12 DEF ReplyOK
<1>15. AsksForTexts' /\ EndsEmpty'
    BY <1>1, <1>2 DEF AsksForTexts, EndsEmpty
<1>16. NoLetterLost'
  <2>1. PICK q \in Seq(Cyrillic) : q = p \o l
      BY CyrillicClosed, ZenonT(60)
  <2>2. q \o <<>> = q
      BY CyrillicClosed, ZenonT(60)
  <2>3. (Passed' \o <<>>) \o k = w
      BY <1>11, <1>13, <2>1, <2>2
  <2> QED
      BY <1>8, <1>9, <1>10, <2>3 DEF NoLetterLost
<1>17. HeardFirst'
    BY <1>9, <1>12 DEF HeardFirst
<1> QED
    BY <1>14, <1>15, <1>16, <1>17 DEF SpeechInv

\* The reply fails, or it has been said.
LEMMA ReplyEndsStep ==
    ASSUME SpeechInv, TypeOK, ReplyFails \/ Said
    PROVE  SpeechInv'
<1>1. ReplyOK /\ AsksForTexts /\ EndsEmpty /\ NoLetterLost /\ HeardFirst
    BY DEF SpeechInv
<1>2. /\ UNCHANGED <<reply, given, stream, asked, heard>>
      /\ at'[speech] = "idle"
    BY SpeechAssumption DEF ReplyFails, Said, Return, vars, TypeOK
<1>3. ReplyOK' /\ HeardFirst'
    BY <1>1, <1>2 DEF ReplyOK, HeardFirst, Wanted, ReplyFails, Said
<1>4. AsksForTexts'
    BY <1>2 DEF AsksForTexts
<1>5. EndsEmpty'
    BY <1>1, <1>2 DEF EndsEmpty, ReplyFails, Said
<1>6. NoLetterLost'
  <2>1. CASE ReplyFails
      BY <2>1 DEF ReplyFails, NoLetterLost
  <2>2. CASE Said
    <3>1. UNCHANGED vars /\ state = "complete"
        BY <2>2 DEF Said
    <3>2. /\ Saying' = Saying /\ Wanted' = Wanted /\ Rest' = Rest
          /\ Passed' = Passed
        BY <1>2, <3>1 DEF Saying, Wanted, Rest, Slice, Passed, vars
    <3>3. Kept(stream, Spell[Rest])' = Kept(stream, Spell[Rest])
        BY <1>2, <3>2 DEF Kept
    <3>4. (Passed \o Saying) \o Kept(stream, Spell[Rest]) = Wanted
        BY <1>1, <3>1 DEF NoLetterLost
    <3> QED
        BY <1>2, <3>2, <3>3, <3>4 DEF NoLetterLost
  <2> QED
      BY <2>1, <2>2
<1> QED
    BY <1>3, <1>4, <1>5, <1>6 DEF SpeechInv

\* Neither the service nor another client touches what the plugin asks for.
LEMMA ServiceStep ==
    ASSUME SpeechInv, ServiceInv,
           \/ Service
           \/ Attempt(speech)
           \/ \E c \in Clients \ {speech} : OtherClient(c),
           UNCHANGED <<replyVars, heard>>
    PROVE  SpeechInv'
<1>1. ReplyOK /\ AsksForTexts /\ EndsEmpty /\ NoLetterLost /\ HeardFirst
    BY DEF SpeechInv
<1>2. UNCHANGED <<reply, given, stream, state, heard>>
    BY DEF replyVars
<1>3. /\ asked'[speech] = asked[speech]
      /\ at'[speech] = "idle" <=> at[speech] = "idle"
  <2> USE SpeechAssumption DEF ServiceInv, TypeOK
  <2>1. CASE Lifespan
      BY <2>1 DEF Lifespan, WarmUp, Serve, Crash, Restart
  <2>2. CASE WorkerDone
    <3>1. queue \in Seq(Jobs) /\ queue # <<>> /\ asked' = asked
        BY <2>2 DEF WorkerDone, Jobs
    <3>2. 1 \in DOMAIN queue /\ Head(queue) = queue[1]
        BY <3>1
    <3>3. Awaited => at[queue[1].by] = "wait"
        BY <3>2 DEF Awaited
    <3>4. at' = IF Awaited THEN [at EXCEPT ![queue[1].by] = "answered"] ELSE at
        BY <2>2, <3>2 DEF WorkerDone
    <3> QED
        BY <3>1, <3>3, <3>4
  <2>3. CASE Attempt(speech)
      BY <2>3 DEF Attempt, Handle, TryAgain, Dropped, BackoffOver, Goto
  <2>4. ASSUME NEW c \in Clients \ {speech}, OtherClient(c)
        PROVE  asked'[speech] = asked[speech] /\ at'[speech] = at[speech]
      BY <2>4 DEF OtherClient, Ask, Attempt, Cancel, Return, Handle, TryAgain,
                  Dropped, BackoffOver, Goto
  <2> QED
      BY <2>1, <2>2, <2>3, <2>4 DEF Service
<1>4. ReplyOK' /\ EndsEmpty' /\ HeardFirst'
    BY <1>1, <1>2 DEF ReplyOK, EndsEmpty, HeardFirst, Wanted
<1>5. AsksForTexts'
    BY <1>1, <1>2, <1>3 DEF AsksForTexts
<1>6. Saying' = Saying /\ Wanted' = Wanted /\ Rest' = Rest /\ Passed' = Passed
    BY <1>2, <1>3 DEF Saying, Wanted, Rest, Slice, Passed
<1>7. Kept(stream, Spell[Rest])' = Kept(stream, Spell[Rest])
    BY <1>2, <1>6 DEF Kept
<1>8. NoLetterLost'
    BY <1>1, <1>2, <1>6, <1>7 DEF NoLetterLost
<1> QED
    BY <1>4, <1>5, <1>8 DEF SpeechInv

\* Every step of Speech is one of TtsService or leaves it alone.
LEMMA SpeechStep ==
    ASSUME AllTexts, SpeechInv, [SpeechNext]_speechVars
    PROVE  [Next]_vars
<1>1. \A text \in Text : Tts(text) \in Requests
    BY DEF AllTexts, Requests, Tts
<1>2. CASE Speak
  <2>1. stream \in Buffers /\ stream.tokens # <<>>
      BY <1>2 DEF Speak, SpeechInv, ReplyOK
  <2>2. stream.tokens \in Seq(Text)
      BY <2>1 DEF Buffers
  <2>3. Head(stream.tokens) \in Text
      BY <2>1, <2>2, JoinHead
  <2>4. Strip(Token) \in Text
      BY <2>3, StripInText DEF Token
  <2>5. Tts(Strip(Token)) \in Requests /\ Ask(speech, Tts(Strip(Token)))
      BY <1>1, <1>2, <2>4 DEF Speak
  <2> QED
      BY <2>5, SpeechAssumption DEF Next
<1>3. CASE Played \/ ReplyFails
    BY <1>3, SpeechAssumption DEF Played, ReplyFails, Next
<1>4. CASE PushText \/ EndInput \/ Said \/ UNCHANGED speechVars
    BY <1>4 DEF PushText, EndInput, Said, speechVars
<1>5. CASE Service \/ Attempt(speech)
    BY <1>5, SpeechAssumption DEF Service, Next
<1>6. ASSUME NEW c \in Clients, OtherClient(c) PROVE Next
    BY <1>6, SpeechAssumption DEF OtherClient, Next
<1> QED
    BY <1>2, <1>3, <1>4, <1>5, <1>6 DEF SpeechNext, Speaking

\* SpeechInv and ServiceInv are inductive together: the plugin's requests are
\* requests the service knows, and nothing the service or another client does,
\* not even a crash, loses, doubles or moves a letter of a reply that goes on.
THEOREM SpeechInvariance ==
    ASSUME AllTexts
    PROVE  SpeechSpec => [](SpeechInv /\ ServiceInv)
<1>1. SpeechInit => SpeechInv /\ ServiceInv
    BY SpeechInitInv, InitInv DEF SpeechInit
<1>2. ASSUME SpeechInv, ServiceInv, [SpeechNext]_speechVars
      PROVE  SpeechInv' /\ ServiceInv'
  <2>1. ServiceInv'
      BY <1>2, SpeechStep, ServiceInvStep
  <2>2. CASE UNCHANGED speechVars
    <3>1. UNCHANGED <<at, asked, reply, given, stream, state, heard>>
        BY <2>2 DEF speechVars, vars, replyVars
    <3>2. Kept(stream, Spell[Rest])' = Kept(stream, Spell[Rest])
        BY <3>1 DEF Kept, Rest, Slice
    <3>3. ReplyOK' /\ AsksForTexts' /\ EndsEmpty'
        BY <1>2, <3>1 DEF SpeechInv, ReplyOK, AsksForTexts, EndsEmpty
    <3>4. NoLetterLost' /\ HeardFirst'
        BY <1>2, <3>1, <3>2
           DEF SpeechInv, NoLetterLost, HeardFirst, Wanted, Saying, Passed
    <3> QED
        BY <2>1, <3>3, <3>4 DEF SpeechInv
  <2>3. TypeOK
      BY <1>2 DEF ServiceInv
  <2>4. CASE PushText \/ EndInput
      BY <1>2, <2>1, <2>4, PushStep, EndStep
  <2>5. CASE Speaking
      BY <1>2, <2>1, <2>3, <2>5, SpeakStep, PlayedStep, ReplyEndsStep DEF Speaking
  <2>6. CASE /\ \/ Service
                \/ Attempt(speech)
                \/ \E c \in Clients \ {speech} : OtherClient(c)
             /\ UNCHANGED <<replyVars, heard>>
      BY <1>2, <2>1, <2>6, ServiceStep
  <2> QED
      BY <1>2, <2>2, <2>4, <2>5, <2>6 DEF SpeechNext
<1> QED
    BY <1>1, <1>2, PTL DEF SpeechSpec

\* Every step of the plugin's call, and of the others, is one TtsService
\* allows its clients: Speech implements Spec.
THEOREM SpeechIsServed ==
    ASSUME AllTexts
    PROVE  SpeechSpec => Spec
<1>1. SpeechInit => Init
    BY DEF SpeechInit
<1>2. SpeechInv /\ [SpeechNext]_speechVars => [Next]_vars
    BY SpeechStep
<1> QED
    BY <1>1, <1>2, SpeechInvariance, PTL DEF SpeechSpec, Spec

\* However the LLM's chunks, the splitter, the sentence stream and the
\* synthesis in parts fall, the letters of the reply come one after the other,
\* none left out, played or silent in their place because the model refused
\* their sentence; when the reply has been said, that is so to its end.
THEOREM HeardInOrder ==
    ASSUME AllTexts
    PROVE  SpeechSpec => []SaidInOrder
<1>1. ASSUME SpeechInv PROVE SaidInOrder
  <2>1. ReplyOK /\ AsksForTexts /\ EndsEmpty /\ NoLetterLost /\ HeardFirst
      BY <1>1 DEF SpeechInv
  <2>2. ASSUME state = "said" PROVE Len(heard) = Len(Wanted)
    <3>1. Spell[Rest] = <<>>
        BY <2>1, <2>2, NoRest DEF EndsEmpty
    <3>2. stream \in Buffers /\ stream.in = <<>> /\ stream.out = <<>> /\ stream.tokens = <<>>
        BY <2>1, <2>2 DEF EndsEmpty, ReplyOK
    <3>3. Kept(stream, Spell[Rest]) = <<>>
        BY <3>1, <3>2, KeptTokens, JoinFacts, LettersFacts
    <3>4. Saying = <<>>
        BY <2>1, <2>2 DEF AsksForTexts, Saying
    <3>5. PICK p \in Seq(Cyrillic) : p = Passed /\ Len(p) = Len(heard)
        BY <2>1, PassedFacts DEF HeardFirst
    <3>6. (p \o <<>>) \o <<>> = p
        BY CyrillicClosed, ZenonT(60)
    <3>7. p = Wanted
        BY <2>1, <2>2, <3>3, <3>4, <3>5, <3>6 DEF NoLetterLost
    <3> QED
        BY <3>5, <3>7
  <2> QED
      BY <2>1, <2>2 DEF SaidInOrder, HeardFirst, Echoes, Wanted
<1> QED
    BY <1>1, SpeechInvariance, PTL

\* The parts of any piece of any reply are where _split_stream says they are:
\* its approximation for a part that is not found is dead code.
THEOREM PlacesExactly ==
    ASSUME AllTexts
    PROVE  SpeechSpec => []PlacesAreExact
<1>1. ASSUME SpeechInv PROVE PlacesAreExact
  <2>1. reply \in Text
      BY <1>1, ReplyFacts DEF SpeechInv
  <2>2. ASSUME NEW from \in DOMAIN reply, NEW to \in DOMAIN reply
        PROVE  PlacesExact(Spell[Within(reply, from, to)])
    <3>1. Within(reply, from, to) \in Text
      <4>1. Len(reply) \in Nat /\ reply \in Seq(Char)
          BY <2>1, TextBasics
      <4>2. from \in 1 .. Len(reply) /\ to \in 1 .. Len(reply)
          BY <4>1
      <4>3. Within(reply, from, to) = SubSeq(reply, from, to)
          BY <4>1, <4>2 DEF Within
      <4> QED
          BY <4>1, <4>2, <4>3 DEF Text
    <3>2. Spell[Within(reply, from, to)] \in Text
        BY <3>1, SpellFacts
    <3> QED
        BY <3>2, PlacesOfAnyText
  <2> QED
      BY <2>2 DEF PlacesAreExact
<1> QED
    BY <1>1, SpeechInvariance, PTL

\* A phrase of the warm-up is served at once while a reply is being said.
THEOREM SpeechPhrasesServed ==
    ASSUME AllTexts
    PROVE  SpeechSpec => PhraseServed
<1> QED
    BY SpeechIsServed, PhrasesAreServed, PTL
----------------------------------------------------------------------------
(* The jobs of the plugin                                                  *)

\* The places of the plugin's jobs in a queue.
Mine(jobs) == {i \in DOMAIN jobs : jobs[i].by = speech}

\* A request has no more jobs than attempts, and all of them are for its text;
\* none is left when the next one is made.
AttemptsQueued ==
    /\ at[speech] # "idle" =>
           \A i \in Mine(queue) : queue[i].text = asked[speech].text
    /\ at[speech] = "answered" => Queued = 0
    /\ at[speech] = "idle" /\ Going => Queued = 0
    /\ at[speech] = "send" => Queued <= attempt[speech]
    /\ at[speech] \in {"wait", "backoff"} => Queued <= attempt[speech] + 1
    /\ Queued <= 1 + MaxRetries

PileInv == SpeechInv /\ ServiceInv /\ AttemptsQueued

\* The number of jobs is one.
LEMMA MineRange ==
    ASSUME NEW jobs \in Seq(Jobs)
    PROVE  /\ IsFiniteSet(Mine(jobs))
           /\ Cardinality(Mine(jobs)) \in Nat
           /\ Cardinality(Mine(jobs)) = 0 <=> Mine(jobs) = {}
<1>1. Mine(jobs) \subseteq 1 .. Len(jobs) /\ Len(jobs) \in Nat
    BY DEF Mine
<1>2. IsFiniteSet(1 .. Len(jobs))
    BY <1>1, FS_Interval
<1> QED
    BY <1>1, <1>2, FS_Subset, FS_CardinalityType, FS_EmptySet

\* A job that is added is one more if it is the plugin's.
LEMMA MineAppend ==
    ASSUME NEW jobs \in Seq(Jobs), NEW job \in Jobs
    PROVE  /\ \A i \in Mine(Append(jobs, job)) :
                  \/ i \in Mine(jobs) /\ Append(jobs, job)[i] = jobs[i]
                  \/ Append(jobs, job)[i] = job
           /\ Cardinality(Mine(Append(jobs, job)))
                  = IF job.by = speech THEN Cardinality(Mine(jobs)) + 1
                                       ELSE Cardinality(Mine(jobs))
<1> DEFINE longer == Append(jobs, job)
           n == Len(jobs)
<1>1. /\ DOMAIN jobs = 1 .. n /\ DOMAIN longer = 1 .. n + 1 /\ n \in Nat
      /\ \A i \in 1 .. n : longer[i] = jobs[i]
      /\ longer[n + 1] = job
    OBVIOUS
<1> HIDE DEF longer, n
<1>2. CASE job.by = speech
  <2>1. Mine(longer) = Mine(jobs) \cup {n + 1} /\ n + 1 \notin Mine(jobs)
      BY <1>1, <1>2 DEF Mine
  <2>2. Cardinality(Mine(longer)) = Cardinality(Mine(jobs)) + 1
      BY <2>1, MineRange, FS_AddElement
  <2> QED
      BY <1>1, <1>2, <2>1, <2>2 DEF longer, Mine
<1>3. CASE job.by # speech
  <2>1. Mine(longer) = Mine(jobs)
      BY <1>1, <1>3 DEF Mine
  <2> QED
      BY <1>1, <1>3, <2>1 DEF longer, Mine
<1> QED
    BY <1>2, <1>3

\* A job that is done is none more.
LEMMA MineTail ==
    ASSUME NEW jobs \in Seq(Jobs), jobs # <<>>
    PROVE  /\ Tail(jobs) \in Seq(Jobs)
           /\ \A i \in Mine(Tail(jobs)) :
                  i + 1 \in Mine(jobs) /\ Tail(jobs)[i] = jobs[i + 1] /\ i + 1 # 1
           /\ Cardinality(Mine(Tail(jobs))) <= Cardinality(Mine(jobs))
<1> DEFINE rest == Tail(jobs)
           next == [i \in Mine(rest) |-> i + 1]
<1>1. /\ DOMAIN jobs = 1 .. Len(jobs) /\ DOMAIN rest = 1 .. Len(jobs) - 1
      /\ \A i \in 1 .. Len(jobs) - 1 : rest[i] = jobs[i + 1]
      /\ Len(jobs) \in Nat /\ Len(jobs) >= 1
      /\ rest \in Seq(Jobs)
    OBVIOUS
<1> HIDE DEF rest
<1>2. \A i \in Mine(rest) :
         /\ i \in Int /\ i + 1 \in Mine(jobs)
         /\ rest[i] = jobs[i + 1] /\ i + 1 # 1
    BY <1>1 DEF Mine
<1>3. next \in Injection(Mine(rest), Mine(jobs))
    BY <1>2 DEF Injection, IsInjective
<1>4. Cardinality(Mine(rest)) <= Cardinality(Mine(jobs))
    BY <1>3, MineRange, FS_Injection
<1> QED
    BY <1>1, <1>2, <1>4 DEF rest

\* Queued, of any queue.
LEMMA QueuedFacts ==
    ASSUME ServiceInv
    PROVE  /\ queue \in Seq(Jobs)
           /\ Queued = Cardinality(Mine(queue))
           /\ Queued \in Nat
           /\ Queued = 0 <=> Mine(queue) = {}
           /\ attempt[speech] \in Nat /\ attempt[speech] <= MaxRetries
           /\ at[speech] \in {"idle", "send", "wait", "backoff", "answered",
                              "failed"}
           /\ asked[speech] \in Requests
<1>1. queue \in Seq(Jobs)
    BY DEF ServiceInv, TypeOK, Jobs
<1>2. Queued = Cardinality(Mine(queue))
    BY DEF Queued, Mine
<1>3. attempt[speech] \in 0 .. MaxRetries
    BY SpeechAssumption DEF ServiceInv, TypeOK
<1> QED
    BY <1>1, <1>2, <1>3, MineRange, SpeechAssumption DEF ServiceInv, TypeOK

\* A step that leaves the plugin's client alone, and adds no job of it.
LEMMA PileStays ==
    ASSUME PileInv, ServiceInv',
           at'[speech] = at[speech], asked'[speech] = asked[speech],
           attempt'[speech] = attempt[speech], Going' => Going,
           Queued' <= Queued,
           \A i \in Mine(queue') : \E j \in Mine(queue) : queue'[i] = queue[j]
    PROVE  AttemptsQueued'
<1>1. /\ Queued \in Nat /\ Queued' \in Nat /\ attempt[speech] \in Nat
      /\ AttemptsQueued
  <2>1. PICK jobs \in Seq(Jobs) : jobs = queue'
      BY DEF ServiceInv, TypeOK, Jobs
  <2>2. Queued' \in Nat
      BY <2>1, MineRange DEF Queued, Mine
  <2> QED
      BY <2>2, QueuedFacts DEF PileInv
<1>2. Queued = 0 => Queued' = 0
    BY <1>1
<1>3. at[speech] # "idle" =>
          \A i \in Mine(queue') : queue'[i].text = asked[speech].text
    BY <1>1 DEF AttemptsQueued
<1>4. Queued' <= 1 + MaxRetries
    BY <1>1 DEF AttemptsQueued
<1>5. /\ at[speech] = "send" => Queued' <= attempt[speech]
      /\ at[speech] \in {"wait", "backoff"} => Queued' <= attempt[speech] + 1
    BY <1>1 DEF AttemptsQueued
<1>6. Mine(queue)' = Mine(queue')
    BY DEF Mine
<1> QED
    BY <1>1, <1>2, <1>3, <1>4, <1>5, <1>6 DEF AttemptsQueued

\* The plugin's request is made, answered from the cache, or queued.
LEMMA PileHandle ==
    ASSUME PileInv, Handle(speech), UNCHANGED replyVars
    PROVE  AttemptsQueued'
<1> USE SpeechAssumption
<1>1. /\ at[speech] = "send" /\ phase = "serving"
      /\ UNCHANGED <<serviceVars, asked, attempt, state>>
    BY DEF Handle, replyVars
<1>2. /\ queue \in Seq(Jobs) /\ Queued = Cardinality(Mine(queue))
      /\ Queued \in Nat /\ (Queued = 0 <=> Mine(queue) = {})
      /\ attempt[speech] \in Nat /\ attempt[speech] <= MaxRetries
      /\ asked[speech] \in Requests
    BY QueuedFacts DEF PileInv
<1>3. /\ \A i \in Mine(queue) : queue[i].text = asked[speech].text
      /\ Queued <= attempt[speech] /\ Queued <= 1 + MaxRetries
    BY <1>1 DEF PileInv, AttemptsQueued
<1>4. asked[speech].kind = "tts" /\ asked[speech].text \in Texts
    BY <1>1, <1>2, TtsRequest DEF PileInv, SpeechInv, AsksForTexts
<1>5. Going' <=> Going
    BY <1>1 DEF Going
<1>6. CASE Cached(asked[speech])
  <2>1. /\ queue' = queue
        /\ at'[speech] \in {"answered", "failed"}
      BY <1>6 DEF Handle, PileInv, ServiceInv, TypeOK
  <2>2. asked[speech].text \in Phrases
      BY <1>1, <1>4, <1>6 DEF Cached, PileInv, ServiceInv, ServesWarm
  <2>3. Mine(queue) = {}
      BY <1>3, <2>2 DEF Mine, PileInv, ServiceInv, PhrasesNeverQueued
  <2>4. Queued' = Queued /\ Mine(queue)' = {}
      BY <2>1, <2>3 DEF Queued, Mine
  <2> QED
      BY <1>2, <1>3, <2>1, <2>3, <2>4 DEF AttemptsQueued
<1>7. CASE ~Cached(asked[speech])
  <2>1. at'[speech] = "wait" /\ queue' = Append(queue, Job(speech))
      BY <1>7 DEF Handle, PileInv, ServiceInv, TypeOK
  <2>2. Job(speech) \in Jobs /\ Job(speech).by = speech
        /\ Job(speech).text = asked[speech].text
      BY <1>4 DEF Job, Jobs
  <2>3. PICK job \in Jobs : job = Job(speech)
      BY <2>2
  <2>4. /\ \A i \in Mine(Append(queue, job)) :
               \/ i \in Mine(queue) /\ Append(queue, job)[i] = queue[i]
               \/ Append(queue, job)[i] = job
        /\ Cardinality(Mine(Append(queue, job))) = Cardinality(Mine(queue)) + 1
      BY <1>2, <2>2, <2>3, MineAppend
  <2>5. Queued' = Queued + 1 /\ Mine(queue)' = Mine(Append(queue, job))
      BY <1>2, <2>1, <2>3, <2>4 DEF Queued, Mine
  <2>6. \A i \in Mine(queue)' : queue'[i].text = asked'[speech].text
      BY <1>1, <1>3, <2>1, <2>2, <2>3, <2>4, <2>5
  <2>7. Queued' <= attempt'[speech] + 1 /\ Queued' <= 1 + MaxRetries
      BY <1>1, <1>2, <1>3, <2>5
  <2> QED
      BY <2>1, <2>6, <2>7 DEF AttemptsQueued
<1> QED
    BY <1>6, <1>7

\* The plugin's other steps leave the queue alone.
LEMMA PileClient ==
    ASSUME PileInv,
           \/ (TryAgain(speech) \/ Dropped(speech) \/ BackoffOver(speech))
                  /\ UNCHANGED replyVars
           \/ Speaking
    PROVE  AttemptsQueued'
<1> USE SpeechAssumption
<1>1. /\ Queued \in Nat
      /\ (Queued = 0 <=> Mine(queue) = {})
      /\ attempt[speech] \in Nat /\ attempt[speech] <= MaxRetries
    BY QueuedFacts DEF PileInv
<1>2. /\ at \in [Clients -> {"idle", "send", "wait", "backoff", "answered", "failed"}]
      /\ asked \in [Clients -> Requests]
      /\ attempt \in [Clients -> 0 .. MaxRetries]
    BY DEF PileInv, ServiceInv, TypeOK
<1>3. AttemptsQueued
    BY DEF PileInv
<1>4. queue' = queue
    BY DEF TryAgain, Dropped, BackoffOver, Speaking, Speak, Played, ReplyFails,
           Said, Ask, Return, vars
<1>5. Queued' = Queued /\ Mine(queue)' = Mine(queue)
    BY <1>4 DEF Queued, Mine
<1>6. Queued' <= 1 + MaxRetries
    BY <1>3, <1>5 DEF AttemptsQueued
<1>7. CASE TryAgain(speech) /\ UNCHANGED replyVars
  <2>1. /\ at[speech] \in {"send", "wait"}
        /\ at'[speech] \in {"failed", "backoff"}
        /\ UNCHANGED <<asked, attempt>>
      BY <1>2, <1>7 DEF TryAgain
  <2>2. /\ Queued <= attempt[speech] + 1
        /\ \A i \in Mine(queue) : queue[i].text = asked[speech].text
      BY <1>1, <1>3, <2>1 DEF AttemptsQueued
  <2> QED
      BY <1>4, <1>5, <1>6, <2>1, <2>2 DEF AttemptsQueued
<1>8. CASE Dropped(speech) /\ UNCHANGED replyVars
  <2>1. at[speech] = "wait" /\ at'[speech] = "failed" /\ UNCHANGED asked
      BY <1>2, <1>8 DEF Dropped, Goto
  <2>2. \A i \in Mine(queue) : queue[i].text = asked[speech].text
      BY <1>3, <2>1 DEF AttemptsQueued
  <2> QED
      BY <1>4, <1>5, <1>6, <2>1, <2>2 DEF AttemptsQueued
<1>9. CASE BackoffOver(speech) /\ UNCHANGED replyVars
  <2>1. /\ at[speech] = "backoff" /\ at'[speech] = "send" /\ UNCHANGED asked
        /\ attempt'[speech] = attempt[speech] + 1
      BY <1>2, <1>9 DEF BackoffOver, NextAttempt, Goto
  <2>2. /\ Queued <= attempt[speech] + 1
        /\ \A i \in Mine(queue) : queue[i].text = asked[speech].text
      BY <1>3, <2>1 DEF AttemptsQueued
  <2> QED
      BY <1>4, <1>5, <1>6, <2>1, <2>2 DEF AttemptsQueued
<1>10. CASE Speak
  <2>1. /\ at[speech] = "idle" /\ Going
        /\ at'[speech] = "send" /\ attempt'[speech] = 0
      BY <1>2, <1>10 DEF Speak, Ask, Goto
  <2>2. Queued = 0 /\ Mine(queue) = {}
      BY <1>1, <1>3, <2>1 DEF AttemptsQueued
  <2> QED
      BY <1>5, <1>6, <2>1, <2>2 DEF AttemptsQueued
<1>11. CASE Played
  <2>1. at[speech] = "answered" /\ at'[speech] = "idle"
      BY <1>2, <1>11 DEF Played, Return
  <2>2. Queued = 0
      BY <1>3, <2>1 DEF AttemptsQueued
  <2> QED
      BY <1>5, <1>6, <2>1, <2>2 DEF AttemptsQueued
<1>12. CASE ReplyFails \/ Said
  <2>1. at'[speech] = "idle" /\ ~Going'
      BY <1>2, <1>12 DEF ReplyFails, Said, Return, Going, vars
  <2> QED
      BY <1>6, <2>1 DEF AttemptsQueued
<1> QED
    BY <1>7, <1>8, <1>9, <1>10, <1>11, <1>12 DEF Speaking

\* The worker is done with a job: if the plugin waited for it, it was the last
\* of its jobs.
LEMMA PileWorker ==
    ASSUME PileInv, ServiceInv', WorkerDone, UNCHANGED replyVars
    PROVE  AttemptsQueued'
<1> USE SpeechAssumption
<1>1. /\ queue \in Seq(Jobs) /\ queue # <<>> /\ queue' = Tail(queue)
      /\ at' = IF Awaited THEN [at EXCEPT ![Head(queue).by] = "answered"] ELSE at
      /\ UNCHANGED <<asked, attempt, state>>
    BY QueuedFacts DEF PileInv, WorkerDone, replyVars
<1>2. /\ \A i \in Mine(Tail(queue)) :
             i + 1 \in Mine(queue) /\ Tail(queue)[i] = queue[i + 1] /\ i + 1 # 1
      /\ Cardinality(Mine(Tail(queue))) <= Cardinality(Mine(queue))
    BY <1>1, MineTail
<1>3. Queued' <= Queued /\ Queued = Cardinality(Mine(queue)) /\ Queued \in Nat
      /\ Mine(queue)' = Mine(Tail(queue))
    BY <1>1, <1>2, QueuedFacts DEF PileInv, Queued, Mine
<1>4. at \in [Clients -> {"idle", "send", "wait", "backoff", "answered", "failed"}]
    BY DEF PileInv, ServiceInv, TypeOK
<1>5. CASE Awaited /\ Head(queue).by = speech
  <2>1. at'[speech] = "answered" /\ at[speech] = "wait"
      BY <1>1, <1>4, <1>5 DEF Awaited
  <2>2. Mine(Tail(queue)) = {}
    <3>1. SUFFICES ASSUME NEW i \in Mine(Tail(queue)) PROVE FALSE
        OBVIOUS
    <3>2. i + 1 \in Mine(queue) /\ i + 1 # 1
        BY <1>2
    <3>3. i + 1 \in 2 .. Len(queue) /\ queue[i + 1].by = speech
        BY <1>1, <3>2 DEF Mine
    <3> QED
        BY <1>5, <3>3 DEF Awaited
  <2>3. Queued' = 0
      BY <1>1, <2>2, FS_EmptySet DEF Queued, Mine
  <2> QED
      BY <1>3, <2>1, <2>2, <2>3 DEF AttemptsQueued
<1>6. CASE ~(Awaited /\ Head(queue).by = speech)
  <2>1. at'[speech] = at[speech]
      BY <1>1, <1>4, <1>6
  <2>2. \A i \in Mine(queue') : \E j \in Mine(queue) : queue'[i] = queue[j]
      BY <1>1, <1>2
  <2>3. Going' => Going
      BY <1>1 DEF Going
  <2>4. asked'[speech] = asked[speech] /\ attempt'[speech] = attempt[speech]
      BY <1>1
  <2> QED
      BY <1>3, <2>1, <2>2, <2>3, <2>4, PileStays
<1> QED
    BY <1>5, <1>6

\* What goes on around the plugin adds no job of it.
LEMMA PileAround ==
    ASSUME PileInv, ServiceInv',
           \/ (Lifespan \/ \E c \in Clients \ {speech} : OtherClient(c))
                  /\ UNCHANGED replyVars
           \/ PushText \/ EndInput \/ UNCHANGED speechVars
    PROVE  AttemptsQueued'
<1> USE SpeechAssumption
<1>1. /\ queue \in Seq(Jobs) /\ Queued = Cardinality(Mine(queue))
      /\ Queued \in Nat /\ (Queued = 0 <=> Mine(queue) = {})
    BY QueuedFacts DEF PileInv
<1>2. /\ at \in [Clients -> {"idle", "send", "wait", "backoff", "answered", "failed"}]
      /\ asked \in [Clients -> Requests]
      /\ attempt \in [Clients -> 0 .. MaxRetries]
    BY DEF PileInv, ServiceInv, TypeOK
<1>3. /\ at'[speech] = at[speech] /\ asked'[speech] = asked[speech]
      /\ attempt'[speech] = attempt[speech] /\ (Going' => Going)
  <2>1. CASE (Lifespan \/ PushText \/ EndInput \/ UNCHANGED speechVars)
      BY <2>1 DEF Lifespan, WarmUp, Serve, Crash, Restart, PushText, EndInput,
                  speechVars, vars, replyVars, Going
  <2>2. ASSUME NEW c \in Clients \ {speech}, OtherClient(c), UNCHANGED replyVars
        PROVE  /\ at'[speech] = at[speech] /\ asked'[speech] = asked[speech]
               /\ attempt'[speech] = attempt[speech] /\ (Going' => Going)
    <3>1. Going' => Going
        BY <2>2 DEF replyVars, Going
    <3>2. /\ at'[speech] = at[speech] /\ asked'[speech] = asked[speech]
          /\ attempt'[speech] = attempt[speech]
        BY <1>2, <2>2 DEF OtherClient, Ask, Attempt, Cancel, Return, Handle,
           TryAgain, Dropped, BackoffOver, NextAttempt, Goto
    <3> QED
        BY <3>1, <3>2
  <2> QED
      BY <2>1, <2>2
<1>4. /\ Queued' <= Queued
      /\ \A i \in Mine(queue') : \E j \in Mine(queue) : queue'[i] = queue[j]
  <2>1. CASE queue' = queue
      BY <1>1, <2>1 DEF Queued, Mine
  <2>2. CASE queue' = <<>>
    <3>1. Mine(queue') = {}
        BY <2>2 DEF Mine
    <3>2. Queued' = 0
        BY <3>1, FS_EmptySet DEF Queued, Mine
    <3> QED
        BY <1>1, <3>1, <3>2
  <2>3. ASSUME NEW c \in Clients \ {speech}, Handle(c), ~Cached(asked[c])
        PROVE  /\ Queued' <= Queued
               /\ \A i \in Mine(queue') :
                     \E j \in Mine(queue) : queue'[i] = queue[j]
    <3>1. queue' = Append(queue, Job(c))
        BY <2>3 DEF Handle
    <3>2. asked[c].kind = "tts" /\ asked[c].text \in Texts
        BY <1>2, <2>3, TtsRequest DEF Cached
    <3>3. PICK job \in Jobs : job = Job(c) /\ job.by # speech
      <4>1. c \in Clients /\ c # speech
          OBVIOUS
      <4>2. Job(c) \in Jobs /\ Job(c).by = c
          BY <3>2, <4>1 DEF Job, Jobs
      <4> QED
          BY <4>1, <4>2, Zenon
    <3>4. /\ \A i \in Mine(Append(queue, job)) :
                 \/ i \in Mine(queue) /\ Append(queue, job)[i] = queue[i]
                 \/ Append(queue, job)[i] = job
          /\ Cardinality(Mine(Append(queue, job))) = Cardinality(Mine(queue))
        BY <1>1, <3>3, MineAppend
    <3>5. queue' = Append(queue, job)
        BY <3>1, <3>3
    <3>6. Queued' = Queued
        BY <1>1, <3>4, <3>5 DEF Queued, Mine
    <3>7. \A i \in Mine(queue') : i \in Mine(queue) /\ queue'[i] = queue[i]
        BY <3>3, <3>4, <3>5 DEF Mine
    <3> QED
        BY <1>1, <3>6, <3>7
  <2>4. \/ queue' \in {queue, <<>>}
        \/ \E c \in Clients \ {speech} : Handle(c) /\ ~Cached(asked[c])
    <3>1. ASSUME NEW c \in Clients \ {speech}, OtherClient(c)
          PROVE  queue' = queue \/ (Handle(c) /\ ~Cached(asked[c]))
        BY <3>1 DEF OtherClient, Ask, Attempt, Cancel, Return, Handle,
                    TryAgain, Dropped, BackoffOver
    <3>2. CASE (Lifespan \/ PushText \/ EndInput \/ UNCHANGED speechVars)
        BY <3>2 DEF Lifespan, WarmUp, Serve, Crash, Restart, PushText,
                    EndInput, speechVars, vars
    <3> QED
        BY <3>1, <3>2
  <2> QED
      BY <2>1, <2>2, <2>3, <2>4
<1> QED
    BY <1>3, <1>4, PileStays

\* The retries of a reply do not pile up behind the one worker: an answered
\* sentence has left none, and a reply that failed those of one request.
THEOREM NothingPilesUp ==
    ASSUME AllTexts
    PROVE  SpeechSpec => []NoPileUp
<1>1. SpeechInit => AttemptsQueued
  <2>1. SUFFICES ASSUME SpeechInit PROVE AttemptsQueued
      OBVIOUS
  <2>2. queue = <<>> /\ at[speech] = "idle"
      BY <2>1, SpeechAssumption DEF SpeechInit, Init
  <2>3. Queued = 0
    <3>1. {i \in DOMAIN queue : queue[i].by = speech} = {}
        BY <2>2
    <3> QED
        BY <3>1, FS_EmptySet DEF Queued
  <2> QED
      BY <2>2, <2>3 DEF AttemptsQueued
<1>2. ASSUME SpeechInv, ServiceInv, ServiceInv', AttemptsQueued,
             [SpeechNext]_speechVars
      PROVE  AttemptsQueued'
  <2>1. PileInv
      BY <1>2 DEF PileInv
  <2>2. CASE PushText \/ EndInput \/ UNCHANGED speechVars
      BY <1>2, <2>1, <2>2, PileAround
  <2>3. CASE Speaking
      BY <2>1, <2>3, PileClient
  <2>4. CASE /\ \/ Service
                \/ Attempt(speech)
                \/ \E c \in Clients \ {speech} : OtherClient(c)
             /\ UNCHANGED <<replyVars, heard>>
    <3>1. UNCHANGED replyVars
        BY <2>4
    <3>2. CASE Lifespan \/ \E c \in Clients \ {speech} : OtherClient(c)
        BY <1>2, <2>1, <3>1, <3>2, PileAround
    <3>3. CASE WorkerDone
        BY <1>2, <2>1, <3>1, <3>3, PileWorker
    <3>4. CASE Attempt(speech)
        BY <2>1, <3>1, <3>4, PileHandle, PileClient DEF Attempt
    <3> QED
        BY <2>4, <3>2, <3>3, <3>4 DEF Service
  <2> QED
      BY <1>2, <2>2, <2>3, <2>4 DEF SpeechNext
<1>3. AttemptsQueued => NoPileUp
    BY DEF AttemptsQueued, NoPileUp
<1> QED
    BY <1>1, <1>2, <1>3, SpeechInvariance, PTL DEF SpeechSpec
============================================================================

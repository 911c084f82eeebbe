--------------------------- MODULE SttAudioProofs ---------------------------
(***************************************************************************)
(* Proofs about SttAudio, for any size of the queue and any number of      *)
(* frames: types, a sender for every stream that reads, and that the audio *)
(* path implements AudioFeed.                                              *)
(*                                                                         *)
(* A frame is heard, held by the sender or queued.  While there is a       *)
(* sender, the three together are in order but for one stray.  A new stray *)
(* comes from a sender that fails, which ends it, or from one that holds a *)
(* frame across the flush of a turn's start, which makes it the only one.  *)
(***************************************************************************)
EXTENDS SttAudio, TLAPS

Alive == sender \in {"get", "send"}
Starting == run \in {"start", "redial", "restart"}

\* f is in order before g, or one of them is the stray.
Before(stray, f, g) == f = stray \/ g = stray \/ f < g

Precede(s, t, stray) ==
    \A i \in DOMAIN s, j \in DOMAIN t : Before(stray, s[i], t[j])

Late(s, stray, limit) == \A i \in DOMAIN s : s[i] = stray \/ s[i] > limit

Sorted(s, stray) ==
    \A i, j \in DOMAIN s : i < j => Before(stray, s[i], s[j])

\* Later than the flush, and in order.
Fresh(s, limit) ==
    /\ \A i \in DOMAIN s : s[i] > limit
    /\ \A i, j \in DOMAIN s : i < j => s[i] < s[j]

Known(s, n) == \A i \in DOMAIN s : s[i] \in 1 .. n

Apart(s, t) == \A i \in DOMAIN s, j \in DOMAIN t : s[i] # t[j]

Distinct(s) == \A i, j \in DOMAIN s : i < j => s[i] # s[j]

KnownInv == Known(heard, captured) /\ Known(held, captured) /\ Known(audioQ, captured)

OnceInv ==
    /\ Distinct(heard) /\ Distinct(audioQ)
    /\ Apart(heard, held) /\ Apart(heard, audioQ) /\ Apart(held, audioQ)

InOrder(stray) ==
    /\ Late(heard, stray, since) /\ Sorted(heard, stray)
    /\ Late(held, stray, since)
    /\ Late(audioQ, stray, since) /\ Sorted(audioQ, stray)
    /\ Precede(heard, held, stray)
    /\ Precede(heard, audioQ, stray)
    /\ Precede(held, audioQ, stray)

OrderInv == Alive => \E stray \in Nat : InOrder(stray)

StartInv ==
    Starting =>
        /\ Alive => Fresh(audioQ, flushed)
        /\ ~Alive => \E stray \in Nat :
                        Late(audioQ, stray, flushed) /\ Sorted(audioQ, stray)

AudioInv == TypeOK /\ KnownInv /\ OnceInv /\ OrderInv /\ StartInv

\* Nothing is heard without a connection.
LostInv == ~link => heard = <<>>

USE QueueMaxAssumption, MaxFramesAssumption
USE DEF loopVars, callVars, sendVars, turnVars

----------------------------------------------------------------------------
(* What adding a frame to a sequence, and taking its first, does           *)

LEMMA AppendFacts ==
    ASSUME NEW s \in Seq(Nat), NEW f \in Nat
    PROVE  /\ Append(s, f) \in Seq(Nat)
           /\ Append(s, f) = s \o <<f>>
           /\ Len(Append(s, f)) = Len(s) + 1
           /\ DOMAIN s = 1 .. Len(s)
           /\ DOMAIN Append(s, f) = 1 .. Len(s) + 1
           /\ \A i \in DOMAIN s : Append(s, f)[i] = s[i] /\ s[i] \in Nat
           /\ Append(s, f)[Len(s) + 1] = f
           /\ Len(s) \in Nat
  OBVIOUS

LEMMA TailFacts ==
    ASSUME NEW s \in Seq(Nat), s # <<>>
    PROVE  /\ Tail(s) \in Seq(Nat)
           /\ Len(Tail(s)) = Len(s) - 1
           /\ DOMAIN s = 1 .. Len(s)
           /\ DOMAIN Tail(s) = 1 .. Len(s) - 1
           /\ \A i \in DOMAIN Tail(s) : Tail(s)[i] = s[i + 1]
           /\ Head(s) = s[1] /\ 1 \in DOMAIN s /\ s[1] \in Nat
           /\ Len(s) \in Nat
  OBVIOUS

LEMMA SingleFacts ==
    ASSUME NEW f
    PROVE  DOMAIN <<f>> = {1} /\ <<f>>[1] = f
  OBVIOUS

\* An element of a longer sequence is an old one or the new, which is last.
LEMMA AppendParts ==
    ASSUME NEW s \in Seq(Nat), NEW f \in Nat
    PROVE  /\ \A i \in DOMAIN Append(s, f) :
                 \/ i \in DOMAIN s /\ Append(s, f)[i] = s[i]
                 \/ i \notin DOMAIN s /\ Append(s, f)[i] = f
           /\ \A i, j \in DOMAIN Append(s, f) : i < j => i \in DOMAIN s
<1>1. ASSUME NEW i \in DOMAIN Append(s, f)
      PROVE  \/ i \in DOMAIN s /\ Append(s, f)[i] = s[i]
             \/ i \notin DOMAIN s /\ Append(s, f)[i] = f
    OBVIOUS
<1>2. ASSUME NEW i \in DOMAIN Append(s, f), NEW j \in DOMAIN Append(s, f), i < j
      PROVE  i \in DOMAIN s
    BY <1>2
<1> QED
    BY <1>1, <1>2

LEMMA AppendKeeps ==
    ASSUME NEW s \in Seq(Nat), NEW f \in Nat, NEW t \in Seq(Nat)
    PROVE  /\ \A n \in Nat : Known(s, n) /\ f \in 1 .. n => Known(Append(s, f), n)
           /\ Distinct(s) /\ Apart(s, <<f>>) => Distinct(Append(s, f))
           /\ Apart(s, t) /\ Apart(<<f>>, t) => Apart(Append(s, f), t)
           /\ Apart(t, s) /\ Apart(t, <<f>>) => Apart(t, Append(s, f))
<1> DEFINE a == Append(s, f)
<1>0. DOMAIN <<f>> = {1} /\ <<f>>[1] = f
    BY SingleFacts
<1>1. /\ \A i \in DOMAIN a :
            \/ i \in DOMAIN s /\ a[i] = s[i]
            \/ i \notin DOMAIN s /\ a[i] = f
      /\ \A i, j \in DOMAIN a : i < j => i \in DOMAIN s
    BY AppendParts, Zenon
<1> HIDE DEF a
<1>2. \A n \in Nat : Known(s, n) /\ f \in 1 .. n => Known(a, n)
    BY <1>1 DEF Known
<1>3. Distinct(s) /\ Apart(s, <<f>>) => Distinct(a)
  <2> SUFFICES ASSUME Distinct(s), Apart(s, <<f>>),
                      NEW i \in DOMAIN a, NEW j \in DOMAIN a, i < j
               PROVE  a[i] # a[j]
      BY DEF Distinct
  <2>1. i \in DOMAIN s /\ a[i] = s[i]
      BY <1>1
  <2>2. CASE j \in DOMAIN s /\ a[j] = s[j]
      BY <2>1, <2>2 DEF Distinct
  <2>3. CASE a[j] = f
      BY <2>1, <2>3, <1>0 DEF Apart
  <2> QED
      BY <2>2, <2>3, <1>1
<1>4. Apart(s, t) /\ Apart(<<f>>, t) => Apart(a, t)
    BY <1>0, <1>1 DEF Apart
<1>5. Apart(t, s) /\ Apart(t, <<f>>) => Apart(t, a)
    BY <1>0, <1>1 DEF Apart
<1> QED
    BY <1>2, <1>3, <1>4, <1>5 DEF a

LEMMA AppendOrder ==
    ASSUME NEW s \in Seq(Nat), NEW f \in Nat, NEW t \in Seq(Nat), NEW stray \in Nat
    PROVE  /\ \A n \in Nat : Late(s, stray, n) /\ (f = stray \/ f > n)
                                => Late(Append(s, f), stray, n)
           /\ Sorted(s, stray) /\ Precede(s, <<f>>, stray)
                => Sorted(Append(s, f), stray)
           /\ Precede(s, t, stray) /\ Precede(<<f>>, t, stray)
                => Precede(Append(s, f), t, stray)
           /\ Precede(t, s, stray) /\ Precede(t, <<f>>, stray)
                => Precede(t, Append(s, f), stray)
<1> DEFINE a == Append(s, f)
<1>0. DOMAIN <<f>> = {1} /\ <<f>>[1] = f
    BY SingleFacts
<1>1. /\ \A i \in DOMAIN a :
            \/ i \in DOMAIN s /\ a[i] = s[i]
            \/ i \notin DOMAIN s /\ a[i] = f
      /\ \A i, j \in DOMAIN a : i < j => i \in DOMAIN s
    BY AppendParts, Zenon
<1> HIDE DEF a
<1>2. \A n \in Nat : Late(s, stray, n) /\ (f = stray \/ f > n) => Late(a, stray, n)
    BY <1>1 DEF Late
<1>3. Sorted(s, stray) /\ Precede(s, <<f>>, stray) => Sorted(a, stray)
  <2> SUFFICES ASSUME Sorted(s, stray), Precede(s, <<f>>, stray),
                      NEW i \in DOMAIN a, NEW j \in DOMAIN a, i < j
               PROVE  Before(stray, a[i], a[j])
      BY DEF Sorted
  <2>1. i \in DOMAIN s /\ a[i] = s[i]
      BY <1>1
  <2>2. CASE j \in DOMAIN s /\ a[j] = s[j]
      BY <2>1, <2>2 DEF Sorted
  <2>3. CASE a[j] = f
      BY <2>1, <2>3, <1>0 DEF Precede
  <2> QED
      BY <2>2, <2>3, <1>1
<1>4. Precede(s, t, stray) /\ Precede(<<f>>, t, stray) => Precede(a, t, stray)
    BY <1>0, <1>1 DEF Precede
<1>5. Precede(t, s, stray) /\ Precede(t, <<f>>, stray) => Precede(t, a, stray)
    BY <1>0, <1>1 DEF Precede
<1> QED
    BY <1>2, <1>3, <1>4, <1>5 DEF a

LEMMA FreshAppend ==
    ASSUME NEW s \in Seq(Nat), NEW f \in Nat, NEW limit \in Nat,
           Fresh(s, limit), f > limit, \A i \in DOMAIN s : s[i] < f
    PROVE  Fresh(Append(s, f), limit)
  BY AppendFacts DEF Fresh

LEMMA TailKeeps ==
    ASSUME NEW s \in Seq(Nat), s # <<>>, NEW t \in Seq(Nat)
    PROVE  /\ \A n \in Nat : Known(s, n) => Known(Tail(s), n)
           /\ Distinct(s) => Distinct(Tail(s)) /\ Apart(<<s[1]>>, Tail(s))
           /\ Apart(t, s) => Apart(t, Tail(s)) /\ Apart(t, <<s[1]>>)
           /\ \A n \in Nat : Fresh(s, n) => Fresh(Tail(s), n)
<1> DEFINE r == Tail(s)
<1>1. /\ 1 \in DOMAIN s
      /\ \A i \in DOMAIN r : /\ i + 1 \in DOMAIN s /\ 1 < i + 1
                             /\ r[i] = s[i + 1]
      /\ \A i, j \in DOMAIN r : i < j => i + 1 < j + 1
      /\ DOMAIN <<s[1]>> = {1} /\ <<s[1]>>[1] = s[1]
    BY TailFacts, SingleFacts
<1> HIDE DEF r
<1>2. \A n \in Nat : Known(s, n) => Known(r, n)
    BY <1>1 DEF Known
<1>3. Distinct(s) => Distinct(r) /\ Apart(<<s[1]>>, r)
    BY <1>1 DEF Distinct, Apart
<1>4. Apart(t, s) => Apart(t, r) /\ Apart(t, <<s[1]>>)
    BY <1>1 DEF Apart
<1>5. \A n \in Nat : Fresh(s, n) => Fresh(r, n)
    BY <1>1 DEF Fresh
<1> QED
    BY <1>2, <1>3, <1>4, <1>5 DEF r

LEMMA TailOrder ==
    ASSUME NEW s \in Seq(Nat), s # <<>>, NEW t \in Seq(Nat), NEW stray \in Nat
    PROVE  /\ \A n \in Nat : Late(s, stray, n)
                  => Late(Tail(s), stray, n) /\ Late(<<s[1]>>, stray, n)
           /\ Sorted(s, stray)
                  => Sorted(Tail(s), stray) /\ Precede(<<s[1]>>, Tail(s), stray)
           /\ Precede(t, s, stray)
                  => Precede(t, Tail(s), stray) /\ Precede(t, <<s[1]>>, stray)
<1> DEFINE r == Tail(s)
<1>1. /\ 1 \in DOMAIN s
      /\ \A i \in DOMAIN r : /\ i + 1 \in DOMAIN s /\ 1 < i + 1
                             /\ r[i] = s[i + 1]
      /\ \A i, j \in DOMAIN r : i < j => i + 1 < j + 1
      /\ DOMAIN <<s[1]>> = {1} /\ <<s[1]>>[1] = s[1]
    BY TailFacts, SingleFacts
<1> HIDE DEF r
<1>2. \A n \in Nat : Late(s, stray, n)
                         => Late(r, stray, n) /\ Late(<<s[1]>>, stray, n)
    BY <1>1 DEF Late
<1>3. Sorted(s, stray) => Sorted(r, stray) /\ Precede(<<s[1]>>, r, stray)
    BY <1>1 DEF Sorted, Precede
<1>4. Precede(t, s, stray)
          => Precede(t, r, stray) /\ Precede(t, <<s[1]>>, stray)
    BY <1>1 DEF Precede
<1> QED
    BY <1>2, <1>3, <1>4 DEF r

\* Without a stray, any frame may be made one.
LEMMA FreshSorted ==
    ASSUME NEW s \in Seq(Nat), NEW stray, NEW limit \in Nat, Fresh(s, limit)
    PROVE  Late(s, stray, limit) /\ Sorted(s, stray)
  BY DEF Fresh, Late, Sorted, Before

\* Nothing is out of order in an empty sequence.
LEMMA EmptyFacts ==
    ASSUME NEW t, NEW stray, NEW limit
    PROVE  /\ Known(<<>>, limit) /\ Distinct(<<>>)
           /\ Apart(<<>>, t) /\ Apart(t, <<>>)
           /\ Late(<<>>, stray, limit) /\ Sorted(<<>>, stray)
           /\ Fresh(<<>>, limit)
           /\ Precede(<<>>, t, stray) /\ Precede(t, <<>>, stray)
  <1>1. DOMAIN <<>> = {}
      OBVIOUS
  <1> QED
      BY <1>1 DEF Known, Distinct, Apart, Late, Sorted, Fresh, Precede

\* The frame in the sender's hands, if there is one.
LEMMA HeldFacts ==
    ASSUME TypeOK
    PROVE  /\ sender # "send" => held = <<>>
           /\ sender = "send" => \E f \in Nat : held = <<f>>
  <1>1. sender # "send" => held = <<>>
      BY DEF TypeOK
  <1>2. ASSUME sender = "send" PROVE held[1] \in Nat /\ held = <<held[1]>>
    <2>1. held \in Seq(Nat) /\ Len(held) = 1
        BY <1>2 DEF TypeOK
    <2> QED
        BY <2>1
  <1> QED
      BY <1>1, <1>2

----------------------------------------------------------------------------
(* The steps of the tasks                                                  *)

\* A step that leaves the frames alone, keeps a sender alive or not, and does
\* not begin a start.
LEMMA IdleStep ==
    ASSUME AudioInv, TypeOK',
           UNCHANGED <<sendVars, audioQ, captured, turnVars, heard>>,
           Starting' => Starting
    PROVE  AudioInv'
<1>1. KnownInv' /\ OnceInv'
    BY DEF AudioInv, KnownInv, OnceInv
<1>2. OrderInv'
    BY DEF AudioInv, OrderInv, InOrder, Alive
<1>3. StartInv'
    BY DEF AudioInv, StartInv, Alive
<1> QED
    BY <1>1, <1>2, <1>3 DEF AudioInv

\* The queue keeps its order when its first frame makes room for another.
LEMMA RoomKeeps ==
    ASSUME AudioInv
    PROVE  /\ MakeRoom \in Seq(Nat) /\ Len(MakeRoom) < QueueMax
           /\ Known(MakeRoom, captured) /\ Distinct(MakeRoom)
           /\ Apart(heard, MakeRoom) /\ Apart(held, MakeRoom)
           /\ Fresh(audioQ, flushed) => Fresh(MakeRoom, flushed)
           /\ \A stray \in Nat :
                 /\ Late(audioQ, stray, since) => Late(MakeRoom, stray, since)
                 /\ Late(audioQ, stray, flushed) => Late(MakeRoom, stray, flushed)
                 /\ Sorted(audioQ, stray) => Sorted(MakeRoom, stray)
                 /\ Precede(heard, audioQ, stray) => Precede(heard, MakeRoom, stray)
                 /\ Precede(held, audioQ, stray) => Precede(held, MakeRoom, stray)
<1>0. /\ audioQ \in Seq(Nat) /\ heard \in Seq(Nat) /\ held \in Seq(Nat)
      /\ captured \in Nat /\ flushed \in Nat /\ since \in Nat
      /\ Len(audioQ) <= QueueMax
    BY DEF AudioInv, TypeOK
<1>1. CASE Full
  <2>1. audioQ # <<>> /\ MakeRoom = Tail(audioQ)
      BY <1>0, <1>1 DEF Full, MakeRoom
  <2>2. MakeRoom \in Seq(Nat) /\ Len(MakeRoom) < QueueMax
      BY <1>0, <1>1, <2>1, TailFacts DEF Full
  <2>3. /\ Known(MakeRoom, captured) /\ Distinct(MakeRoom)
        /\ Apart(heard, MakeRoom) /\ Apart(held, MakeRoom)
        /\ Fresh(audioQ, flushed) => Fresh(MakeRoom, flushed)
      BY <1>0, <2>1, TailKeeps DEF AudioInv, KnownInv, OnceInv
  <2>4. ASSUME NEW stray \in Nat
        PROVE  /\ Late(audioQ, stray, since) => Late(MakeRoom, stray, since)
               /\ Late(audioQ, stray, flushed) => Late(MakeRoom, stray, flushed)
               /\ Sorted(audioQ, stray) => Sorted(MakeRoom, stray)
               /\ Precede(heard, audioQ, stray) => Precede(heard, MakeRoom, stray)
               /\ Precede(held, audioQ, stray) => Precede(held, MakeRoom, stray)
      BY <1>0, <2>1, TailOrder
  <2> QED
      BY <2>2, <2>3, <2>4
<1>2. CASE ~Full
  <2>1. MakeRoom = audioQ /\ Len(audioQ) < QueueMax
      BY <1>0, <1>2 DEF Full, MakeRoom
  <2> QED
      BY <1>0, <2>1 DEF AudioInv, KnownInv, OnceInv
<1> QED
    BY <1>1, <1>2

LEMMA CaptureStep ==
    ASSUME AudioInv, Capture
    PROVE  AudioInv'
<1> DEFINE new == captured + 1
<1>0. /\ heard \in Seq(Nat) /\ held \in Seq(Nat) /\ audioQ \in Seq(Nat)
      /\ captured \in Nat /\ captured' = new /\ new \in Nat /\ new <= MaxFrames
      /\ UNCHANGED <<loopVars, callVars, sendVars, turnVars, heard>>
      /\ since \in Nat /\ flushed \in Nat /\ since <= flushed /\ flushed <= captured
    BY DEF AudioInv, Capture, TypeOK
<1>1. Known(heard, new) /\ Known(held, new) /\ Known(audioQ, new)
    BY <1>0 DEF AudioInv, KnownInv, Known
<1>2. CASE ~listening
  <2>1. audioQ' = audioQ
      BY <1>2 DEF Capture
  <2>2. TypeOK'
      BY <1>0, <2>1 DEF AudioInv, TypeOK
  <2>3. KnownInv' /\ OnceInv'
      BY <1>0, <1>1, <2>1 DEF AudioInv, KnownInv, OnceInv
  <2>4. OrderInv' /\ StartInv'
      BY <1>0, <2>1 DEF AudioInv, OrderInv, InOrder, Alive, StartInv, Starting
  <2> QED
      BY <2>2, <2>3, <2>4 DEF AudioInv
<1>3. CASE listening
  <2>1. audioQ' = Append(MakeRoom, new)
      BY <1>0, <1>3 DEF Capture
  <2>2. MakeRoom \in Seq(Nat) /\ Len(MakeRoom) < QueueMax
      BY RoomKeeps
  <2>3. audioQ' \in Seq(Nat) /\ Len(audioQ') <= QueueMax
      BY <1>0, <2>1, <2>2, AppendFacts
  <2>4. TypeOK'
      BY <1>0, <2>3 DEF AudioInv, TypeOK
  \* Every frame so far has a smaller number.
  <2>5. ASSUME NEW s \in Seq(Nat), Known(s, captured)
        PROVE  /\ \A i \in DOMAIN s : s[i] < new
               /\ Known(s, new)
               /\ Apart(s, <<new>>)
               /\ \A stray \in Nat : Precede(s, <<new>>, stray)
    <3>1. \A i \in DOMAIN s : s[i] \in Nat /\ s[i] < new /\ s[i] \in 1 .. new
        BY <1>0, <2>5 DEF Known
    <3>2. DOMAIN <<new>> = {1} /\ <<new>>[1] = new
        BY SingleFacts
    <3> HIDE DEF new
    <3> QED
        BY <3>1, <3>2 DEF Known, Apart, Precede, Before
  <2>6. /\ Known(heard, captured) /\ Known(held, captured)
        /\ Known(MakeRoom, captured)
      BY RoomKeeps DEF AudioInv, KnownInv
  <2>7. KnownInv'
    <3>1. Known(Append(MakeRoom, new), new)
        BY <1>0, <2>2, <2>5, <2>6, AppendKeeps
    <3> QED
        BY <1>0, <1>1, <2>1, <3>1 DEF KnownInv
  <2>8. OnceInv'
    <3>1. Distinct(Append(MakeRoom, new))
        BY <1>0, <2>2, <2>5, <2>6, RoomKeeps, AppendKeeps
    <3>2. Apart(heard, Append(MakeRoom, new)) /\ Apart(held, Append(MakeRoom, new))
        BY <1>0, <2>2, <2>5, <2>6, RoomKeeps, AppendKeeps
    <3> QED
        BY <1>0, <2>1, <3>1, <3>2 DEF AudioInv, OnceInv
  <2>9. OrderInv'
    <3> SUFFICES ASSUME Alive PROVE \E stray \in Nat : InOrder(stray)'
        BY <1>0 DEF OrderInv, Alive
    <3>1. PICK stray \in Nat : InOrder(stray)
        BY DEF AudioInv, OrderInv
    <3>2. /\ Late(MakeRoom, stray, since) /\ Sorted(MakeRoom, stray)
          /\ Precede(heard, MakeRoom, stray) /\ Precede(held, MakeRoom, stray)
        BY <3>1, RoomKeeps DEF InOrder
    <3>3. new > since
        BY <1>0
    <3>4. /\ Late(Append(MakeRoom, new), stray, since)
          /\ Sorted(Append(MakeRoom, new), stray)
        BY <1>0, <2>2, <2>5, <2>6, <3>2, <3>3, AppendOrder
    <3>5. /\ Precede(heard, Append(MakeRoom, new), stray)
          /\ Precede(held, Append(MakeRoom, new), stray)
        BY <1>0, <2>2, <2>5, <2>6, <3>2, AppendOrder
    <3> QED
        BY <1>0, <2>1, <3>1, <3>4, <3>5 DEF InOrder
  <2>10. StartInv'
    <3> SUFFICES ASSUME Starting
                 PROVE  /\ Alive => Fresh(audioQ, flushed)'
                        /\ ~Alive => \E stray \in Nat :
                                        /\ Late(audioQ, stray, flushed)'
                                        /\ Sorted(audioQ, stray)'
        BY <1>0 DEF StartInv, Alive, Starting
    <3>0. new > flushed
        BY <1>0
    <3>1. ASSUME Alive PROVE Fresh(Append(MakeRoom, new), flushed)
      <4>1. Fresh(MakeRoom, flushed)
          BY <3>1, RoomKeeps DEF AudioInv, StartInv
      <4> QED
          BY <1>0, <2>2, <2>5, <2>6, <3>0, <4>1, FreshAppend
    <3>2. ASSUME ~Alive
          PROVE  \E stray \in Nat : /\ Late(Append(MakeRoom, new), stray, flushed)
                                    /\ Sorted(Append(MakeRoom, new), stray)
      <4>1. PICK stray \in Nat : Late(audioQ, stray, flushed) /\ Sorted(audioQ, stray)
          BY <3>2 DEF AudioInv, StartInv
      <4>2. Late(MakeRoom, stray, flushed) /\ Sorted(MakeRoom, stray)
          BY <4>1, RoomKeeps
      <4>3. /\ Late(Append(MakeRoom, new), stray, flushed)
            /\ Sorted(Append(MakeRoom, new), stray)
          BY <1>0, <2>2, <2>5, <2>6, <3>0, <4>2, AppendOrder
      <4> QED
          BY <4>3
    <3> QED
        BY <1>0, <2>1, <3>1, <3>2
  <2> QED
      BY <2>4, <2>7, <2>8, <2>9, <2>10 DEF AudioInv
<1> QED
    BY <1>2, <1>3

\* The first frame of the queue becomes the one that is held.
LEMMA TakeStep ==
    ASSUME AudioInv, Take
    PROVE  AudioInv'
<1> DEFINE h == audioQ[1]
<1>1. /\ heard \in Seq(Nat) /\ audioQ \in Seq(Nat) /\ audioQ # <<>>
      /\ Len(audioQ) <= QueueMax
      /\ captured \in Nat /\ since \in Nat /\ flushed \in Nat
      /\ sender = "get" /\ sender' = "send"
      /\ UNCHANGED <<loopVars, callVars, captured, turnVars, heard>>
    BY DEF AudioInv, Take, TypeOK
<1>2. /\ h \in Nat /\ 1 \in DOMAIN audioQ
      /\ held' = <<h>> /\ audioQ' = Tail(audioQ)
      /\ Tail(audioQ) \in Seq(Nat) /\ Len(Tail(audioQ)) <= QueueMax
    BY <1>1, TailFacts DEF Take
<1>3. TypeOK'
    BY <1>1, <1>2 DEF AudioInv, TypeOK
<1>4. KnownInv'
  <2>1. Known(<<h>>, captured)
      BY <1>2, SingleFacts DEF AudioInv, KnownInv, Known
  <2>2. Known(Tail(audioQ), captured)
      BY <1>1, TailKeeps DEF AudioInv, KnownInv
  <2> QED
      BY <1>1, <1>2, <2>1, <2>2 DEF AudioInv, KnownInv
<1>5. OnceInv'
  <2>1. /\ Distinct(Tail(audioQ)) /\ Apart(<<h>>, Tail(audioQ))
        /\ Apart(heard, Tail(audioQ)) /\ Apart(heard, <<h>>)
      BY <1>1, TailKeeps DEF AudioInv, OnceInv
  <2> QED
      BY <1>1, <1>2, <2>1 DEF AudioInv, OnceInv
<1>6. OrderInv'
  <2>1. PICK stray \in Nat : InOrder(stray)
      BY <1>1 DEF AudioInv, OrderInv, Alive
  <2>2. /\ Late(Tail(audioQ), stray, since) /\ Late(<<h>>, stray, since)
        /\ Sorted(Tail(audioQ), stray)
        /\ Precede(<<h>>, Tail(audioQ), stray)
        /\ Precede(heard, Tail(audioQ), stray) /\ Precede(heard, <<h>>, stray)
      BY <1>1, <2>1, TailOrder DEF InOrder
  <2>3. InOrder(stray)'
      BY <1>1, <1>2, <2>1, <2>2 DEF InOrder
  <2> QED
      BY <2>3 DEF OrderInv
<1>7. StartInv'
  <2>1. Starting' => Fresh(Tail(audioQ), flushed)
      BY <1>1, TailKeeps DEF AudioInv, StartInv, Alive, Starting
  <2> QED
      BY <1>1, <1>2, <2>1 DEF StartInv, Alive
<1> QED
    BY <1>3, <1>4, <1>5, <1>6, <1>7 DEF AudioInv

\* ... and then the last one heard.
LEMMA SentStep ==
    ASSUME AudioInv, Sent
    PROVE  AudioInv'
<1>1. /\ heard \in Seq(Nat) /\ audioQ \in Seq(Nat)
      /\ captured \in Nat /\ since \in Nat /\ flushed \in Nat
      /\ sender = "send" /\ sender' = "get" /\ held' = <<>>
      /\ UNCHANGED <<loopVars, callVars, audioQ, captured, turnVars>>
    BY DEF AudioInv, Sent, TypeOK
<1>2. PICK h \in Nat : held = <<h>>
    BY <1>1, HeldFacts DEF AudioInv
<1>3. heard' = Append(heard, h) /\ Append(heard, h) \in Seq(Nat)
    BY <1>1, <1>2, AppendFacts DEF Sent
<1>4. TypeOK'
    BY <1>1, <1>3 DEF AudioInv, TypeOK
<1>5. KnownInv'
  <2>1. h \in 1 .. captured
      BY <1>2, SingleFacts DEF AudioInv, KnownInv, Known
  <2>2. Known(Append(heard, h), captured)
      BY <1>1, <1>2, <2>1, AppendKeeps DEF AudioInv, KnownInv
  <2> QED
      BY <1>1, <1>3, <2>2, EmptyFacts DEF AudioInv, KnownInv
<1>6. OnceInv'
  <2>1. Distinct(Append(heard, h)) /\ Apart(Append(heard, h), audioQ)
      BY <1>1, <1>2, AppendKeeps DEF AudioInv, OnceInv
  <2> QED
      BY <1>1, <1>3, <2>1, EmptyFacts DEF AudioInv, OnceInv
<1>7. OrderInv'
  <2>1. PICK stray \in Nat : InOrder(stray)
      BY <1>1 DEF AudioInv, OrderInv, Alive
  <2>2. h = stray \/ h > since
      BY <1>2, <2>1, SingleFacts DEF InOrder, Late
  <2>3. /\ Late(Append(heard, h), stray, since)
        /\ Sorted(Append(heard, h), stray)
        /\ Precede(Append(heard, h), audioQ, stray)
      BY <1>1, <1>2, <2>1, <2>2, AppendOrder DEF InOrder
  <2>4. InOrder(stray)'
      BY <1>1, <1>3, <2>1, <2>3, EmptyFacts DEF InOrder
  <2> QED
      BY <2>4 DEF OrderInv
<1>8. StartInv'
    BY <1>1 DEF AudioInv, StartInv, Alive, Starting
<1> QED
    BY <1>4, <1>5, <1>6, <1>7, <1>8 DEF AudioInv

\* The frame that could not be sent becomes the stray of the queue.
LEMMA SendFailsStep ==
    ASSUME AudioInv, SendFails
    PROVE  AudioInv'
<1>1. /\ heard \in Seq(Nat) /\ audioQ \in Seq(Nat) /\ Len(audioQ) <= QueueMax
      /\ captured \in Nat /\ flushed \in Nat
      /\ sender = "send" /\ sender' = "done" /\ held' = <<>>
      /\ UNCHANGED <<loopVars, callVars, captured, turnVars, heard>>
    BY DEF AudioInv, SendFails, TypeOK
<1>2. PICK h \in Nat : held = <<h>>
    BY <1>1, HeldFacts DEF AudioInv
<1>3. \/ audioQ' = audioQ
      \/ audioQ' = Append(audioQ, h) /\ Len(audioQ) < QueueMax
  <2>1. CASE Full
      BY <2>1 DEF SendFails, PutBack
  <2>2. CASE ~Full
    <3>1. Len(audioQ) < QueueMax
        BY <1>1, <2>2 DEF Full
    <3>2. audioQ' = audioQ \o <<h>>
        BY <1>2, <2>2 DEF SendFails, PutBack
    <3> QED
        BY <1>1, <3>1, <3>2, AppendFacts
  <2> QED
      BY <2>1, <2>2
<1>4. audioQ' \in Seq(Nat) /\ Len(audioQ') <= QueueMax
  <2>1. CASE audioQ' = audioQ
      BY <1>1, <2>1
  <2>2. CASE audioQ' = Append(audioQ, h) /\ Len(audioQ) < QueueMax
    <3>1. /\ Append(audioQ, h) \in Seq(Nat) /\ Len(audioQ) \in Nat
          /\ Len(Append(audioQ, h)) = Len(audioQ) + 1
        BY <1>1, <1>2, AppendFacts
    <3>2. audioQ' \in Seq(Nat) /\ Len(audioQ') = Len(audioQ) + 1
        BY <2>2, <3>1, Zenon
    <3> QED
        BY <2>2, <3>1, <3>2
  <2> QED
      BY <1>3, <2>1, <2>2
<1>5. TypeOK'
    BY <1>1, <1>4 DEF AudioInv, TypeOK
<1>6. KnownInv'
  <2>1. h \in 1 .. captured
      BY <1>2, SingleFacts DEF AudioInv, KnownInv, Known
  <2>2. Known(audioQ, captured) /\ Known(Append(audioQ, h), captured)
      BY <1>1, <1>2, <2>1, AppendKeeps DEF AudioInv, KnownInv
  <2> QED
      BY <1>1, <1>3, <2>2, EmptyFacts DEF AudioInv, KnownInv
<1>7. OnceInv'
  <2>1. Apart(audioQ, <<h>>)
      BY <1>2 DEF AudioInv, OnceInv, Apart
  <2>2. Distinct(Append(audioQ, h)) /\ Apart(heard, Append(audioQ, h))
      BY <1>1, <1>2, <2>1, AppendKeeps DEF AudioInv, OnceInv
  <2> QED
      BY <1>1, <1>3, <2>2, EmptyFacts DEF AudioInv, OnceInv
<1>8. OrderInv'
    BY <1>1 DEF OrderInv, Alive
<1>9. StartInv'
  <2> SUFFICES ASSUME Starting
               PROVE  \E stray \in Nat : /\ Late(audioQ, stray, flushed)'
                                         /\ Sorted(audioQ, stray)'
      BY <1>1 DEF StartInv, Alive, Starting
  <2>1. Fresh(audioQ, flushed)
      BY <1>1 DEF AudioInv, StartInv, Alive
  <2>2. Late(audioQ, h, flushed) /\ Sorted(audioQ, h)
      BY <1>1, <2>1, FreshSorted
  <2>3. Precede(audioQ, <<h>>, h)
      BY SingleFacts DEF Precede, Before
  <2>4. Late(Append(audioQ, h), h, flushed) /\ Sorted(Append(audioQ, h), h)
      BY <1>1, <1>2, <2>2, <2>3, AppendOrder
  <2> QED
      BY <1>1, <1>2, <1>3, <2>2, <2>4
<1> QED
    BY <1>5, <1>6, <1>7, <1>8, <1>9 DEF AudioInv

\* A frame that goes nowhere leaves the others in order.
LEMMA SendVanishesStep ==
    ASSUME AudioInv, SendVanishes
    PROVE  AudioInv'
<1>1. /\ heard \in Seq(Nat) /\ audioQ \in Seq(Nat)
      /\ sender = "send" /\ sender' = "get" /\ held' = <<>>
      /\ UNCHANGED <<loopVars, callVars, audioQ, captured, turnVars, heard>>
    BY DEF AudioInv, SendVanishes, TypeOK
<1>2. TypeOK'
    BY <1>1 DEF AudioInv, TypeOK
<1>3. KnownInv' /\ OnceInv'
    BY <1>1, EmptyFacts DEF AudioInv, KnownInv, OnceInv
<1>4. OrderInv'
    BY <1>1, EmptyFacts DEF AudioInv, OrderInv, InOrder, Alive
<1>5. StartInv'
    BY <1>1 DEF AudioInv, StartInv, Alive, Starting
<1> QED
    BY <1>2, <1>3, <1>4, <1>5 DEF AudioInv

LEMMA TurnStartStep ==
    ASSUME AudioInv, TurnStart
    PROVE  AudioInv'
<1>1. /\ audioQ' = <<>> /\ flushed' = captured
      /\ UNCHANGED <<link, callVars, sendVars, captured, since, heard>>
      /\ run' = "start"
      /\ captured \in Nat /\ since \in Nat /\ flushed \in Nat
      /\ since <= flushed /\ flushed <= captured
    BY DEF AudioInv, TurnStart, Flush, Goto, TypeOK
<1>2. TypeOK'
    BY <1>1 DEF AudioInv, TypeOK
<1>3. KnownInv' /\ OnceInv'
    BY <1>1, EmptyFacts DEF AudioInv, KnownInv, OnceInv
<1>4. OrderInv'
    BY <1>1, EmptyFacts DEF AudioInv, OrderInv, InOrder, Alive
<1>5. StartInv'
    BY <1>1, EmptyFacts DEF StartInv
<1> QED
    BY <1>2, <1>3, <1>4, <1>5 DEF AudioInv

\* With a sender, the frame it held across the flush is the stray; without
\* one, the frame that the last one put back.
LEMMA StrayOfStart ==
    ASSUME AudioInv, Starting
    PROVE  \E stray \in Nat : /\ Late(held, stray, flushed)
                              /\ Late(audioQ, stray, flushed)
                              /\ Sorted(audioQ, stray)
                              /\ Precede(held, audioQ, stray)
<1>1. held \in Seq(Nat) /\ audioQ \in Seq(Nat) /\ flushed \in Nat
    BY DEF AudioInv, TypeOK
<1>2. CASE sender = "send"
  <2>1. PICK h \in Nat : held = <<h>>
      BY <1>2, HeldFacts DEF AudioInv
  <2>2. Late(audioQ, h, flushed) /\ Sorted(audioQ, h)
      BY <1>1, <1>2, <2>1, FreshSorted DEF AudioInv, StartInv, Alive
  <2>3. Late(held, h, flushed) /\ Precede(held, audioQ, h)
      BY <2>1, SingleFacts DEF Late, Precede, Before
  <2> QED
      BY <2>1, <2>2, <2>3
<1>3. CASE sender # "send"
  <2>1. held = <<>>
      BY <1>3, HeldFacts DEF AudioInv
  <2>2. PICK stray \in Nat : Late(audioQ, stray, flushed) /\ Sorted(audioQ, stray)
      BY <1>1, FreshSorted DEF AudioInv, StartInv
  <2> QED
      BY <2>1, <2>2, EmptyFacts
<1> QED
    BY <1>2, <1>3

\* A turn that starts, on a connection or into the void.
LEMMA StartedStep ==
    ASSUME AudioInv, LostInv, Started \/ StartVanishes
    PROVE  AudioInv'
<1>1. /\ heard' = <<>> /\ since' \in {since, flushed} /\ run' = "read"
      /\ UNCHANGED <<link, callVars, audioQ, held, captured, flushed>>
      /\ sender' = IF sender \in {"none", "done"} THEN "get" ELSE sender
      /\ Starting
      /\ held \in Seq(Nat) /\ audioQ \in Seq(Nat)
      /\ captured \in Nat /\ flushed \in Nat /\ since \in Nat /\ since <= flushed
      /\ sender \in {"none", "get", "send", "done"}
    BY DEF AudioInv, LostInv, Started, StartVanishes, EnsureSendTask, Starting,
           TypeOK
<1>2. TypeOK'
    BY <1>1 DEF AudioInv, TypeOK
<1>3. KnownInv' /\ OnceInv'
    BY <1>1, EmptyFacts DEF AudioInv, KnownInv, OnceInv
<1>4. OrderInv'
  <2>1. PICK stray \in Nat : /\ Late(held, stray, flushed)
                             /\ Late(audioQ, stray, flushed) /\ Sorted(audioQ, stray)
                             /\ Precede(held, audioQ, stray)
      BY <1>1, StrayOfStart
  <2>2. Late(held, stray, since') /\ Late(audioQ, stray, since')
    <3>1. \A f \in Nat : f > flushed => f > since'
        BY <1>1
    <3>2. /\ \A i \in DOMAIN held : held[i] \in Nat
          /\ \A i \in DOMAIN audioQ : audioQ[i] \in Nat
        BY <1>1
    <3> QED
        BY <2>1, <3>1, <3>2 DEF Late
  <2>3. InOrder(stray)'
      BY <1>1, <2>1, <2>2, EmptyFacts DEF InOrder
  <2> QED
      BY <2>3 DEF OrderInv
<1>5. StartInv'
    BY <1>1 DEF StartInv, Starting
<1> QED
    BY <1>2, <1>3, <1>4, <1>5 DEF AudioInv

\* The service has heard nothing on a connection that broke.
LEMMA LinkBreaksStep ==
    ASSUME AudioInv, LinkBreaks
    PROVE  AudioInv'
<1>1. /\ heard' = <<>>
      /\ UNCHANGED <<run, callVars, audioQ, sendVars, captured, turnVars>>
      /\ link' = FALSE
    BY DEF LinkBreaks
<1>2. TypeOK'
  <2>1. <<>> \in Seq(Nat)
      OBVIOUS
  <2>2. heard' \in Seq(Nat)
      BY <1>1, <2>1, Zenon
  <2> QED
      BY <1>1, <2>2 DEF AudioInv, TypeOK
<1>3. KnownInv' /\ OnceInv'
    BY <1>1, EmptyFacts DEF AudioInv, KnownInv, OnceInv
<1>4. OrderInv'
    BY <1>1, EmptyFacts DEF AudioInv, OrderInv, InOrder, Alive
<1>5. StartInv'
    BY <1>1 DEF AudioInv, StartInv, Alive, Starting
<1> QED
    BY <1>2, <1>3, <1>4, <1>5 DEF AudioInv

LEMMA SilentRestartStep ==
    ASSUME AudioInv, SilentRestart
    PROVE  AudioInv'
<1>1. /\ heard' = <<>> /\ run = "read"
      /\ UNCHANGED <<loopVars, callVars, audioQ, sendVars, captured, turnVars>>
    BY DEF SilentRestart
<1>2. TypeOK'
    BY <1>1 DEF AudioInv, TypeOK
<1>3. KnownInv' /\ OnceInv'
    BY <1>1, EmptyFacts DEF AudioInv, KnownInv, OnceInv
<1>4. OrderInv'
    BY <1>1, EmptyFacts DEF AudioInv, OrderInv, InOrder, Alive
<1>5. StartInv'
    BY <1>1 DEF StartInv, Starting
<1> QED
    BY <1>2, <1>3, <1>4, <1>5 DEF AudioInv

\* The sender and the frame it held are gone.
LEMMA FinallyStep ==
    ASSUME AudioInv, Finally
    PROVE  AudioInv'
<1>1. /\ run' = "over" /\ link' = FALSE /\ sender' = "done" /\ held' = <<>>
      /\ heard' = <<>>
      /\ UNCHANGED <<callVars, audioQ, captured, turnVars>>
    BY DEF Finally
<1>2. TypeOK'
  <2>1. <<>> \in Seq(Nat) /\ Len(<<>>) = 0
      OBVIOUS
  <2>2. /\ audioQ' \in Seq(Nat) /\ Len(audioQ') <= QueueMax
        /\ heard' \in Seq(Nat)
        /\ listening' \in BOOLEAN /\ closed' \in BOOLEAN
        /\ captured' \in 0 .. MaxFrames
        /\ flushed' \in 0 .. captured' /\ since' \in 0 .. flushed'
      BY <1>1 DEF AudioInv, TypeOK
  <2>3. held' \in Seq(Nat) /\ Len(held') = 0
      BY <1>1, <2>1, Zenon
  <2>4. run' = "over" /\ link' = FALSE /\ sender' = "done"
      BY <1>1
  <2> QED
      BY <2>2, <2>3, <2>4 DEF TypeOK
<1>3. KnownInv' /\ OnceInv'
    BY <1>1, EmptyFacts DEF AudioInv, KnownInv, OnceInv
<1>4. OrderInv' /\ StartInv'
    BY <1>1 DEF OrderInv, Alive, StartInv, Starting
<1> QED
    BY <1>2, <1>3, <1>4 DEF AudioInv

----------------------------------------------------------------------------
(* The invariant                                                           *)

LEMMA InitInv == Init => AudioInv
<1> SUFFICES ASSUME Init PROVE AudioInv
    OBVIOUS
<1>1. TypeOK
  <2>1. <<>> \in Seq(Nat) /\ Len(<<>>) = 0
      OBVIOUS
  <2>2. /\ audioQ \in Seq(Nat) /\ Len(audioQ) = 0
        /\ held \in Seq(Nat) /\ Len(held) = 0
        /\ heard \in Seq(Nat)
      BY <2>1, Zenon DEF Init
  <2>3. /\ run = "gate" /\ listening = FALSE /\ closed = FALSE /\ link = TRUE
        /\ sender = "none" /\ captured = 0 /\ flushed = 0 /\ since = 0
      BY DEF Init
  <2>4. /\ captured \in 0 .. MaxFrames /\ flushed \in 0 .. captured
        /\ since \in 0 .. flushed /\ Len(audioQ) <= QueueMax
      BY <2>2, <2>3
  <2>5. Len(held) = (IF sender = "send" THEN 1 ELSE 0)
      BY <2>2, <2>3
  <2> QED
      BY <2>2, <2>3, <2>4, <2>5 DEF TypeOK
<1>2. KnownInv /\ OnceInv
    BY EmptyFacts DEF Init, KnownInv, OnceInv
<1>3. OrderInv /\ StartInv
    BY DEF Init, OrderInv, StartInv, Alive, Starting
<1> QED
    BY <1>1, <1>2, <1>3 DEF AudioInv

LEMMA StepInv == AudioInv /\ LostInv /\ [Next]_vars => AudioInv'
<1> SUFFICES ASSUME AudioInv, LostInv, [Next]_vars PROVE AudioInv'
    OBVIOUS
<1>1. CASE AgentTurns
  <2>1. TypeOK' /\ (Starting' => Starting)
      BY <1>1 DEF AudioInv, AgentTurns, TypeOK, Starting
  <2> QED
      BY <1>1, <2>1, IdleStep DEF AgentTurns
<1>2. CASE CloseInput
  <2>1. TypeOK' /\ (Starting' => Starting)
      BY <1>2 DEF AudioInv, CloseInput, TypeOK, Starting
  <2> QED
      BY <1>2, <2>1, IdleStep DEF CloseInput
<1>3. CASE LinkBreaks
    BY <1>3, LinkBreaksStep
<1>4. CASE Capture
    BY <1>4, CaptureStep
<1>5. CASE Sender
    BY <1>5, TakeStep, SentStep, SendFailsStep, SendVanishesStep DEF Sender
<1>6. CASE Loop
  <2>1. CASE TurnStart \/ Started \/ StartVanishes \/ Finally
      BY <2>1, TurnStartStep, StartedStep, FinallyStep
  <2>2. CASE StartFails
    <3>1. TypeOK' /\ (Starting' => Starting)
        BY <2>2 DEF AudioInv, StartFails, Goto, TypeOK, Starting
    <3> QED
        BY <2>2, <3>1, IdleStep DEF StartFails
  <2>3. CASE Connected
    <3>1. TypeOK' /\ (Starting' => Starting)
        BY <2>3 DEF AudioInv, Connected, Goto, TypeOK, Starting
    <3> QED
        BY <2>3, <3>1, IdleStep DEF Connected
  <2>4. CASE ReadFails
    <3>1. TypeOK' /\ (Starting' => Starting)
        BY <2>4 DEF AudioInv, ReadFails, Goto, TypeOK, Starting
    <3> QED
        BY <2>4, <3>1, IdleStep DEF ReadFails
  <2> QED
      BY <1>6, <2>1, <2>2, <2>3, <2>4 DEF Loop
<1>7. CASE TurnEnds
  <2>1. TypeOK' /\ (Starting' => Starting)
      BY <1>7 DEF AudioInv, TurnEnds, Goto, TypeOK, Starting
  <2> QED
      BY <1>7, <2>1, IdleStep DEF TurnEnds
<1>8. CASE SilentRestart
    BY <1>8, SilentRestartStep
<1>9. CASE UNCHANGED vars
  <2>1. TypeOK' /\ (Starting' => Starting)
      BY <1>9 DEF AudioInv, vars, TypeOK, Starting
  <2> QED
      BY <1>9, <2>1, IdleStep DEF vars
<1> QED
    BY <1>1, <1>2, <1>3, <1>4, <1>5, <1>6, <1>7, <1>8, <1>9 DEF Next

THEOREM Invariance == Spec => []AudioInv
<1>1. Init => LostInv
    BY DEF Init, LostInv
<1>2. LostInv /\ [Next]_vars => LostInv'
  <2> SUFFICES ASSUME LostInv, [Next]_vars PROVE LostInv'
      OBVIOUS
  <2> USE DEF LostInv
  <2>1. CASE AgentTurns \/ CloseInput \/ LinkBreaks \/ Capture
      BY <2>1 DEF AgentTurns, CloseInput, LinkBreaks, Capture
  <2>2. CASE Sender
      BY <2>2 DEF Sender, Take, Sent, SendFails, SendVanishes
  <2>3. CASE Loop
      BY <2>3 DEF Loop, TurnStart, Started, StartVanishes, StartFails, Connected,
                  ReadFails, Finally
  <2>4. CASE TurnEnds \/ SilentRestart \/ UNCHANGED vars
      BY <2>4 DEF TurnEnds, SilentRestart, vars
  <2> QED
      BY <2>1, <2>2, <2>3, <2>4 DEF Next
<1>3. AudioInv /\ LostInv /\ [Next]_vars => AudioInv'
    BY StepInv
<1> QED
    BY InitInv, <1>1, <1>2, <1>3, PTL DEF Spec

\* Every variable keeps its type, and audio_q its size.
THEOREM TypeCorrect == Spec => []TypeOK
<1>1. AudioInv => TypeOK
    BY DEF AudioInv
<1> QED
    BY Invariance, <1>1, PTL

----------------------------------------------------------------------------
(* A sender for every stream that reads                                    *)

\* While the stream reads on a live connection a sender serves it.
THEOREM SendersServe == Spec => []SenderServes
<1>1. Init => SenderServes
    BY DEF Init, SenderServes
<1>2. TypeOK /\ SenderServes /\ [Next]_vars => SenderServes'
  <2> SUFFICES ASSUME TypeOK, SenderServes, [Next]_vars PROVE SenderServes'
      OBVIOUS
  <2>1. sender \in {"none", "get", "send", "done"}
      BY DEF TypeOK
  <2>2. CASE AgentTurns \/ CloseInput \/ LinkBreaks \/ Capture
      BY <2>2 DEF AgentTurns, CloseInput, LinkBreaks, Capture, SenderServes
  <2>3. CASE Sender
      BY <2>3 DEF Sender, Take, Sent, SendFails, SendVanishes, SenderServes
  <2>4. CASE TurnStart
      BY <2>4 DEF TurnStart, Goto, SenderServes
  <2>5. CASE Started \/ StartVanishes
      BY <2>1, <2>5 DEF Started, StartVanishes, EnsureSendTask, SenderServes
  <2>6. CASE StartFails \/ Connected \/ ReadFails \/ Finally
      BY <2>6 DEF StartFails, Connected, ReadFails, Finally, Goto, SenderServes
  <2>7. CASE TurnEnds \/ SilentRestart
      BY <2>7 DEF TurnEnds, SilentRestart, Goto, SenderServes
  <2>8. CASE UNCHANGED vars
      BY <2>8 DEF vars, SenderServes
  <2> QED
      BY <2>2, <2>3, <2>4, <2>5, <2>6, <2>7, <2>8 DEF Next, Loop
<1> QED
    BY TypeCorrect, <1>1, <1>2, PTL DEF Spec

----------------------------------------------------------------------------
(* What the audio path promises                                            *)

\* A stray that never came may as well be frame 0, which there is not.
LEMMA StrayFeeds ==
    ASSUME NEW s \in Seq(Nat), NEW stray \in Nat, NEW limit \in Nat,
           Late(s, stray, limit), Sorted(s, stray)
    PROVE  Feed!OneStray(s, limit)
<1>1. CASE \E i \in DOMAIN s : s[i] = stray
    BY <1>1 DEF Feed!OneStray, Late, Sorted, Before
<1>2. CASE \A i \in DOMAIN s : s[i] # stray
  <2>1. /\ \A i \in DOMAIN s : s[i] = 0 \/ s[i] > limit
        /\ \A i, j \in DOMAIN s :
              i < j => s[i] = 0 \/ s[j] = 0 \/ s[i] < s[j]
      BY <1>2 DEF Late, Sorted, Before
  <2> QED
      BY <2>1 DEF Feed!OneStray
<1> QED
    BY <1>1, <1>2

\* A frame that is sent is one the service may hear.
LEMMA SentHears ==
    ASSUME AudioInv, AudioInv', Sent
    PROVE  \E frame \in 1 .. captured : Feed!Hear(frame)
<1>1. PICK h \in Nat : held = <<h>>
    BY HeldFacts DEF AudioInv, Sent
<1>2. /\ heard \in Seq(Nat) /\ heard' \in Seq(Nat) /\ since \in Nat
      /\ heard' = heard \o <<h>>
      /\ UNCHANGED <<captured, since>>
    BY <1>1 DEF AudioInv, TypeOK, Sent
<1>3. heard' = Append(heard, h)
    BY <1>1, <1>2, AppendFacts
<1>4. h \in 1 .. captured /\ \A i \in DOMAIN heard : heard[i] # h
    BY <1>1, SingleFacts DEF AudioInv, KnownInv, Known, OnceInv, Apart
<1>5. Feed!OneStray(heard', since)
  <2>1. PICK stray \in Nat : InOrder(stray)'
      BY DEF AudioInv, OrderInv, Sent, Alive
  <2> QED
      BY <1>2, <2>1, StrayFeeds DEF InOrder
<1> QED
    BY <1>2, <1>3, <1>4, <1>5 DEF Feed!Hear

\* The audio path implements AudioFeed: what is captured, begun and sent is
\* captured, begun and heard there, and nothing else changes what it has.
THEOREM Refinement == Spec => FeedsTurn
<1>1. Init => Feed!Init
    BY DEF Init, Feed!Init
<1>2. AudioInv /\ AudioInv' /\ [Next]_vars
        => [Feed!Next]_<<captured, since, heard>>
  <2> SUFFICES ASSUME AudioInv, AudioInv', [Next]_vars
               PROVE  Feed!Next \/ UNCHANGED <<captured, since, heard>>
      OBVIOUS
  <2>1. CASE Capture
      BY <2>1 DEF Capture, Feed!Next, Feed!Capture
  <2>2. CASE Sent
      BY <2>2, SentHears DEF Feed!Next
  <2>3. CASE Started
    <3>1. since' \in since .. captured
        BY <2>3 DEF Started, AudioInv, TypeOK
    <3> QED
        BY <2>3, <3>1 DEF Started, Feed!Next, Feed!Begin
  <2>4. CASE SilentRestart
    <3>1. since' \in since .. captured
        BY <2>4 DEF SilentRestart, AudioInv, TypeOK
    <3> QED
        BY <2>4, <3>1 DEF SilentRestart, Feed!Next, Feed!Begin
  <2>5. CASE LinkBreaks \/ Finally
    <3>1. since \in since .. captured
        BY DEF AudioInv, TypeOK
    <3> QED
        BY <2>5, <3>1 DEF LinkBreaks, Finally, Feed!Next, Feed!Begin
  <2>6. CASE AgentTurns \/ CloseInput \/ Take \/ SendFails \/ SendVanishes
      BY <2>6 DEF AgentTurns, CloseInput, Take, SendFails, SendVanishes
  <2>7. CASE \/ TurnStart \/ StartVanishes \/ StartFails
             \/ Connected \/ ReadFails
      BY <2>7 DEF TurnStart, StartVanishes, StartFails, Connected, ReadFails
  <2>8. CASE TurnEnds \/ UNCHANGED vars
      BY <2>8 DEF TurnEnds, vars
  <2> QED
      BY <2>1, <2>2, <2>3, <2>4, <2>5, <2>6, <2>7, <2>8 DEF Next, Sender, Loop
<1> QED
    BY Invariance, <1>1, <1>2, PTL DEF Spec, FeedsTurn, Feed!Spec

====

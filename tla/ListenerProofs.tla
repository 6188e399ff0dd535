--------------------------- MODULE ListenerProofs ---------------------------
(***************************************************************************)
(* Proofs about Listener, for any characters, live texts of any length and *)
(* any number of edits and packets.                                        *)
(*                                                                         *)
(* The text a listener will show is what its queue of chunks makes of the  *)
(* text it has (PlayAll).  The first two sections establish what the       *)
(* proofs need of that: that a queue that gets a chunk is the same         *)
(* text with the chunk played, and that playing the first chunk of a queue *)
(* changes nothing.                                                        *)
(***************************************************************************)
EXTENDS Listener, FiniteSetTheorems, SequenceTheorems, WellFoundedInduction, TLAPS

(* Induction, as a fact about sets of numbers.                             *)

LEMMA Least ==
  ASSUME NEW T \in SUBSET Nat, T # {}
  PROVE  \E x \in T : \A y \in T : x <= y
<1> DEFINE F == {0 .. x : x \in T}
<1>1. IsWellFoundedOn(StrictSubsetOrdering(Nat), FiniteSubsetsOf(Nat))
  BY FS_StrictSubsetOrderingWellFounded
<1>2. F \subseteq FiniteSubsetsOf(Nat)
  <2>1. \A x \in T : 0 .. x \in SUBSET Nat /\ IsFiniteSet(0 .. x)
    BY FS_Interval
  <2> QED BY <2>1 DEF FiniteSubsetsOf
<1>3. F # {}
  OBVIOUS
<1>4. \E f \in F : \A g \in F : <<g, f>> \notin StrictSubsetOrdering(Nat)
  <2> HIDE DEF F
  <2> QED BY <1>1, <1>2, <1>3, WFMin
<1>5. PICK x \in T : \A y \in T : <<0 .. y, 0 .. x>> \notin StrictSubsetOrdering(Nat)
  BY <1>4
<1>6. ASSUME NEW y \in T, y < x
      PROVE  FALSE
  <2>1. 0 .. y \subseteq 0 .. x /\ 0 .. y # 0 .. x
    <3>1. x \in 0 .. x /\ x \notin 0 .. y
      BY <1>6
    <3> QED BY <1>6, <3>1
  <2>2. 0 .. y \in SUBSET Nat /\ 0 .. x \in SUBSET Nat
    OBVIOUS
  <2>3. <<0 .. y, 0 .. x>> \in StrictSubsetOrdering(Nat)
    BY <2>1, <2>2 DEF StrictSubsetOrdering
  <2> QED BY <1>5, <2>3
<1> QED BY <1>6

LEMMA Induction ==
  ASSUME NEW S, 0 \in S, \A n \in Nat : n \in S => n + 1 \in S
  PROVE  \A n \in Nat : n \in S
<1> SUFFICES ASSUME NEW m \in Nat, m \notin S
             PROVE  FALSE
  OBVIOUS
<1> DEFINE T == {n \in Nat : n \notin S}
<1>1. PICK x \in T : \A y \in T : x <= y
  BY Least
<1>2. x # 0 /\ x \in Nat
  OBVIOUS
<1>3. x - 1 \in Nat /\ x - 1 \in S
  BY <1>1, <1>2
<1> QED BY <1>2, <1>3

(* Playing a queue.                                                        *)

Follows(f, t, queue) ==
  f = [n \in 0..Len(queue) |-> IF n = 0 THEN t ELSE Play(f[n-1], queue[n])]

LEMMA CanBePlayed ==
  ASSUME NEW t, NEW queue, Len(queue) \in Nat
  PROVE  \E f : Follows(f, t, queue)
<1> DEFINE Upto(f, m) == f = [n \in 0..m |-> IF n = 0 THEN t ELSE Play(f[n-1], queue[n])]
           S == {m \in Nat : \E f : Upto(f, m)}
<1>1. 0 \in S
  <2>1. Upto([n \in 0..0 |-> t], 0)
    OBVIOUS
  <2> QED BY <2>1
<1>2. ASSUME NEW m \in Nat, m \in S
      PROVE  m + 1 \in S
  <2>1. PICK f : Upto(f, m)
    BY <1>2
  <2> DEFINE g == [n \in 0..(m+1) |-> IF n = m + 1 THEN Play(f[m], queue[m+1]) ELSE f[n]]
  <2>2. \A n \in 0..(m+1) : g[n] = IF n = 0 THEN t ELSE Play(g[n-1], queue[n])
    <3> TAKE n \in 0..(m+1)
    <3>1. CASE n = m + 1
      <4>1. g[n] = Play(f[m], queue[m+1]) /\ g[n-1] = f[m] /\ n # 0
        BY <3>1
      <4> HIDE DEF g
      <4> QED BY <3>1, <4>1
    <3>2. CASE n # m + 1
      <4>1. n \in 0..m
        BY <3>2
      <4>2. f[n] = IF n = 0 THEN t ELSE Play(f[n-1], queue[n])
        BY <2>1, <4>1
      <4>3. g[n] = f[n] /\ (n # 0 => g[n-1] = f[n-1])
        BY <3>2, <4>1
      <4> HIDE DEF g
      <4> QED BY <4>2, <4>3
    <3> QED BY <3>1, <3>2
  <2>3. Upto(g, m + 1)
    <3>1. g = [n \in 0..(m+1) |-> g[n]]
      OBVIOUS
    <3> HIDE DEF g
    <3> QED BY <2>2, <3>1
  <2> HIDE DEF g, Upto
  <2> QED BY <2>3
<1>3. Len(queue) \in S
  <2> HIDE DEF S
  <2> QED BY <1>1, <1>2, Induction
<1> QED BY <1>3 DEF Follows

LEMMA PlayedFollows ==
  ASSUME NEW t, NEW queue, Len(queue) \in Nat
  PROVE  Follows(Played(t, queue), t, queue)
<1>1. PICK f : Follows(f, t, queue)
  BY CanBePlayed
<1> QED BY <1>1 DEF Played, Follows

LEMMA PlayedSteps ==
  ASSUME NEW t, NEW queue, Len(queue) \in Nat
  PROVE  /\ Played(t, queue)[0] = t
         /\ \A n \in 1..Len(queue) :
              Played(t, queue)[n] = Play(Played(t, queue)[n-1], queue[n])
<1> DEFINE f == Played(t, queue)
<1>1. f = [n \in 0..Len(queue) |-> IF n = 0 THEN t ELSE Play(f[n-1], queue[n])]
  BY PlayedFollows DEF Follows
<1> HIDE DEF f
<1>2. f[0] = t
  BY <1>1
<1>3. \A n \in 1..Len(queue) : f[n] = Play(f[n-1], queue[n])
  BY <1>1
<1> QED BY <1>2, <1>3 DEF f

(* There is one way to play a queue.                                       *)
LEMMA PlayedIs ==
  ASSUME NEW t, NEW queue, Len(queue) \in Nat, NEW f, f[0] = t,
         \A n \in 1..Len(queue) : f[n] = Play(f[n-1], queue[n])
  PROVE  PlayAll(t, queue) = f[Len(queue)]
<1> DEFINE g == Played(t, queue)
           S == {m \in Nat : m <= Len(queue) => f[m] = g[m]}
<1>1. g[0] = t /\ \A n \in 1..Len(queue) : g[n] = Play(g[n-1], queue[n])
  BY PlayedSteps
<1> HIDE DEF g
<1>2. 0 \in S
  BY <1>1
<1>3. ASSUME NEW m \in Nat, m \in S
      PROVE  m + 1 \in S
  <2>1. CASE m + 1 <= Len(queue)
    <3>1. m + 1 \in 1..Len(queue) /\ (m + 1) - 1 = m
      BY <2>1
    <3>2. f[m+1] = Play(f[m], queue[m+1]) /\ g[m+1] = Play(g[m], queue[m+1])
      BY <1>1, <3>1
    <3>3. f[m] = g[m]
      BY <1>3, <2>1
    <3> QED BY <3>2, <3>3
  <2> QED BY <2>1
<1>4. Len(queue) \in S
  <2> HIDE DEF S
  <2> QED BY <1>2, <1>3, Induction
<1> QED BY <1>4 DEF PlayAll, g

LEMMA PlayAppend ==
  ASSUME NEW t, NEW queue \in Seq(ContentChunks), NEW chunk \in ContentChunks
  PROVE  PlayAll(t, Append(queue, chunk)) = Play(PlayAll(t, queue), chunk)
<1> DEFINE more == Append(queue, chunk)
           g == Played(t, queue)
           f == [n \in 0..Len(more) |-> IF n = Len(more) THEN Play(g[Len(queue)], chunk) ELSE g[n]]
<1>1. /\ Len(queue) \in Nat /\ Len(more) = Len(queue) + 1
      /\ more[Len(more)] = chunk
      /\ \A n \in 1..Len(queue) : more[n] = queue[n]
  BY AppendProperties, LenProperties
<1>2. g[0] = t /\ \A n \in 1..Len(queue) : g[n] = Play(g[n-1], queue[n])
  BY <1>1, PlayedSteps
<1> HIDE DEF g, more
<1>3. f[0] = t
  BY <1>1, <1>2
<1>4. \A n \in 1..Len(more) : f[n] = Play(f[n-1], more[n])
  <2> TAKE n \in 1..Len(more)
  <2>1. CASE n = Len(more)
    <3>1. f[n] = Play(g[Len(queue)], chunk) /\ f[n-1] = g[Len(queue)]
      BY <1>1, <2>1
    <3> HIDE DEF f
    <3> QED BY <1>1, <2>1, <3>1
  <2>2. CASE n # Len(more)
    <3>1. n \in 1..Len(queue)
      BY <1>1, <2>2
    <3>2. f[n] = g[n] /\ f[n-1] = g[n-1]
      BY <1>1, <2>2, <3>1
    <3> HIDE DEF f
    <3> QED BY <1>1, <1>2, <3>1, <3>2
  <2> QED BY <2>1, <2>2
<1>5. PlayAll(t, more) = f[Len(more)]
  <2> HIDE DEF f
  <2> QED BY <1>1, <1>3, <1>4, PlayedIs
<1>6. f[Len(more)] = Play(g[Len(queue)], chunk)
  BY <1>1
<1> QED BY <1>5, <1>6 DEF PlayAll, more, g

LEMMA PlayFirst ==
  ASSUME NEW t, NEW queue \in Seq(ContentChunks), queue # <<>>
  PROVE  PlayAll(Play(t, Head(queue)), Tail(queue)) = PlayAll(t, queue)
<1> DEFINE less == Tail(queue)
           g == Played(t, queue)
           f == [n \in 0..Len(less) |-> g[n+1]]
<1>1. /\ Len(queue) \in Nat /\ Len(queue) >= 1 /\ Len(less) = Len(queue) - 1
      /\ Head(queue) = queue[1]
      /\ \A n \in 1..Len(less) : less[n] = queue[n+1]
  BY HeadTailProperties, LenProperties
<1>2. g[0] = t /\ \A n \in 1..Len(queue) : g[n] = Play(g[n-1], queue[n])
  BY <1>1, PlayedSteps
<1> HIDE DEF g, less
<1>3. f[0] = Play(t, Head(queue))
  <2>1. f[0] = g[1]
    BY <1>1
  <2>2. g[1] = Play(g[0], queue[1])
    BY <1>1, <1>2
  <2> QED BY <1>1, <1>2, <2>1, <2>2
<1>4. \A n \in 1..Len(less) : f[n] = Play(f[n-1], less[n])
  <2> TAKE n \in 1..Len(less)
  <2>1. f[n] = g[n+1] /\ f[n-1] = g[n] /\ n + 1 \in 1..Len(queue) /\ (n+1) - 1 = n
    BY <1>1
  <2> HIDE DEF f
  <2>2. g[n+1] = Play(g[n], queue[n+1])
    BY <1>2, <2>1
  <2> QED BY <1>1, <2>1, <2>2
<1>5. PlayAll(Play(t, Head(queue)), less) = f[Len(less)]
  <2> HIDE DEF f
  <2> QED BY <1>1, <1>3, <1>4, PlayedIs
<1>6. f[Len(less)] = g[Len(queue)]
  BY <1>1
<1> QED BY <1>5, <1>6 DEF PlayAll, less, g

LEMMA PlayNone ==
  ASSUME NEW t
  PROVE  PlayAll(t, <<>>) = t
<1>1. Len(<<>>) = 0
  OBVIOUS
<1> QED BY <1>1, PlayedSteps DEF PlayAll

(* Texts and chunks.                                                       *)

LEMMA Lines ==
  \A s : s \in Line <=> s \in Seq(Char) /\ Len(s) <= MaxLen
<1>1. ASSUME NEW s, s \in Line
      PROVE  s \in Seq(Char) /\ Len(s) <= MaxLen
  <2>1. PICK m \in 0..MaxLen : s \in [1..m -> Char]
    BY <1>1 DEF Line, SeqOf
  <2>2. m \in Nat
    BY <2>1, BoundsAreNat
  <2>3. s \in Seq(Char) /\ Len(s) = m
    BY <2>1, <2>2
  <2> QED BY <2>1, <2>3, BoundsAreNat
<1>2. ASSUME NEW s \in Seq(Char), Len(s) <= MaxLen
      PROVE  s \in Line
  <2>1. Len(s) \in 0..MaxLen /\ s \in [1..Len(s) -> Char]
    BY <1>2, BoundsAreNat, LenProperties
  <2> QED BY <2>1 DEF Line, SeqOf
<1> QED BY <1>1, <1>2

LEMMA NoLine == <<>> \in Line
<1>1. <<>> \in Seq(Char) /\ Len(<<>>) = 0
  OBVIOUS
<1>2. Len(<<>>) <= MaxLen
  BY <1>1, BoundsAreNat
<1> QED BY <1>1, <1>2, Lines

LEMMA ChunkShapes ==
  ASSUME NEW chunk \in ContentChunks
  PROVE  /\ chunk.kind \in {"diff", "newline", "startReread", "liveText"}
         /\ chunk.text \in Line
         /\ chunk.kind = "diff" =>
              chunk.offset \in 0..MaxLen /\ chunk.offset + Len(chunk.text) <= MaxLen
BY NoLine DEF ContentChunks, Diffs, Diff, LiveTextChunk, StartReread, NewLine

LEMMA ChunksMade ==
  /\ \A offset \in 0..MaxLen, s \in Line :
       offset + Len(s) <= MaxLen => Diff(offset, s) \in ContentChunks
  /\ \A s \in Line : LiveTextChunk(s) \in ContentChunks
  /\ StartReread \in ContentChunks /\ NewLine \in ContentChunks
BY DEF ContentChunks, Diffs, Diff

(* What each kind of chunk makes of a text.                                *)
LEMMA PlayEach ==
  ASSUME NEW t \in Text, NEW chunk
  PROVE  /\ chunk.kind = "newline" =>
              Play(t, chunk) = [live |-> <<>>, past |-> Append(t.past, t.live),
                                reset |-> FALSE, synced |-> TRUE]
         /\ chunk.kind = "diff" /\ chunk.offset > Len(t.live) =>
              Play(t, chunk) = [t EXCEPT !.reset = TRUE]
         /\ chunk.kind = "diff" /\ ~(chunk.offset > Len(t.live)) =>
              Play(t, chunk) = [live |-> SubSeq(t.live, 1, chunk.offset) \o chunk.text,
                                past |-> t.past, reset |-> FALSE,
                                synced |-> (t.synced \/ chunk.offset = 0)]
         /\ chunk.kind = "startReread" =>
              Play(t, chunk) = IF t.reset THEN [t EXCEPT !.live = <<>>] ELSE t
         /\ chunk.kind = "liveText" =>
              Play(t, chunk) = IF t.reset
                               THEN [live |-> chunk.text, past |-> t.past,
                                     reset |-> FALSE, synced |-> TRUE]
                               ELSE t
<1>1. /\ t = [live |-> t.live, past |-> t.past, reset |-> t.reset, synced |-> t.synced]
      /\ t.reset \in BOOLEAN /\ t.synced \in BOOLEAN
  BY DEF Text
<1>2. ASSUME chunk.kind = "newline"
      PROVE  Play(t, chunk) = [live |-> <<>>, past |-> Append(t.past, t.live),
                               reset |-> FALSE, synced |-> TRUE]
  <2>1. Play(t, chunk) = [t EXCEPT !.live = <<>>, !.past = Append(@, t.live),
                                   !.reset = FALSE, !.synced = TRUE]
    BY <1>2 DEF Play
  <2> QED BY <1>1, <2>1
<1>3. ASSUME chunk.kind = "diff", chunk.offset > Len(t.live)
      PROVE  Play(t, chunk) = [t EXCEPT !.reset = TRUE]
  BY <1>3 DEF Play, Gap
<1>4. ASSUME chunk.kind = "diff", ~(chunk.offset > Len(t.live))
      PROVE  Play(t, chunk) = [live |-> SubSeq(t.live, 1, chunk.offset) \o chunk.text,
                               past |-> t.past, reset |-> FALSE,
                               synced |-> (t.synced \/ chunk.offset = 0)]
  BY <1>1, <1>4 DEF Play, Gap
<1>5. ASSUME chunk.kind = "startReread"
      PROVE  Play(t, chunk) = IF t.reset THEN [t EXCEPT !.live = <<>>] ELSE t
  BY <1>5 DEF Play, Gap
<1>6. ASSUME chunk.kind = "liveText"
      PROVE  Play(t, chunk) = IF t.reset
                              THEN [live |-> chunk.text, past |-> t.past,
                                    reset |-> FALSE, synced |-> TRUE]
                              ELSE t
  <2>1. ~Gap(t, chunk)
    BY <1>6 DEF Gap
  <2>2. CASE t.reset
    <3>1. Play(t, chunk) = [t EXCEPT !.live = chunk.text, !.reset = FALSE, !.synced = TRUE]
      BY <1>6, <2>1, <2>2 DEF Play
    <3> QED BY <1>1, <2>2, <3>1
  <2>3. CASE ~t.reset
    BY <1>6, <2>1, <2>3 DEF Play
  <2> QED BY <2>2, <2>3
<1> QED BY <1>2, <1>3, <1>4, <1>5, <1>6

LEMMA NoCut == \A s : SubSeq(s, 1, 0) = <<>>
BY SubSeqEmpty

LEMMA CutTyped ==
  ASSUME NEW live \in Line, NEW s \in Line, NEW n \in Nat, n <= Len(live), n + Len(s) <= MaxLen
  PROVE  SubSeq(live, 1, n) \o s \in Line
<1>1. live \in Seq(Char) /\ s \in Seq(Char) /\ Len(live) \in Nat
  BY Lines, LenProperties
<1>2. SubSeq(live, 1, n) \in Seq(Char) /\ Len(SubSeq(live, 1, n)) = n
  <2>1. \A i \in 1..n : live[i] \in Char
    BY <1>1, ElementOfSeq
  <2> QED BY <2>1, SubSeqProperties
<1>3. SubSeq(live, 1, n) \o s \in Seq(Char) /\ Len(SubSeq(live, 1, n) \o s) = n + Len(s)
  BY <1>1, <1>2, ConcatProperties
<1> QED BY <1>3, Lines

LEMMA PlayTyped ==
  ASSUME NEW t \in Text, NEW chunk \in ContentChunks
  PROVE  Play(t, chunk) \in Text
<1>1. t.live \in Line /\ t.past \in Seq(Line) /\ t.reset \in BOOLEAN /\ t.synced \in BOOLEAN
  BY DEF Text
<1>2. Len(t.live) \in Nat
  BY <1>1, Lines, LenProperties
<1>3. CASE chunk.kind = "newline"
  <2>1. Append(t.past, t.live) \in Seq(Line)
    BY <1>1, AppendProperties
  <2>2. Play(t, chunk) = [live |-> <<>>, past |-> Append(t.past, t.live),
                          reset |-> FALSE, synced |-> TRUE]
    BY <1>3, PlayEach
  <2> QED BY <2>1, <2>2, NoLine DEF Text
<1>4. CASE chunk.kind = "diff" /\ chunk.offset > Len(t.live)
  <2>1. Play(t, chunk) = [t EXCEPT !.reset = TRUE]
    BY <1>4, PlayEach
  <2> QED BY <2>1 DEF Text
<1>5. CASE chunk.kind = "diff" /\ ~(chunk.offset > Len(t.live))
  <2>1. SubSeq(t.live, 1, chunk.offset) \o chunk.text \in Line
    BY <1>1, <1>2, <1>5, CutTyped, ChunkShapes, BoundsAreNat
  <2>2. (t.synced \/ chunk.offset = 0) \in BOOLEAN
    OBVIOUS
  <2>3. Play(t, chunk) = [live |-> SubSeq(t.live, 1, chunk.offset) \o chunk.text,
                          past |-> t.past, reset |-> FALSE,
                          synced |-> (t.synced \/ chunk.offset = 0)]
    BY <1>5, PlayEach
  <2> HIDE DEF Line
  <2> QED BY <1>1, <2>1, <2>2, <2>3 DEF Text
<1>6. CASE chunk.kind = "startReread"
  BY <1>6, PlayEach, NoLine DEF Text
<1>7. CASE chunk.kind = "liveText"
  <2>1. Play(t, chunk) = IF t.reset
                         THEN [live |-> chunk.text, past |-> t.past,
                               reset |-> FALSE, synced |-> TRUE]
                         ELSE t
    BY <1>7, PlayEach
  <2>2. chunk.text \in Line
    BY ChunkShapes
  <2> QED BY <1>1, <2>1, <2>2 DEF Text
<1> QED BY <1>3, <1>4, <1>5, <1>6, <1>7, ChunkShapes

(* Where an edit starts: the text before it is the same in both.           *)
Offset(old, new) == Len(LongestCommonPrefix({old, new}))
Rest(old, new) == SubSeq(new, Offset(old, new) + 1, Len(new))

LEMMA EditStarts ==
  ASSUME NEW old \in Line, NEW new \in Line
  PROVE  /\ Offset(old, new) \in Nat
         /\ Offset(old, new) <= Len(old) /\ Offset(old, new) <= Len(new)
         /\ SubSeq(old, 1, Offset(old, new)) = SubSeq(new, 1, Offset(old, new))
<1> DEFINE P == CommonPrefixes({old, new})
           D == {Len(old) - Len(p) : p \in P}
<1>1. Len(old) \in Nat /\ Len(new) \in Nat /\ old \in Seq(Char) /\ new \in Seq(Char)
  BY Lines, LenProperties
<1>2. \A p \in P : Len(p) \in Nat /\ IsPrefix(p, old) /\ IsPrefix(p, new)
  <2> TAKE p \in P
  <2>1. PICK s \in {old, new} : \E l \in 0..Len(s) : p = SubSeq(s, 1, l)
    BY DEF CommonPrefixes, Prefixes
  <2> PICK l \in 0..Len(s) : p = SubSeq(s, 1, l)
    BY <2>1
  <2>2. l \in Nat /\ s \in Seq(Char) /\ l <= Len(s)
    BY <1>1
  <2>3. \A i \in 1..l : s[i] \in Char
    BY <2>2, ElementOfSeq
  <2>4. Len(p) = l
    BY <2>2, <2>3, SubSeqProperties
  <2> QED BY <2>2, <2>4 DEF CommonPrefixes
<1>3. <<>> \in P
  <2>1. SubSeq(old, 1, 0) = <<>>
    BY SubSeqEmpty
  <2>2. 0 \in 0..Len(old)
    BY <1>1
  <2>3. <<>> \in Prefixes(old)
    BY <2>1, <2>2 DEF Prefixes
  <2>4. \A t \in {old, new} : IsPrefix(<<>>, t)
    <3> TAKE t \in {old, new}
    <3>1. Len(<<>>) = 0 /\ SubSeq(t, 1, 0) = <<>> /\ SubSeq(<<>>, 1, 0) = <<>>
      BY SubSeqEmpty
    <3> QED BY <1>1, <3>1 DEF IsPrefix
  <2> QED BY <2>3, <2>4 DEF CommonPrefixes
<1>4. D \in SUBSET Nat /\ D # {}
  <2>1. \A p \in P : Len(old) - Len(p) \in Nat
    <3> HIDE DEF P
    <3> QED BY <1>1, <1>2 DEF IsPrefix
  <2> QED BY <1>3, <2>1
<1>5. PICK d \in D : \A e \in D : d <= e
  <2> HIDE DEF D
  <2> QED BY <1>4, Least
<1>6. PICK p \in P : d = Len(old) - Len(p)
  BY <1>5
<1>7. \A other \in P : Len(other) <= Len(p)
  <2> TAKE other \in P
  <2>1. d <= Len(old) - Len(other)
    BY <1>5
  <2> QED BY <1>1, <1>2, <1>6, <2>1
<1>8. LongestCommonPrefix({old, new}) \in P
  <2> HIDE DEF P
  <2> QED BY <1>7 DEF LongestCommonPrefix, P
<1> QED BY <1>2, <1>8 DEF IsPrefix, Offset

(* Types.                                                                  *)

LEMMA InitTyped == Init => TypeOK
<1> SUFFICES ASSUME Init PROVE TypeOK
  OBVIOUS
<1>1. text \in Text
  BY NoLine DEF Init, Fresh, Text
<1>2. whispered \in [live : Line, past : Seq(Line)] /\ base \in 0..Len(whispered.past)
  BY NoLine DEF Init
<1>3. /\ content \in Seq(ContentChunks) /\ toWhisperer \in Seq(FromListener)
      /\ toListener \in Seq(FromWhisperer)
  BY DEF Init
<1> QED BY <1>1, <1>2, <1>3 DEF Init, TypeOK

LEMMA FreshTyped == \A reset \in BOOLEAN : Fresh(reset) \in Text
BY NoLine DEF Fresh, Text

LEMMA Sending ==
  ASSUME TypeOK
  PROVE  /\ \A kinds \in Seq(FromListener) :
              SendWhisperer(kinds) => toWhisperer' \in Seq(FromListener)
         /\ \A kind \in FromWhisperer : SendListener(kind) => toListener' \in Seq(FromWhisperer)
         /\ \A sent \in Seq(ContentChunks) :
              Broadcast(sent) => /\ content' \in Seq(ContentChunks)
                                 /\ ~attached => content' = content
<1>1. /\ toWhisperer \in Seq(FromListener) /\ toListener \in Seq(FromWhisperer)
      /\ content \in Seq(ContentChunks)
  BY DEF TypeOK
<1>2. ASSUME NEW kinds \in Seq(FromListener), SendWhisperer(kinds)
      PROVE  toWhisperer' \in Seq(FromListener)
  BY <1>1, <1>2, ConcatProperties DEF SendWhisperer
<1>3. ASSUME NEW kind \in FromWhisperer, SendListener(kind)
      PROVE  toListener' \in Seq(FromWhisperer)
  BY <1>1, <1>3, AppendProperties DEF SendListener
<1>4. ASSUME NEW sent \in Seq(ContentChunks), Broadcast(sent)
      PROVE  /\ content' \in Seq(ContentChunks)
             /\ ~attached => content' = content
  BY <1>1, <1>4, ConcatProperties DEF Broadcast
<1> QED BY <1>2, <1>3, <1>4

LEMMA Kinds ==
  /\ <<>> \in Seq(FromListener) /\ <<"dropping">> \in Seq(FromListener)
  /\ <<"joining">> \in Seq(FromListener) /\ <<"joining", "requestReread">> \in Seq(FromListener)
  /\ <<"listenRequest">> \in Seq(FromListener) /\ <<"listenOffer">> \in Seq(FromListener)
  /\ <<"requestReread">> \in Seq(FromListener)
BY DEF FromListener

(* What the text does not depend on.                                       *)
Aside ==
  /\ UNCHANGED <<text, attached, initialRead, base, content, whispered>>
  /\ status' = status \/ (status = "naming" /\ status' = "waiting")
  /\ toWhisperer' \in Seq(FromListener) /\ toListener' \in Seq(FromWhisperer)
  /\ there' \in BOOLEAN

LEMMA ControlAside ==
  ASSUME TypeOK,
         ConfirmName \/ TranscriptReceived \/ Arrive \/ OfferAgain \/ SendTranscriptId \/ Stop
  PROVE  Aside
<1>1. CASE ConfirmName
  BY <1>1, Sending, Kinds DEF ConfirmName, Aside, TypeOK
<1>2. CASE TranscriptReceived
  <2>1. toListener' \in Seq(FromWhisperer)
    BY <1>2, HeadTailProperties DEF TranscriptReceived, Receive, TypeOK
  <2>2. toWhisperer' \in Seq(FromListener)
    BY <1>2, Sending, Kinds DEF TranscriptReceived
  <2> QED BY <1>2, <2>1, <2>2 DEF TranscriptReceived, Receive, Aside, TypeOK, listener
<1>3. CASE Arrive
  <2>1. "whisperOffer" \in FromWhisperer
    BY DEF FromWhisperer
  <2> QED BY <1>3, <2>1, Sending DEF Arrive, Aside, TypeOK, listener
<1>4. CASE OfferAgain
  <2>1. "whisperOffer" \in FromWhisperer
    BY DEF FromWhisperer
  <2> QED BY <1>4, <2>1, Sending DEF OfferAgain, Aside, TypeOK, listener
<1>5. CASE SendTranscriptId
  <2>1. "transcriptId" \in FromWhisperer
    BY DEF FromWhisperer
  <2> QED BY <1>5, <2>1, Sending DEF SendTranscriptId, Aside, TypeOK, listener
<1>6. CASE Stop
  <2>1. PICK kind \in {"dropping", "restart"} : SendListener(kind)
    BY <1>6 DEF Stop
  <2>2. kind \in FromWhisperer
    BY DEF FromWhisperer
  <2>3. toListener' \in Seq(FromWhisperer)
    BY <2>1, <2>2, Sending
  <2>4. toWhisperer' \in Seq(FromListener)
    BY <1>6, Kinds DEF Stop
  <2> QED BY <1>6, <2>3, <2>4 DEF Stop, Aside, TypeOK, listener
<1> QED BY <1>1, <1>2, <1>3, <1>4, <1>5, <1>6

LEMMA AsideTyped == TypeOK /\ Aside => TypeOK'
BY DEF TypeOK, Aside

(* The listener leaves the text, and has its channel no longer.            *)
Leaves ==
  /\ status' \in {"exited", "requesting"}
  /\ text' = Fresh(text.reset) /\ ~attached' /\ content' = <<>>
  /\ UNCHANGED <<base, whispered, initialRead, there>>
  /\ toWhisperer' \in Seq(FromListener) /\ toListener' \in Seq(FromWhisperer)

LEMMA TextLeft ==
  ASSUME TypeOK, Dropped \/ Refused \/ Offered \/ Leave
  PROVE  Leaves
<1>1. ASSUME NEW kinds, Receive(kinds)
      PROVE  toListener' \in Seq(FromWhisperer) /\ UNCHANGED <<there, whispered>>
  BY <1>1, HeadTailProperties DEF Receive, TypeOK
<1>2. CASE Dropped
  <2>1. toListener' \in Seq(FromWhisperer) /\ UNCHANGED <<there, whispered>>
    BY <1>1, <1>2 DEF Dropped
  <2> QED BY <1>2, <2>1 DEF Dropped, Exit, Unmount, Leaves, TypeOK
<1>3. CASE Refused
  <2>1. toListener' \in Seq(FromWhisperer) /\ UNCHANGED <<there, whispered>>
    BY <1>1, <1>3 DEF Refused
  <2>2. toWhisperer' \in Seq(FromListener)
    BY <1>3, Sending, Kinds DEF Refused
  <2> QED BY <1>3, <2>1, <2>2 DEF Refused, Exit, Unmount, Leaves
<1>4. CASE Offered
  <2>1. toListener' \in Seq(FromWhisperer) /\ UNCHANGED <<there, whispered>>
    BY <1>1, <1>4 DEF Offered
  <2>2. toWhisperer' \in Seq(FromListener)
    BY <1>4, Sending, Kinds DEF Offered
  <2> QED BY <1>4, <2>1, <2>2 DEF Offered, Unmount, Leaves
<1>5. CASE Leave
  <2>1. toWhisperer' \in Seq(FromListener)
    BY <1>5, Sending, Kinds DEF Leave
  <2>2. toListener' \in Seq(FromWhisperer)
    BY <1>5 DEF Leave
  <2> QED BY <1>5, <2>1, <2>2 DEF Leave, Exit, Unmount, Leaves
<1> QED BY <1>2, <1>3, <1>4, <1>5

LEMMA LeavesTyped == TypeOK /\ Leaves => TypeOK'
<1> SUFFICES ASSUME TypeOK, Leaves PROVE TypeOK'
  OBVIOUS
<1>1. text' \in Text
  BY FreshTyped DEF TypeOK, Leaves, Text
<1>2. content' \in Seq(ContentChunks)
  BY DEF Leaves
<1> QED BY <1>1, <1>2 DEF TypeOK, Leaves

LEMMA LetInTyped == TypeOK /\ LetIn => TypeOK'
<1> SUFFICES ASSUME TypeOK, LetIn PROVE TypeOK'
  OBVIOUS
<1> DEFINE reads == ~initialRead /\ ~text.reset
<1>1. toListener' \in Seq(FromWhisperer) /\ UNCHANGED <<there, whispered>>
  BY HeadTailProperties DEF LetIn, Receive, TypeOK
<1>2. toWhisperer' \in Seq(FromListener)
  BY Sending, Kinds DEF LetIn
<1>3. text' \in Text
  <2>1. text' = [text EXCEPT !.reset = @ \/ reads]
    BY DEF LetIn
  <2>2. (text.reset \/ reads) \in BOOLEAN
    OBVIOUS
  <2> HIDE DEF reads
  <2> QED BY <2>1, <2>2 DEF TypeOK, Text
<1> QED BY <1>1, <1>2, <1>3 DEF LetIn, TypeOK

LEMMA AttachedTyped == TypeOK /\ ContentAttached => TypeOK'
<1> SUFFICES ASSUME TypeOK, ContentAttached PROVE TypeOK'
  OBVIOUS
<1>1. base' \in 0..Len(whispered'.past)
  <2>1. Len(whispered.past) \in Nat
    BY LenProperties DEF TypeOK
  <2> QED BY <2>1 DEF ContentAttached
<1> QED BY <1>1 DEF ContentAttached, TypeOK

LEMMA ReceiveTyped == TypeOK /\ ReceiveContentChunk => TypeOK'
<1> SUFFICES ASSUME TypeOK, ReceiveContentChunk PROVE TypeOK'
  OBVIOUS
<1>1. Head(content) \in ContentChunks /\ content' \in Seq(ContentChunks) /\ content # <<>>
  BY HeadTailProperties DEF ReceiveContentChunk, TypeOK
<1>2. text' \in Text
  BY <1>1, PlayTyped DEF ReceiveContentChunk, TypeOK
<1>3. toWhisperer' \in Seq(FromListener)
  BY Sending, Kinds DEF ReceiveContentChunk
<1> QED BY <1>1, <1>2, <1>3 DEF ReceiveContentChunk, TypeOK

LEMMA AnswerTyped == TypeOK /\ Answer => TypeOK'
<1> SUFFICES ASSUME TypeOK, Answer PROVE TypeOK'
  OBVIOUS
<1> DEFINE kind == Head(toWhisperer)
           sent == IF kind = "requestReread"
                   THEN <<StartReread, LiveTextChunk(whispered.live)>> ELSE <<>>
<1>1. toWhisperer' \in Seq(FromListener)
  BY HeadTailProperties DEF Answer, TypeOK
<1>2. toListener' \in Seq(FromWhisperer)
  <2>1. CASE Answers(kind) = {}
    BY <2>1 DEF Answer, TypeOK
  <2>2. CASE Answers(kind) # {}
    <3>1. PICK answer \in Answers(kind) : SendListener(answer)
      BY <2>2 DEF Answer
    <3>2. answer \in FromWhisperer
      BY <3>1 DEF Answers, FromWhisperer
    <3> QED BY <3>1, <3>2, Sending
  <2> QED BY <2>1, <2>2
<1>3. sent \in Seq(ContentChunks)
  <2>1. LiveTextChunk(whispered.live) \in ContentChunks /\ StartReread \in ContentChunks
    BY ChunksMade DEF TypeOK
  <2> QED BY <2>1
<1>4. content' \in Seq(ContentChunks) /\ (~attached => content' = content)
  <2>1. Broadcast(sent)
    BY DEF Answer
  <2> HIDE DEF sent
  <2> QED BY <1>3, <2>1, Sending
<1> QED BY <1>1, <1>2, <1>4 DEF Answer, TypeOK, listener

(* The chunk an edit is sent as.                                           *)
LEMMA EditChunk ==
  ASSUME NEW old \in Line, NEW new \in Line
  PROVE  /\ Rest(old, new) \in Line
         /\ Diff(Offset(old, new), Rest(old, new)) \in ContentChunks
         /\ SubSeq(old, 1, Offset(old, new)) \o Rest(old, new) = new
         /\ Offset(old, new) = 0 => Rest(old, new) = new
         /\ <<>> \o Rest(old, new) = Rest(old, new)
<1> DEFINE offset == Offset(old, new)
           rest == Rest(old, new)
<1>1. /\ offset \in Nat /\ offset <= Len(old) /\ offset <= Len(new)
      /\ SubSeq(old, 1, offset) = SubSeq(new, 1, offset)
  BY EditStarts
<1> HIDE DEF offset
<1>2. new \in Seq(Char) /\ Len(new) \in Nat /\ Len(new) <= MaxLen
  BY Lines, LenProperties
<1>0. rest = SubSeq(new, offset + 1, Len(new))
  BY DEF Rest, offset
<1> HIDE DEF rest
<1>3. rest \in Seq(Char) /\ Len(rest) = Len(new) - offset
  <2>1. \A i \in offset+1..Len(new) : new[i] \in Char
    BY <1>1, <1>2, ElementOfSeq
  <2> QED BY <1>0, <1>1, <1>2, <2>1, SubSeqProperties
<1>5. SubSeq(new, 1, offset) \o rest = SubSeq(new, 1, Len(new))
  <2>1. 1 \in 1..Len(new)+1 /\ offset \in 1-1..Len(new) /\ Len(new) \in offset..Len(new)
    BY <1>1, <1>2
  <2> QED BY <1>0, <1>2, <2>1, ConcatAdjacentSubSeq
<1>6. SubSeq(new, 1, Len(new)) = new
  BY <1>2, SubSeqFull
<1>9. offset = 0 => rest = new
  BY <1>0, <1>6
<1>4. rest \in Line
  BY <1>1, <1>2, <1>3, Lines, BoundsAreNat
<1>7. Diff(offset, rest) \in ContentChunks
  BY <1>1, <1>2, <1>3, <1>4, ChunksMade, BoundsAreNat
<1>8. <<>> \o rest = rest
  BY <1>3, ConcatEmptySeq
<1>11. SubSeq(old, 1, offset) \o rest = new
  BY <1>1, <1>5, <1>6
<1> QED BY <1>4, <1>7, <1>8, <1>9, <1>11 DEF offset, rest

LEMMA TypeTyped == \A new \in Line : TypeOK /\ Type(new) => TypeOK'
<1> SUFFICES ASSUME NEW new \in Line, TypeOK, Type(new) PROVE TypeOK'
  OBVIOUS
<1> DEFINE offset == Offset(whispered.live, new)
           rest == Rest(whispered.live, new)
<1>1. whispered.live \in Line
  BY DEF TypeOK
<1>2. Diff(offset, rest) \in ContentChunks
  BY <1>1, EditChunk
<1>3. Broadcast(<<Diff(offset, rest)>>)
  BY DEF Type, Offset, Rest
<1> HIDE DEF offset, rest
<1>4. content' \in Seq(ContentChunks) /\ (~attached => content' = content)
  <2>1. <<Diff(offset, rest)>> \in Seq(ContentChunks)
    BY <1>2
  <2> QED BY <1>3, <2>1, Sending
<1>5. whispered' \in [live : Line, past : Seq(Line)] /\ whispered'.past = whispered.past
  BY DEF Type, TypeOK
<1> QED BY <1>4, <1>5 DEF Type, TypeOK, listener

LEMMA EndLineTyped == TypeOK /\ EndLine => TypeOK'
<1> SUFFICES ASSUME TypeOK, EndLine PROVE TypeOK'
  OBVIOUS
<1>1. <<NewLine>> \in Seq(ContentChunks)
  BY ChunksMade
<1>2. content' \in Seq(ContentChunks) /\ (~attached => content' = content)
  BY <1>1, Sending DEF EndLine
<1>3. /\ whispered' \in [live : Line, past : Seq(Line)]
      /\ base \in 0..Len(whispered'.past)
  <2>1. /\ Append(whispered.past, whispered.live) \in Seq(Line)
        /\ Len(Append(whispered.past, whispered.live)) = Len(whispered.past) + 1
        /\ Len(whispered.past) \in Nat
    BY AppendProperties, LenProperties DEF TypeOK
  <2>2. base \in 0..Len(whispered.past)
    BY DEF TypeOK
  <2>3. /\ whispered'.live = <<>> /\ whispered'.past = Append(whispered.past, whispered.live)
        /\ whispered' \in [live : Line, past : Seq(Line)]
    BY <2>1, NoLine DEF EndLine
  <2> QED BY <2>1, <2>2, <2>3
<1> QED BY <1>2, <1>3 DEF EndLine, TypeOK, listener

(* Every step, by what it does to the text.                                *)
LEMMA NextSteps ==
  ASSUME TypeOK, [Next]_vars
  PROVE  \/ Aside \/ Leaves \/ LetIn \/ ContentAttached \/ ReceiveContentChunk \/ Answer
         \/ (\E new \in Line : Type(new)) \/ EndLine
<1>1. CASE Next
  <2>1. CASE \E new \in SeqOf(Char, MaxLen) : Type(new)
    BY <2>1 DEF Line
  <2>2. CASE ConfirmName \/ TranscriptReceived \/ Arrive \/ OfferAgain \/ SendTranscriptId \/ Stop
    BY <2>2, ControlAside
  <2>3. CASE Dropped \/ Refused \/ Offered \/ Leave
    BY <2>3, TextLeft
  <2> QED BY <1>1, <2>1, <2>2, <2>3 DEF Next, ReceiveControlChunk
<1>2. CASE UNCHANGED vars
  BY <1>2 DEF vars, listener, bounds, Aside, TypeOK
<1> QED BY <1>1, <1>2

LEMMA TypeStep == TypeOK /\ [Next]_vars => TypeOK'
BY NextSteps, AsideTyped, LeavesTyped, LetInTyped, AttachedTyped, ReceiveTyped, AnswerTyped,
   TypeTyped, EndLineTyped

(* Every variable keeps its kind, and the channel is attached only while   *)
(* the listener is let in.                                                 *)
THEOREM TypeCorrect == Spec => []TypeOK
BY InitTyped, TypeStep, PTL DEF Spec

(* The past lines.                                                         *)

LEMMA Prefixed ==
  ASSUME NEW past \in Seq(Line), NEW line \in Line
  PROVE  IsPrefix(past, past) /\ IsPrefix(past, Append(past, line))
<1>1. Len(past) \in Nat /\ Len(Append(past, line)) = Len(past) + 1
  BY AppendProperties, LenProperties
<1>2. SubSeq(Append(past, line), 1, Len(past)) = SubSeq(past, 1, Len(past))
  <2>1. \A i \in 1..Len(past) : Append(past, line)[i] = past[i]
    BY AppendProperties
  <2> QED BY <1>1, <2>1
<1> QED BY <1>1, <1>2 DEF IsPrefix

LEMMA PlayKeepsPast ==
  ASSUME NEW t \in Text, NEW chunk \in ContentChunks
  PROVE  IsPrefix(t.past, Play(t, chunk).past)
<1>1. t.past \in Seq(Line) /\ t.live \in Line
  BY DEF Text
<1>2. Play(t, chunk).past = t.past \/ Play(t, chunk).past = Append(t.past, t.live)
  BY PlayEach, ChunkShapes DEF Text
<1> QED BY <1>1, <1>2, Prefixed

(* No chunk, gap or reread takes a line from the screen: it goes when the  *)
(* listener leaves, is dropped, or goes back to requesting.                *)
THEOREM PastIsKept == Spec => KeepsPast
<1>1. ASSUME TypeOK, [Next]_vars, status' \notin {"exited", "requesting"}
      PROVE  IsPrefix(text.past, text'.past)
  <2>1. text \in Text /\ text.past \in Seq(Line) /\ text.live \in Line
    BY <1>1 DEF TypeOK, Text
  <2>2. CASE text'.past = text.past
    BY <2>1, <2>2, Prefixed
  <2>3. CASE LetIn
    BY <2>1, <2>2, <2>3 DEF LetIn, Text
  <2>4. CASE ReceiveContentChunk
    BY <1>1, <2>1, <2>4, PlayKeepsPast, HeadTailProperties DEF ReceiveContentChunk, TypeOK
  <2>5. ~Leaves
    BY <1>1 DEF Leaves
  <2> QED BY <1>1, <2>2, <2>3, <2>4, <2>5, NextSteps
          DEF Aside, ContentAttached, Answer, Type, EndLine, listener
<1> QED BY <1>1, TypeCorrect, PTL DEF Spec, KeepsPast

(* The truth of the text.                                                  *)

Seen == PlayAll(text, content)

(* The lines shown are those that ended since there were so many; of the   *)
(* first, nothing may be shown.                                            *)
LinesSince(a, b, from) ==
  /\ Len(a) = Len(b) - from
  /\ \A k \in DOMAIN a : a[k] = b[from + k] \/ (k = 1 /\ a[k] = <<>>)

(* What is shown, against what the whisperer has.                          *)
Shows(seen, true, from) ==
  /\ seen \in Text
  /\ seen.live = true.live \/ (seen.live = <<>> /\ ~seen.synced)
  /\ seen.synced \/ seen.past = <<>>
  /\ LinesSince(seen.past, true.past, from)

(* A view that is not attached is as it was made; the first listening asks *)
(* for its reread, so an attached text is reset by gaps only.              *)
IInv ==
  /\ TypeOK
  /\ ~attached => text.live = <<>> /\ text.past = <<>> /\ ~text.synced
  /\ status = "listening" => initialRead
  /\ attached => Shows(Seen, whispered, base)

LEMMA InitIInv == Init => IInv
BY InitTyped DEF Init, IInv, Fresh

LEMMA AsideKeepsTruth == IInv /\ Aside => IInv'
<1> SUFFICES ASSUME IInv, Aside PROVE IInv'
  OBVIOUS
<1>1. TypeOK'
  BY AsideTyped DEF IInv
<1>2. Seen' = Seen /\ UNCHANGED <<attached, whispered, base, text>>
  BY DEF Aside, Seen
<1> QED BY <1>1, <1>2 DEF IInv, Aside

LEMMA LeavesKeepsTruth == IInv /\ Leaves => IInv'
<1> SUFFICES ASSUME IInv, Leaves PROVE IInv'
  OBVIOUS
<1>1. TypeOK'
  BY LeavesTyped DEF IInv
<1> QED BY <1>1 DEF IInv, Leaves, Fresh

LEMMA LetInKeepsTruth == IInv /\ LetIn => IInv'
<1> SUFFICES ASSUME IInv, LetIn PROVE IInv'
  OBVIOUS
<1> DEFINE reads == ~initialRead /\ ~text.reset
<1>1. TypeOK'
  BY LetInTyped DEF IInv
<1>2. /\ text' = [text EXCEPT !.reset = @ \/ reads] /\ text \in Text
      /\ UNCHANGED <<attached, content, base, whispered>>
      /\ initialRead'
  BY DEF LetIn, Receive, IInv, TypeOK
<1>3. CASE attached
  <2>1. ~reads
    BY <1>3 DEF IInv, TypeOK
  <2>2. text' = text
    <3>1. text.reset \in BOOLEAN
      BY <1>2 DEF Text
    <3>2. (text.reset \/ reads) = text.reset
      BY <2>1, <3>1
    <3> HIDE DEF reads
    <3> QED BY <1>2, <3>2 DEF Text
  <2>3. Seen' = Seen
    BY <1>2, <2>2 DEF Seen
  <2> QED BY <1>1, <1>2, <1>3, <2>3 DEF IInv
<1>4. CASE ~attached
  <2>1. text'.live = text.live /\ text'.past = text.past /\ text'.synced = text.synced
    BY <1>2 DEF Text
  <2> QED BY <1>1, <1>2, <1>4, <2>1 DEF IInv
<1> QED BY <1>3, <1>4

LEMMA AttachingKeepsTruth == IInv /\ ContentAttached => IInv'
<1> SUFFICES ASSUME IInv, ContentAttached PROVE IInv'
  OBVIOUS
<1>1. TypeOK'
  BY AttachedTyped DEF IInv
<1>2. /\ attached' /\ content' = <<>> /\ base' = Len(whispered.past)
      /\ UNCHANGED <<text, whispered, initialRead, status>>
  BY DEF ContentAttached, IInv, TypeOK
<1>3. Seen' = text
  BY <1>2, PlayNone DEF Seen
<1>4. text \in Text /\ text.live = <<>> /\ text.past = <<>> /\ ~text.synced
  BY DEF IInv, TypeOK, ContentAttached
<1>5. Len(whispered.past) \in Nat
  BY LenProperties DEF IInv, TypeOK
<1>6. Shows(text, whispered, Len(whispered.past))
  BY <1>4, <1>5 DEF Shows, LinesSince
<1> QED BY <1>1, <1>2, <1>3, <1>6 DEF IInv

LEMMA ReceivingKeepsTruth == IInv /\ ReceiveContentChunk => IInv'
<1> SUFFICES ASSUME IInv, ReceiveContentChunk PROVE IInv'
  OBVIOUS
<1>1. TypeOK'
  BY ReceiveTyped DEF IInv
<1>2. /\ content # <<>> /\ text' = Play(text, Head(content)) /\ content' = Tail(content)
      /\ UNCHANGED <<status, attached, initialRead, whispered, base>>
  BY DEF ReceiveContentChunk
<1>3. content \in Seq(ContentChunks) /\ attached
  BY <1>2 DEF IInv, TypeOK
<1>4. Seen' = Seen
  BY <1>2, <1>3, PlayFirst DEF Seen
<1> QED BY <1>1, <1>2, <1>3, <1>4 DEF IInv

LEMMA PlayTwo ==
  ASSUME NEW t, NEW queue \in Seq(ContentChunks),
         NEW c \in ContentChunks, NEW d \in ContentChunks
  PROVE  PlayAll(t, queue \o <<c, d>>) = Play(Play(PlayAll(t, queue), c), d)
<1>1. Append(queue, c) \in Seq(ContentChunks)
  BY AppendProperties
<1>2. queue \o <<c, d>> = Append(Append(queue, c), d)
  OBVIOUS
<1> QED BY <1>1, <1>2, PlayAppend

(* The answer to a reread.                                                 *)
LEMMA RereadShows ==
  ASSUME NEW seen, NEW true, NEW from, Shows(seen, true, from), true.live \in Line
  PROVE  Shows(Play(Play(seen, StartReread), LiveTextChunk(true.live)), true, from)
<1> DEFINE first == Play(seen, StartReread)
           second == Play(first, LiveTextChunk(true.live))
<1>1. seen \in Text
  BY DEF Shows
<1>2. StartReread \in ContentChunks /\ LiveTextChunk(true.live) \in ContentChunks
  BY ChunksMade
<1>3. first \in Text
  BY <1>1, <1>2, PlayTyped
<1>4. second \in Text
  <2> HIDE DEF first
  <2> QED BY <1>2, <1>3, PlayTyped
<1>5. first = IF seen.reset THEN [seen EXCEPT !.live = <<>>] ELSE seen
  BY <1>1, PlayEach DEF StartReread
<1>6. second = IF first.reset
               THEN [live |-> true.live, past |-> first.past, reset |-> FALSE, synced |-> TRUE]
               ELSE first
  <2>1. LiveTextChunk(true.live).kind = "liveText" /\ LiveTextChunk(true.live).text = true.live
    BY DEF LiveTextChunk
  <2> HIDE DEF first
  <2> DEFINE chunk == LiveTextChunk(true.live)
  <2> HIDE DEF chunk
  <2>2. Play(first, chunk) = IF first.reset
                             THEN [live |-> chunk.text, past |-> first.past,
                                   reset |-> FALSE, synced |-> TRUE]
                             ELSE first
    BY <1>3, <2>1, PlayEach DEF chunk
  <2> QED BY <2>1, <2>2 DEF chunk
<1> HIDE DEF first, second
<1>7. CASE seen.reset
  <2>1. first.reset /\ first.past = seen.past
    BY <1>1, <1>5, <1>7 DEF Text
  <2>2. second = [live |-> true.live, past |-> first.past, reset |-> FALSE, synced |-> TRUE]
    BY <1>6, <2>1
  <2>3. second.live = true.live /\ second.past = seen.past /\ second.synced
    BY <2>1, <2>2
  <2>4. Shows(second, true, from)
    BY <1>4, <2>3 DEF Shows
  <2> QED BY <2>4 DEF first, second
<1>8. CASE ~seen.reset
  <2>1. first = seen
    BY <1>1, <1>5, <1>8 DEF Text
  <2>2. second = seen
    BY <1>6, <1>8, <2>1
  <2> QED BY <2>2 DEF first, second
<1> QED BY <1>7, <1>8

LEMMA AnswerKeepsTruth == IInv /\ Answer => IInv'
<1> SUFFICES ASSUME IInv, Answer PROVE IInv'
  OBVIOUS
<1> DEFINE kind == Head(toWhisperer)
           sent == IF kind = "requestReread"
                   THEN <<StartReread, LiveTextChunk(whispered.live)>> ELSE <<>>
<1>1. TypeOK'
  BY AnswerTyped DEF IInv
<1>2. /\ UNCHANGED <<status, text, attached, initialRead, base, whispered>>
      /\ content' = IF attached THEN content \o sent ELSE content
  BY DEF Answer, Broadcast, listener
<1>3. content \in Seq(ContentChunks) /\ whispered.live \in Line
  BY DEF IInv, TypeOK
<1>4. ASSUME attached
      PROVE  Shows(Seen', whispered, base)
  <2>1. Shows(Seen, whispered, base)
    BY <1>4 DEF IInv
  <2>2. CASE kind = "requestReread"
    <3>1. content' = content \o <<StartReread, LiveTextChunk(whispered.live)>>
      BY <1>2, <1>4, <2>2
    <3>2. Seen' = Play(Play(Seen, StartReread), LiveTextChunk(whispered.live))
      BY <1>2, <1>3, <3>1, PlayTwo, ChunksMade DEF Seen
    <3> QED BY <1>3, <2>1, <3>2, RereadShows
  <2>3. CASE kind # "requestReread"
    <3>1. content' = content
      BY <1>2, <1>3, <2>3, ConcatEmptySeq
    <3> QED BY <1>2, <2>1, <3>1 DEF Seen
  <2> QED BY <2>2, <2>3
<1> QED BY <1>1, <1>2, <1>4 DEF IInv

(* An edit, played by one who has the text and by one who has none.        *)
LEMMA EditShows ==
  ASSUME NEW seen, NEW true, NEW from, Shows(seen, true, from),
         true.live \in Line, NEW new \in Line, NEW after,
         after.live = new, after.past = true.past
  PROVE  Shows(Play(seen, Diff(Offset(true.live, new), Rest(true.live, new))), after, from)
<1> DEFINE offset == Offset(true.live, new)
           rest == Rest(true.live, new)
           chunk == Diff(offset, rest)
           then == Play(seen, chunk)
<1> SUFFICES Shows(then, after, from)
  OBVIOUS
<1>1. /\ offset \in Nat /\ offset <= Len(true.live)
      /\ chunk \in ContentChunks /\ rest \in Line
      /\ SubSeq(true.live, 1, offset) \o rest = new
      /\ offset = 0 => rest = new
      /\ <<>> \o rest = rest
  <2>1. offset \in Nat /\ offset <= Len(true.live)
    BY EditStarts
  <2>2. /\ chunk \in ContentChunks /\ rest \in Line
        /\ SubSeq(true.live, 1, offset) \o rest = new
        /\ offset = 0 => rest = new
        /\ <<>> \o rest = rest
    BY EditChunk
  <2> QED BY <2>1, <2>2
<1>2. chunk.kind = "diff" /\ chunk.offset = offset /\ chunk.text = rest
  BY DEF Diff
<1> HIDE DEF offset, rest, chunk
<1>3. seen \in Text
  BY DEF Shows
<1>4. then \in Text
  BY <1>1, <1>3, PlayTyped
<1>5. seen.live \in Line /\ Len(seen.live) \in Nat
  BY <1>3, Lines, LenProperties DEF Text
<1>6. CASE offset > Len(seen.live)
  <2>1. then = [seen EXCEPT !.reset = TRUE]
    BY <1>2, <1>3, <1>6, PlayEach
  <2>2. then.live = seen.live /\ then.past = seen.past /\ then.synced = seen.synced
    BY <1>3, <2>1 DEF Text
  <2>3. seen.live = <<>> /\ ~seen.synced
    BY <1>1, <1>5, <1>6 DEF Shows
  <2> HIDE DEF then
  <2> QED BY <1>4, <2>2, <2>3 DEF Shows
<1>7. CASE ~(offset > Len(seen.live))
  <2>1. then = [live |-> SubSeq(seen.live, 1, offset) \o rest, past |-> seen.past,
                reset |-> FALSE, synced |-> (seen.synced \/ offset = 0)]
    BY <1>2, <1>3, <1>7, PlayEach
  <2> HIDE DEF then
  <2>2. /\ then.live = SubSeq(seen.live, 1, offset) \o rest /\ then.past = seen.past
        /\ then.synced = (seen.synced \/ offset = 0)
    BY <2>1
  <2>3. CASE seen.live = true.live
    <3>1. then.live = new
      BY <1>1, <2>2, <2>3
    <3> QED BY <1>4, <2>2, <3>1 DEF Shows
  <2>4. CASE seen.live = <<>> /\ ~seen.synced
    <3>1. offset = 0
      BY <1>1, <1>7, <2>4
    <3>2. SubSeq(seen.live, 1, 0) = <<>>
      BY NoCut
    <3>3. then.live = new
      BY <1>1, <2>2, <3>1, <3>2
    <3>4. then.synced
      BY <2>2, <3>1
    <3> QED BY <1>4, <2>2, <3>3, <3>4 DEF Shows
  <2> QED BY <2>3, <2>4 DEF Shows
<1> QED BY <1>6, <1>7

LEMMA TypeKeepsTruth == \A new \in Line : IInv /\ Type(new) => IInv'
<1> SUFFICES ASSUME NEW new \in Line, IInv, Type(new) PROVE IInv'
  OBVIOUS
<1> DEFINE offset == Offset(whispered.live, new)
           rest == Rest(whispered.live, new)
<1>1. TypeOK'
  BY TypeTyped DEF IInv
<1>2. whispered.live \in Line /\ content \in Seq(ContentChunks)
  BY DEF IInv, TypeOK
<1>3. Diff(offset, rest) \in ContentChunks
  BY <1>2, EditChunk
<1>4. /\ UNCHANGED <<status, text, attached, initialRead, base>>
      /\ content' = IF attached THEN content \o <<Diff(offset, rest)>> ELSE content
      /\ whispered' = [whispered EXCEPT !.live = new]
  BY DEF Type, Broadcast, listener, Offset, Rest
<1>5. whispered'.live = new /\ whispered'.past = whispered.past
  BY <1>4 DEF IInv, TypeOK
<1>6. ASSUME attached
      PROVE  Shows(Seen', whispered', base)
  <2>1. Shows(Play(Seen, Diff(offset, rest)), whispered', base)
    <3>1. Shows(Seen, whispered, base)
      BY <1>6 DEF IInv
    <3> HIDE DEF Seen
    <3> QED BY <1>2, <1>5, <3>1, EditShows
  <2> HIDE DEF offset, rest
  <2>2. content' = Append(content, Diff(offset, rest))
    BY <1>2, <1>3, <1>4, <1>6, AppendIsConcat
  <2>3. Seen' = Play(Seen, Diff(offset, rest))
    BY <1>2, <1>3, <1>4, <2>2, PlayAppend DEF Seen
  <2> QED BY <2>1, <2>3
<1> QED BY <1>1, <1>4, <1>6 DEF IInv

LEMMA LinesGrow ==
  ASSUME NEW a \in Seq(Line), NEW b \in Seq(Line), NEW x \in Line, NEW y \in Line,
         NEW from \in 0..Len(b), LinesSince(a, b, from), x = y \/ (x = <<>> /\ a = <<>>)
  PROVE  LinesSince(Append(a, x), Append(b, y), from)
<1> DEFINE aa == Append(a, x)
           bb == Append(b, y)
<1>1. /\ Len(a) \in Nat /\ Len(b) \in Nat /\ Len(aa) = Len(a) + 1 /\ Len(bb) = Len(b) + 1
      /\ DOMAIN a = 1..Len(a) /\ DOMAIN aa = 1..Len(aa)
      /\ aa[Len(a) + 1] = x /\ bb[Len(b) + 1] = y
      /\ \A i \in 1..Len(a) : aa[i] = a[i]
      /\ \A i \in 1..Len(b) : bb[i] = b[i]
  BY AppendProperties, LenProperties
<1> HIDE DEF aa, bb
<1>0. from \in Nat /\ Len(a) = Len(b) - from
  BY <1>1 DEF LinesSince
<1>2. ASSUME NEW k \in 1..Len(aa)
      PROVE  aa[k] = bb[from + k] \/ (k = 1 /\ aa[k] = <<>>)
  <2>1. CASE k \in 1..Len(a)
    <3>1. from + k \in 1..Len(b)
      BY <1>0, <1>1, <2>1
    <3>2. a[k] = b[from + k] \/ (k = 1 /\ a[k] = <<>>)
      BY <1>1, <2>1 DEF LinesSince
    <3> QED BY <1>1, <2>1, <3>1, <3>2
  <2>2. CASE k = Len(a) + 1
    <3>1. from + k = Len(b) + 1
      BY <1>0, <1>1, <2>2
    <3>2. CASE x = y
      BY <1>1, <2>2, <3>1, <3>2
    <3>3. CASE x = <<>> /\ a = <<>>
      <4>1. Len(a) = 0
        BY <3>3
      <4> QED BY <1>1, <2>2, <3>3, <4>1
    <3> QED BY <3>2, <3>3
  <2>3. Len(a) \in Nat /\ Len(aa) = Len(a) + 1
    BY <1>1
  <2>4. k \in 1..Len(a) \/ k = Len(a) + 1
    BY <2>3
  <2> QED BY <2>1, <2>2, <2>4
<1>3. Len(aa) = Len(bb) - from
  BY <1>0, <1>1
<1> QED BY <1>1, <1>2, <1>3 DEF aa, bb, LinesSince

LEMMA NewLineShows ==
  ASSUME NEW seen, NEW true, NEW from, Shows(seen, true, from),
         true.live \in Line, true.past \in Seq(Line), from \in 0..Len(true.past), NEW after,
         after.live = <<>>, after.past = Append(true.past, true.live)
  PROVE  Shows(Play(seen, NewLine), after, from)
<1> DEFINE then == Play(seen, NewLine)
<1>1. seen \in Text /\ seen.past \in Seq(Line) /\ seen.live \in Line
  BY DEF Shows, Text
<1>2. then = [live |-> <<>>, past |-> Append(seen.past, seen.live),
              reset |-> FALSE, synced |-> TRUE]
  BY <1>1, PlayEach DEF NewLine
<1>3. then \in Text
  BY <1>1, PlayTyped, ChunksMade
<1> HIDE DEF then
<1>4. then.live = <<>> /\ then.past = Append(seen.past, seen.live) /\ then.synced
  BY <1>2
<1>5. seen.live = true.live \/ (seen.live = <<>> /\ seen.past = <<>>)
  BY DEF Shows
<1>6. LinesSince(seen.past, true.past, from)
  BY DEF Shows
<1>7. LinesSince(then.past, after.past, from)
  BY <1>1, <1>4, <1>5, <1>6, LinesGrow
<1>8. Shows(then, after, from)
  BY <1>3, <1>4, <1>7 DEF Shows
<1> QED BY <1>8 DEF then

LEMMA EndLineKeepsTruth == IInv /\ EndLine => IInv'
<1> SUFFICES ASSUME IInv, EndLine PROVE IInv'
  OBVIOUS
<1>1. TypeOK'
  BY EndLineTyped DEF IInv
<1>2. /\ whispered.live \in Line /\ whispered.past \in Seq(Line)
      /\ base \in 0..Len(whispered.past) /\ content \in Seq(ContentChunks)
  BY DEF IInv, TypeOK
<1>3. /\ UNCHANGED <<status, text, attached, initialRead, base>>
      /\ content' = IF attached THEN content \o <<NewLine>> ELSE content
      /\ whispered'.live = <<>>
      /\ whispered'.past = Append(whispered.past, whispered.live)
  BY DEF EndLine, Broadcast, listener
<1>4. ASSUME attached
      PROVE  Shows(Seen', whispered', base)
  <2>1. Shows(Play(Seen, NewLine), whispered', base)
    <3>1. Shows(Seen, whispered, base)
      BY <1>4 DEF IInv
    <3> HIDE DEF Seen
    <3> QED BY <1>2, <1>3, <3>1, NewLineShows
  <2>2. content' = Append(content, NewLine)
    BY <1>2, <1>3, <1>4, AppendIsConcat, ChunksMade
  <2>3. Seen' = Play(Seen, NewLine)
    BY <1>2, <1>3, <2>2, PlayAppend, ChunksMade DEF Seen
  <2> QED BY <2>1, <2>3
<1> QED BY <1>1, <1>3, <1>4 DEF IInv

LEMMA StepIInv == IInv /\ [Next]_vars => IInv'
<1> SUFFICES ASSUME IInv, [Next]_vars PROVE IInv'
  OBVIOUS
<1>1. TypeOK
  BY DEF IInv
<1> QED BY <1>1, NextSteps, AsideKeepsTruth, LeavesKeepsTruth, LetInKeepsTruth,
           AttachingKeepsTruth, ReceivingKeepsTruth, AnswerKeepsTruth, TypeKeepsTruth,
           EndLineKeepsTruth

(* With what is under way played, an attached listener shows the           *)
(* whisperer's text, or nothing of the live line it attached in, and every *)
(* line that ended since: whatever gaps, rereads and newlines cross.       *)
THEOREM TextIsAlwaysTrue == Spec => []TextIsTrue
<1>1. IInv => TextIsTrue
  BY DEF IInv, TextIsTrue, Shows, LinesSince, Seen
<1> QED BY <1>1, InitIInv, StepIInv, PTL DEF Spec
=============================================================================

--------------------------- MODULE LiveTextProofs ---------------------------
(***************************************************************************)
(* Proofs about LiveText, for any characters, texts of any length and any  *)
(* number of edits and chunks.                                             *)
(***************************************************************************)
EXTENDS LiveText, FiniteSetTheorems, SequenceTheorems, WellFoundedInduction, TLAPS

(* Induction, as a fact about sets of numbers.                             *)

LEMMA Least ==
  ASSUME NEW T \in SUBSET Nat, T # {}
  PROVE  \E x \in T : \A y \in T : x <= y
<1> DEFINE F == {0 .. x : x \in T}
<1>1. IsWellFoundedOn(StrictSubsetOrdering(Nat), FiniteSubsetsOf(Nat))
  BY FS_StrictSubsetOrderingWellFounded
<1>2. F \subseteq FiniteSubsetsOf(Nat)
  <2>1. \A x \in T : 0 .. x \in SUBSET Nat /\ IsFiniteSet(0 .. x)
    BY FS_Interval
  <2> QED BY <2>1 DEF FiniteSubsetsOf
<1>3. F # {}
  OBVIOUS
<1>4. \E f \in F : \A g \in F : <<g, f>> \notin StrictSubsetOrdering(Nat)
  <2> HIDE DEF F
  <2> QED BY <1>1, <1>2, <1>3, WFMin
<1>5. PICK x \in T : \A y \in T : <<0 .. y, 0 .. x>> \notin StrictSubsetOrdering(Nat)
  BY <1>4
<1>6. ASSUME NEW y \in T, y < x
      PROVE  FALSE
  <2>1. 0 .. y \subseteq 0 .. x /\ 0 .. y # 0 .. x
    <3>1. x \in 0 .. x /\ x \notin 0 .. y
      BY <1>6
    <3> QED BY <1>6, <3>1
  <2>2. 0 .. y \in SUBSET Nat /\ 0 .. x \in SUBSET Nat
    OBVIOUS
  <2>3. <<0 .. y, 0 .. x>> \in StrictSubsetOrdering(Nat)
    BY <2>1, <2>2 DEF StrictSubsetOrdering
  <2> QED BY <1>5, <2>3
<1> QED BY <1>6

LEMMA Induction ==
  ASSUME NEW S, 0 \in S, \A n \in Nat : n \in S => n + 1 \in S
  PROVE  \A n \in Nat : n \in S
<1> SUFFICES ASSUME NEW m \in Nat, m \notin S
             PROVE  FALSE
  OBVIOUS
<1> DEFINE T == {n \in Nat : n \notin S}
<1>1. PICK x \in T : \A y \in T : x <= y
  BY Least
<1>2. x # 0 /\ x \in Nat
  OBVIOUS
<1>3. x - 1 \in Nat /\ x - 1 \in S
  BY <1>1, <1>2
<1> QED BY <1>2, <1>3

(* Playing a queue.                                                        *)

Follows(f, t, queue) ==
  f = [n \in 0..Len(queue) |-> IF n = 0 THEN t ELSE ProcessLiveChunk(f[n-1], queue[n])]

LEMMA CanBePlayed ==
  ASSUME NEW t, NEW queue, Len(queue) \in Nat
  PROVE  \E f : Follows(f, t, queue)
<1> DEFINE Upto(f, m) == f = [n \in 0..m |-> IF n = 0 THEN t ELSE ProcessLiveChunk(f[n-1], queue[n])]
           S == {m \in Nat : \E f : Upto(f, m)}
<1>1. 0 \in S
  <2>1. Upto([n \in 0..0 |-> t], 0)
    OBVIOUS
  <2> QED BY <2>1
<1>2. ASSUME NEW m \in Nat, m \in S
      PROVE  m + 1 \in S
  <2>1. PICK f : Upto(f, m)
    BY <1>2
  <2> DEFINE g == [n \in 0..(m+1) |-> IF n = m + 1 THEN ProcessLiveChunk(f[m], queue[m+1]) ELSE f[n]]
  <2>2. \A n \in 0..(m+1) : g[n] = IF n = 0 THEN t ELSE ProcessLiveChunk(g[n-1], queue[n])
    <3> TAKE n \in 0..(m+1)
    <3>1. CASE n = m + 1
      <4>1. g[n] = ProcessLiveChunk(f[m], queue[m+1]) /\ g[n-1] = f[m] /\ n # 0
        BY <3>1
      <4> HIDE DEF g
      <4> QED BY <3>1, <4>1
    <3>2. CASE n # m + 1
      <4>1. n \in 0..m
        BY <3>2
      <4>2. f[n] = IF n = 0 THEN t ELSE ProcessLiveChunk(f[n-1], queue[n])
        BY <2>1, <4>1
      <4>3. g[n] = f[n] /\ (n # 0 => g[n-1] = f[n-1])
        BY <3>2, <4>1
      <4> HIDE DEF g
      <4> QED BY <4>2, <4>3
    <3> QED BY <3>1, <3>2
  <2>3. Upto(g, m + 1)
    <3>1. g = [n \in 0..(m+1) |-> g[n]]
      OBVIOUS
    <3> HIDE DEF g
    <3> QED BY <2>2, <3>1
  <2> HIDE DEF g, Upto
  <2> QED BY <2>3
<1>3. Len(queue) \in S
  <2> HIDE DEF S
  <2> QED BY <1>1, <1>2, Induction
<1> QED BY <1>3 DEF Follows

LEMMA PlayedFollows ==
  ASSUME NEW t, NEW queue, Len(queue) \in Nat
  PROVE  Follows(Played(t, queue), t, queue)
<1>1. PICK f : Follows(f, t, queue)
  BY CanBePlayed
<1> QED BY <1>1 DEF Played, Follows

LEMMA PlayedSteps ==
  ASSUME NEW t, NEW queue, Len(queue) \in Nat
  PROVE  /\ Played(t, queue)[0] = t
         /\ \A n \in 1..Len(queue) :
              Played(t, queue)[n] = ProcessLiveChunk(Played(t, queue)[n-1], queue[n])
<1> DEFINE f == Played(t, queue)
<1>1. f = [n \in 0..Len(queue) |-> IF n = 0 THEN t ELSE ProcessLiveChunk(f[n-1], queue[n])]
  BY PlayedFollows DEF Follows
<1> HIDE DEF f
<1>2. f[0] = t
  BY <1>1
<1>3. \A n \in 1..Len(queue) : f[n] = ProcessLiveChunk(f[n-1], queue[n])
  BY <1>1
<1> QED BY <1>2, <1>3 DEF f

(* There is one way to play a queue.                                       *)
LEMMA PlayedIs ==
  ASSUME NEW t, NEW queue, Len(queue) \in Nat, NEW f, f[0] = t,
         \A n \in 1..Len(queue) : f[n] = ProcessLiveChunk(f[n-1], queue[n])
  PROVE  PlayAll(t, queue) = f[Len(queue)]
<1> DEFINE g == Played(t, queue)
           S == {m \in Nat : m <= Len(queue) => f[m] = g[m]}
<1>1. g[0] = t /\ \A n \in 1..Len(queue) : g[n] = ProcessLiveChunk(g[n-1], queue[n])
  BY PlayedSteps
<1> HIDE DEF g
<1>2. 0 \in S
  BY <1>1
<1>3. ASSUME NEW m \in Nat, m \in S
      PROVE  m + 1 \in S
  <2>1. CASE m + 1 <= Len(queue)
    <3>1. m + 1 \in 1..Len(queue) /\ (m + 1) - 1 = m
      BY <2>1
    <3>2. f[m+1] = ProcessLiveChunk(f[m], queue[m+1]) /\ g[m+1] = ProcessLiveChunk(g[m], queue[m+1])
      BY <1>1, <3>1
    <3>3. f[m] = g[m]
      BY <1>3, <2>1
    <3> QED BY <3>2, <3>3
  <2> QED BY <2>1
<1>4. Len(queue) \in S
  <2> HIDE DEF S
  <2> QED BY <1>2, <1>3, Induction
<1> QED BY <1>4 DEF PlayAll, g

(* A queue that another one is appended to.                                *)
LEMMA PlayConcat ==
  ASSUME NEW t, NEW S, NEW queue \in Seq(S), NEW sent \in Seq(S)
  PROVE  PlayAll(t, queue \o sent) = PlayAll(PlayAll(t, queue), sent)
<1> DEFINE more == queue \o sent
           q == Len(queue)
           g == Played(t, queue)
           h == Played(g[q], sent)
           f == [n \in 0..Len(more) |-> IF n <= q THEN g[n] ELSE h[n - q]]
<1>1. /\ q \in Nat /\ Len(sent) \in Nat /\ Len(more) = q + Len(sent)
      /\ \A n \in 1..q : more[n] = queue[n]
      /\ \A n \in q+1..Len(more) : more[n] = sent[n - q]
  BY ConcatProperties, LenProperties
<1>2. g[0] = t /\ \A n \in 1..q : g[n] = ProcessLiveChunk(g[n-1], queue[n])
  BY <1>1, PlayedSteps
<1>3. h[0] = g[q] /\ \A n \in 1..Len(sent) : h[n] = ProcessLiveChunk(h[n-1], sent[n])
  BY <1>1, PlayedSteps
<1> HIDE DEF q, g, h, more
<1>4. f[0] = t
  BY <1>1, <1>2
<1>5. \A n \in 1..Len(more) : f[n] = ProcessLiveChunk(f[n-1], more[n])
  <2> TAKE n \in 1..Len(more)
  <2>1. CASE n <= q
    <3>1. f[n] = g[n] /\ f[n-1] = g[n-1] /\ n \in 1..q
      BY <1>1, <2>1
    <3> HIDE DEF f
    <3> QED BY <1>1, <1>2, <3>1
  <2>2. CASE n > q
    <3>1. n - q \in 1..Len(sent) /\ n \in q+1..Len(more) /\ (n - q) - 1 = (n - 1) - q
      BY <1>1, <2>2
    <3>2. f[n] = h[n - q]
      BY <1>1, <2>2
    <3>3. f[n-1] = h[(n - 1) - q]
      <4>1. CASE n = q + 1
        BY <1>1, <1>3, <4>1
      <4>2. CASE n # q + 1
        BY <1>1, <2>2, <4>2
      <4> QED BY <4>1, <4>2
    <3> HIDE DEF f
    <3> QED BY <1>1, <1>3, <3>1, <3>2, <3>3
  <2> QED BY <1>1, <2>1, <2>2
<1>6. PlayAll(t, more) = f[Len(more)]
  <2>1. Len(more) \in Nat
    BY <1>1
  <2> HIDE DEF f
  <2> QED BY <1>4, <1>5, <2>1, PlayedIs
<1>7. f[Len(more)] = h[Len(sent)]
  <2>1. CASE Len(sent) = 0
    BY <1>1, <1>3, <2>1
  <2>2. CASE Len(sent) # 0
    BY <1>1, <2>2
  <2> QED BY <2>1, <2>2
<1> QED BY <1>6, <1>7 DEF PlayAll, more, g, h, q

LEMMA PlayFirst ==
  ASSUME NEW t, NEW S, NEW queue \in Seq(S), queue # <<>>
  PROVE  PlayAll(ProcessLiveChunk(t, Head(queue)), Tail(queue)) = PlayAll(t, queue)
<1> DEFINE less == Tail(queue)
           g == Played(t, queue)
           f == [n \in 0..Len(less) |-> g[n+1]]
<1>1. /\ Len(queue) \in Nat /\ Len(queue) >= 1 /\ Len(less) = Len(queue) - 1
      /\ Head(queue) = queue[1]
      /\ \A n \in 1..Len(less) : less[n] = queue[n+1]
  BY HeadTailProperties, LenProperties
<1>2. g[0] = t /\ \A n \in 1..Len(queue) : g[n] = ProcessLiveChunk(g[n-1], queue[n])
  BY <1>1, PlayedSteps
<1> HIDE DEF g, less
<1>3. f[0] = ProcessLiveChunk(t, Head(queue))
  <2>1. f[0] = g[1]
    BY <1>1
  <2>2. g[1] = ProcessLiveChunk(g[0], queue[1])
    BY <1>1, <1>2
  <2> QED BY <1>1, <1>2, <2>1, <2>2
<1>4. \A n \in 1..Len(less) : f[n] = ProcessLiveChunk(f[n-1], less[n])
  <2> TAKE n \in 1..Len(less)
  <2>1. f[n] = g[n+1] /\ f[n-1] = g[n] /\ n + 1 \in 1..Len(queue) /\ (n+1) - 1 = n
    BY <1>1
  <2> HIDE DEF f
  <2>2. g[n+1] = ProcessLiveChunk(g[n], queue[n+1])
    BY <1>2, <2>1
  <2> QED BY <1>1, <2>1, <2>2
<1>5. PlayAll(ProcessLiveChunk(t, Head(queue)), less) = f[Len(less)]
  <2> HIDE DEF f
  <2> QED BY <1>1, <1>3, <1>4, PlayedIs
<1>6. f[Len(less)] = g[Len(queue)]
  BY <1>1
<1> QED BY <1>5, <1>6 DEF PlayAll, less, g

LEMMA PlayNone ==
  ASSUME NEW t
  PROVE  PlayAll(t, <<>>) = t
<1>1. Len(<<>>) = 0
  OBVIOUS
<1> QED BY <1>1, PlayedSteps DEF PlayAll

(* Parts of a text.                                                        *)

LEMMA Part ==
  ASSUME NEW S, NEW text \in Seq(S), NEW m \in 1..Len(text)+1, NEW n \in 0..Len(text)
  PROVE  /\ SubSeq(text, m, n) \in Seq(S)
         /\ Len(SubSeq(text, m, n)) = IF m <= n THEN n - m + 1 ELSE 0
         /\ \A i \in 1..(n - m + 1) : SubSeq(text, m, n)[i] = text[m + i - 1]
<1>1. Len(text) \in Nat /\ m \in Int /\ n \in Int
  BY LenProperties
<1>2. \A i \in m..n : text[i] \in S
  <2>1. \A i \in m..n : i \in 1..Len(text)
    BY <1>1
  <2> QED BY <2>1, ElementOfSeq
<1> QED BY <1>1, <1>2, SubSeqProperties

(* The lines of a text.                                                    *)

Words == Seq(Char)
Text == Seq(Char \cup {NL})

LEMMA GlueLines ==
  ASSUME NEW Word, \E A : Word = Seq(A),
         NEW cut \in Word, NEW lines \in Seq(Word), lines # <<>>
  PROVE  /\ Glue(cut, lines) \in Seq(Word) /\ Glue(cut, lines) # <<>>
         /\ Len(lines) \in Nat \ {0} /\ Len(Glue(cut, lines)) = Len(lines)
         /\ Glue(cut, lines)[1] = cut \o lines[1]
         /\ \A k \in 2..Len(lines) : Glue(cut, lines)[k] = lines[k]
<1> DEFINE first == cut \o Head(lines)
           rest == Tail(lines)
<1> PICK A : Word = Seq(A)
  OBVIOUS
<1>1. /\ Len(lines) \in Nat \ {0} /\ Head(lines) = lines[1] /\ Head(lines) \in Word
      /\ rest \in Seq(Word) /\ Len(rest) = Len(lines) - 1
      /\ \A k \in 1..Len(rest) : rest[k] = lines[k+1]
  BY EmptySeq, HeadTailProperties
<1>2. first \in Word
  BY <1>1, ConcatProperties
<1> HIDE DEF first, rest
<1>3. <<first>> \in Seq(Word) /\ Len(<<first>>) = 1 /\ <<first>>[1] = first
  BY <1>2
<1> DEFINE glued == <<first>> \o rest
<1>4. /\ glued \in Seq(Word) /\ Len(glued) = 1 + Len(rest)
      /\ \A k \in 1..(1 + Len(rest)) :
           glued[k] = IF k <= 1 THEN <<first>>[k] ELSE rest[k - 1]
  BY <1>1, <1>3, ConcatProperties
<1>5. Glue(cut, lines) = glued
  BY DEF Glue, first, rest
<1> HIDE DEF glued
<1>6. Len(glued) = Len(lines)
  BY <1>1, <1>4
<1>7. glued[1] = cut \o lines[1]
  BY <1>1, <1>3, <1>4 DEF first
<1>8. ASSUME NEW k \in 2..Len(lines)
      PROVE  glued[k] = lines[k]
  <2>1. k \in 1..(1 + Len(rest)) /\ k - 1 \in 1..Len(rest) /\ (k - 1) + 1 = k /\ ~(k <= 1)
    BY <1>1
  <2> QED BY <1>1, <1>4, <2>1
<1>9. glued # <<>>
  BY <1>1, <1>6, EmptySeq
<1> QED BY <1>1, <1>4, <1>5, <1>6, <1>7, <1>8, <1>9

LEMMA GlueWords ==
  ASSUME NEW cut \in Words, NEW lines \in Seq(Words), lines # <<>>
  PROVE  /\ Glue(cut, lines) \in Seq(Words) /\ Glue(cut, lines) # <<>>
         /\ Len(lines) \in Nat \ {0} /\ Len(Glue(cut, lines)) = Len(lines)
         /\ Glue(cut, lines)[1] = cut \o lines[1]
         /\ \A k \in 2..Len(lines) : Glue(cut, lines)[k] = lines[k]
<1>1. \E A : Words = Seq(A)
  BY DEF Words
<1> QED BY <1>1, GlueLines

(* Texts as a receiver has them.                                           *)
Letters == Seq(Glyphs)

LEMMA GlueLetters ==
  ASSUME NEW cut \in Letters, NEW lines \in Seq(Letters), lines # <<>>
  PROVE  /\ Glue(cut, lines) \in Seq(Letters) /\ Glue(cut, lines) # <<>>
         /\ Len(lines) \in Nat \ {0} /\ Len(Glue(cut, lines)) = Len(lines)
         /\ Glue(cut, lines)[1] = cut \o lines[1]
         /\ \A k \in 2..Len(lines) : Glue(cut, lines)[k] = lines[k]
<1>1. \E A : Letters = Seq(A)
  BY DEF Letters
<1> QED BY <1>1, GlueLines

LEMMA WordsAssociate ==
  ASSUME NEW a \in Words, NEW b \in Words, NEW c \in Words
  PROVE  (a \o b) \o c = a \o (b \o c)
<1>1. a \in Seq(Char) /\ b \in Seq(Char) /\ c \in Seq(Char)
  BY DEF Words
<1> QED BY <1>1, ConcatAssociative

LEMMA GlueTwice ==
  ASSUME NEW before \in Words, NEW cut \in Words, NEW lines \in Seq(Words), lines # <<>>
  PROVE  Glue(before, Glue(cut, lines)) = Glue(before \o cut, lines)
<1> DEFINE once == Glue(cut, lines)
           twice == Glue(before, once)
           both == Glue(before \o cut, lines)
<1>1. /\ once \in Seq(Words) /\ once # <<>>
      /\ Len(lines) \in Nat \ {0} /\ Len(once) = Len(lines)
      /\ once[1] = cut \o lines[1]
      /\ \A k \in 2..Len(lines) : once[k] = lines[k]
  BY GlueWords
<1> HIDE DEF once
<1>2. /\ twice \in Seq(Words) /\ Len(twice) = Len(lines)
      /\ twice[1] = before \o once[1]
      /\ \A k \in 2..Len(lines) : twice[k] = once[k]
  <2>1. /\ twice \in Seq(Words) /\ Len(twice) = Len(once)
        /\ twice[1] = before \o once[1]
        /\ \A k \in 2..Len(once) : twice[k] = once[k]
    BY <1>1, GlueWords
  <2> HIDE DEF twice
  <2> QED BY <1>1, <2>1
<1>3. before \o cut \in Words
  BY ConcatProperties DEF Words
<1>4. /\ both \in Seq(Words) /\ Len(both) = Len(lines)
      /\ both[1] = (before \o cut) \o lines[1]
      /\ \A k \in 2..Len(lines) : both[k] = lines[k]
  BY <1>3, GlueWords
<1> HIDE DEF twice, both
<1>5. (before \o cut) \o lines[1] = before \o (cut \o lines[1])
  <2>1. lines[1] \in Words
    BY <1>1, ElementOfSeq
  <2> QED BY <2>1, WordsAssociate
<1>6. \A k \in 1..Len(twice) : twice[k] = both[k]
  <2> TAKE k \in 1..Len(twice)
  <2>1. CASE k = 1
    BY <1>1, <1>2, <1>4, <1>5, <2>1
  <2>2. CASE k # 1
    <3>1. k \in 2..Len(lines)
      BY <1>1, <1>2, <2>2
    <3> QED BY <1>1, <1>2, <1>4, <3>1
  <2> QED BY <2>1, <2>2
<1>7. twice = both
  BY <1>2, <1>4, <1>6, SeqEqual
<1> QED BY <1>7 DEF twice, both, once

LEMMA GlueNone ==
  ASSUME NEW lines \in Seq(Words), lines # <<>>
  PROVE  Glue(<<>>, lines) = lines
<1> DEFINE same == Glue(<<>>, lines)
<1>1. <<>> \in Words
  BY DEF Words
<1>2. /\ same \in Seq(Words) /\ Len(lines) \in Nat \ {0} /\ Len(same) = Len(lines)
      /\ same[1] = <<>> \o lines[1]
      /\ \A k \in 2..Len(lines) : same[k] = lines[k]
  BY <1>1, GlueWords
<1> HIDE DEF same
<1>3. <<>> \o lines[1] = lines[1]
  <2>1. lines[1] \in Words
    BY <1>2, ElementOfSeq
  <2>2. \A word \in Words : <<>> \o word = word
    BY ConcatEmptySeq DEF Words
  <2> QED BY <2>1, <2>2
<1>4. \A k \in 1..Len(same) : same[k] = lines[k]
  <2> TAKE k \in 1..Len(same)
  <2>1. k = 1 \/ k \in 2..Len(lines)
    BY <1>2
  <2> QED BY <1>2, <1>3, <2>1
<1>5. same = lines
  BY <1>2, <1>4, SeqEqual
<1> QED BY <1>5 DEF same

LEMMA GlueNothing ==
  ASSUME NEW cut \in Words
  PROVE  Glue(cut, << <<>> >>) = <<cut>>
<1>1. Head(<< <<>> >>) = <<>> /\ Tail(<< <<>> >>) = <<>>
  OBVIOUS
<1>2. cut \o <<>> = cut
  BY ConcatEmptySeq DEF Words
<1>3. <<cut>> \o <<>> = <<cut>>
  <2>1. <<cut>> \in Seq(Words)
    OBVIOUS
  <2> HIDE DEF Words
  <2> QED BY <2>1, ConcatEmptySeq
<1> QED BY <1>1, <1>2, <1>3 DEF Glue

LEMMA CanBeSplit ==
  ASSUME NEW text, Len(text) \in Nat
  PROVE  \E f : f = [n \in 0..Len(text) |->
                       IF n = 0 THEN << <<>> >> ELSE Prepend(text[Len(text) - n + 1], f[n-1])]
<1> DEFINE Upto(f, m) == f = [n \in 0..m |->
                                IF n = 0 THEN << <<>> >> ELSE Prepend(text[Len(text) - n + 1], f[n-1])]
           S == {m \in Nat : \E f : Upto(f, m)}
<1>1. 0 \in S
  <2>1. Upto([n \in 0..0 |-> << <<>> >>], 0)
    OBVIOUS
  <2> QED BY <2>1
<1>2. ASSUME NEW m \in Nat, m \in S
      PROVE  m + 1 \in S
  <2>1. PICK f : Upto(f, m)
    BY <1>2
  <2> DEFINE char == text[Len(text) - (m+1) + 1]
             g == [n \in 0..(m+1) |-> IF n = m + 1 THEN Prepend(char, f[m]) ELSE f[n]]
  <2>2. \A n \in 0..(m+1) :
          g[n] = IF n = 0 THEN << <<>> >> ELSE Prepend(text[Len(text) - n + 1], g[n-1])
    <3> TAKE n \in 0..(m+1)
    <3>1. CASE n = m + 1
      <4>1. g[n] = Prepend(char, f[m]) /\ g[n-1] = f[m] /\ n # 0
        BY <3>1
      <4> HIDE DEF g
      <4> QED BY <3>1, <4>1
    <3>2. CASE n # m + 1
      <4>1. n \in 0..m
        BY <3>2
      <4>2. f[n] = IF n = 0 THEN << <<>> >> ELSE Prepend(text[Len(text) - n + 1], f[n-1])
        BY <2>1, <4>1
      <4>3. g[n] = f[n] /\ (n # 0 => g[n-1] = f[n-1])
        BY <3>2, <4>1
      <4> HIDE DEF g
      <4> QED BY <4>2, <4>3
    <3> QED BY <3>1, <3>2
  <2>3. Upto(g, m + 1)
    <3>1. g = [n \in 0..(m+1) |-> g[n]]
      OBVIOUS
    <3> HIDE DEF g
    <3> QED BY <2>2, <3>1
  <2> HIDE DEF g, Upto
  <2> QED BY <2>3
<1>3. Len(text) \in S
  <2> HIDE DEF S
  <2> QED BY <1>1, <1>2, Induction
<1> QED BY <1>3

LEMMA SplitSteps ==
  ASSUME NEW text, Len(text) \in Nat
  PROVE  /\ Split(text)[0] = << <<>> >>
         /\ \A n \in 1..Len(text) :
              Split(text)[n] = Prepend(text[Len(text) - n + 1], Split(text)[n-1])
<1> DEFINE f == Split(text)
<1>1. f = [n \in 0..Len(text) |->
             IF n = 0 THEN << <<>> >> ELSE Prepend(text[Len(text) - n + 1], f[n-1])]
  BY CanBeSplit DEF Split
<1> HIDE DEF f
<1>2. f[0] = << <<>> >>
  BY <1>1
<1>3. \A n \in 1..Len(text) : f[n] = Prepend(text[Len(text) - n + 1], f[n-1])
  BY <1>1
<1> QED BY <1>2, <1>3 DEF f

(* What the last m characters can consist of: lines, no longer than they   *)
(* are together, and one more than there are line breaks between them.     *)
LinesOf(lines, m) ==
  /\ lines \in Seq(Words)
  /\ Len(lines) \in 1..(m + 1)
  /\ \A k \in 1..Len(lines) : Len(lines[k]) <= m

LEMMA LinesNotEmpty ==
  ASSUME NEW lines, NEW m \in Nat, LinesOf(lines, m)
  PROVE  lines # <<>> /\ lines \in Seq(Words) /\ Len(lines) \in Nat \ {0}
<1>1. Len(<<>>) = 0
  OBVIOUS
<1> QED BY <1>1 DEF LinesOf

LEMMA PrependLines ==
  ASSUME NEW m \in Nat, NEW lines, LinesOf(lines, m), NEW char \in Char \cup {NL}
  PROVE  LinesOf(Prepend(char, lines), m + 1)
<1>1. lines # <<>> /\ lines \in Seq(Words) /\ Len(lines) \in Nat \ {0}
  BY LinesNotEmpty
<1>2. \A k \in 1..Len(lines) : lines[k] \in Words /\ Len(lines[k]) \in Nat /\ Len(lines[k]) <= m
  BY ElementOfSeq, LenProperties DEF LinesOf, Words
<1>3. CASE char = NL
  <2> DEFINE more == << <<>> >> \o lines
  <2>1. << <<>> >> \in Seq(Words) /\ Len(<< <<>> >>) = 1 /\ << <<>> >>[1] = <<>>
    BY DEF Words
  <2>2. /\ more \in Seq(Words) /\ Len(more) = 1 + Len(lines)
        /\ \A k \in 1..(1 + Len(lines)) :
             more[k] = IF k <= 1 THEN << <<>> >>[k] ELSE lines[k - 1]
    BY <1>1, <2>1, ConcatProperties
  <2> HIDE DEF more
  <2>3. ASSUME NEW k \in 1..Len(more)
        PROVE  Len(more[k]) <= m + 1
    <3>1. CASE k = 1
      <4>1. more[k] = <<>>
        BY <1>1, <2>1, <2>2, <3>1
      <4>2. Len(<<>>) = 0
        OBVIOUS
      <4> QED BY <4>1, <4>2
    <3>2. CASE k # 1
      <4>1. k - 1 \in 1..Len(lines) /\ more[k] = lines[k - 1]
        BY <1>1, <2>2, <3>2
      <4> QED BY <1>2, <4>1
    <3> QED BY <3>1, <3>2
  <2>4. Len(more) \in 1..(m + 1 + 1)
    BY <1>1, <2>2 DEF LinesOf
  <2>5. Prepend(char, lines) = more
    BY <1>3 DEF Prepend, more
  <2> QED BY <2>2, <2>3, <2>4, <2>5 DEF LinesOf
<1>4. CASE char # NL
  <2> DEFINE more == Glue(<<char>>, lines)
  <2>1. <<char>> \in Words /\ Len(<<char>>) = 1
    BY <1>4 DEF Words
  <2>2. /\ more \in Seq(Words) /\ Len(more) = Len(lines)
        /\ more[1] = <<char>> \o lines[1]
        /\ \A k \in 2..Len(lines) : more[k] = lines[k]
    BY <1>1, <2>1, GlueWords
  <2> HIDE DEF more
  <2>3. ASSUME NEW k \in 1..Len(more)
        PROVE  Len(more[k]) <= m + 1
    <3>1. CASE k = 1
      <4>1. lines[1] \in Words /\ Len(lines[1]) \in Nat /\ Len(lines[1]) <= m
        BY <1>1, <1>2
      <4>2. Len(<<char>> \o lines[1]) = 1 + Len(lines[1])
        BY <2>1, <4>1, ConcatProperties DEF Words
      <4> QED BY <2>2, <3>1, <4>1, <4>2
    <3>2. CASE k # 1
      <4>1. k \in 2..Len(lines) /\ k \in 1..Len(lines)
        BY <1>1, <2>2, <3>2
      <4> QED BY <1>2, <2>2, <4>1
    <3> QED BY <3>1, <3>2
  <2>4. Len(more) \in 1..(m + 1 + 1)
    BY <1>1, <2>2 DEF LinesOf
  <2>5. Prepend(char, lines) = more
    BY <1>4 DEF Prepend, more
  <2> QED BY <2>2, <2>3, <2>4, <2>5 DEF LinesOf
<1> QED BY <1>3, <1>4

LEMMA SplitLines ==
  ASSUME NEW text \in Text, NEW m \in 0..Len(text)
  PROVE  LinesOf(Split(text)[m], m)
<1> DEFINE S == {n \in Nat : n <= Len(text) => LinesOf(Split(text)[n], n)}
<1>1. Len(text) \in Nat
  BY LenProperties DEF Text
<1>2. /\ Split(text)[0] = << <<>> >>
      /\ \A n \in 1..Len(text) :
           Split(text)[n] = Prepend(text[Len(text) - n + 1], Split(text)[n-1])
  BY <1>1, SplitSteps
<1>3. 0 \in S
  <2>1. << <<>> >> \in Seq(Words) /\ Len(<< <<>> >>) = 1 /\ << <<>> >>[1] = <<>> /\ Len(<<>>) = 0
    BY DEF Words
  <2>2. LinesOf(<< <<>> >>, 0)
    BY <2>1 DEF LinesOf
  <2> QED BY <1>2, <2>2
<1>4. ASSUME NEW n \in Nat, n \in S
      PROVE  n + 1 \in S
  <2> SUFFICES ASSUME n + 1 <= Len(text)
               PROVE  LinesOf(Split(text)[n + 1], n + 1)
    OBVIOUS
  <2>1. LinesOf(Split(text)[n], n)
    BY <1>1, <1>4
  <2>2. n + 1 \in 1..Len(text) /\ (n + 1) - 1 = n /\ Len(text) - (n + 1) + 1 \in 1..Len(text)
    BY <1>1
  <2>3. text[Len(text) - (n + 1) + 1] \in Char \cup {NL}
    BY <2>2, ElementOfSeq DEF Text
  <2>4. Split(text)[n + 1] = Prepend(text[Len(text) - (n + 1) + 1], Split(text)[n])
    BY <1>2, <2>2
  <2> HIDE DEF S
  <2> QED BY <2>1, <2>3, <2>4, PrependLines
<1>5. m \in S
  <2> HIDE DEF S
  <2> QED BY <1>1, <1>3, <1>4, Induction
<1> QED BY <1>1, <1>5

(* Where a text has no line break, cutting there cuts its first line.      *)

LEMMA LinesOfWhole ==
  ASSUME NEW text \in Text, NEW p \in 0..Len(text), \A i \in 1..p : text[i] # NL
  PROVE  /\ SubSeq(text, 1, p) \in Words
         /\ Lines(text) = Glue(SubSeq(text, 1, p), Split(text)[Len(text) - p])
<1> DEFINE rest == Len(text) - p
           S == {j \in Nat : j <= p =>
                   /\ SubSeq(text, p - j + 1, p) \in Words
                   /\ Split(text)[rest + j] = Glue(SubSeq(text, p - j + 1, p), Split(text)[rest])}
<1>1. Len(text) \in Nat /\ p \in Nat /\ rest \in 0..Len(text) /\ p <= Len(text)
  BY LenProperties DEF Text
<1>2. \A n \in 1..Len(text) :
        Split(text)[n] = Prepend(text[Len(text) - n + 1], Split(text)[n-1])
  BY <1>1, SplitSteps
<1>3. /\ LinesOf(Split(text)[rest], rest)
      /\ Split(text)[rest] \in Seq(Words) /\ Split(text)[rest] # <<>>
  <2>1. LinesOf(Split(text)[rest], rest)
    BY <1>1, SplitLines
  <2> HIDE DEF rest
  <2> QED BY <1>1, <2>1, LinesNotEmpty
<1>4. 0 \in S
  <2>1. SubSeq(text, p - 0 + 1, p) = <<>>
    BY <1>1, SubSeqEmpty
  <2>2. <<>> \in Words
    BY DEF Words
  <2>3. Glue(<<>>, Split(text)[rest]) = Split(text)[rest]
    BY <1>3, GlueNone
  <2>4. rest + 0 = rest
    BY <1>1
  <2> QED BY <2>1, <2>2, <2>3, <2>4
<1>5. ASSUME NEW j \in Nat, j \in S
      PROVE  j + 1 \in S
  <2> SUFFICES ASSUME j + 1 <= p
               PROVE  /\ SubSeq(text, p - (j + 1) + 1, p) \in Words
                      /\ Split(text)[rest + (j + 1)]
                           = Glue(SubSeq(text, p - (j + 1) + 1, p), Split(text)[rest])
    OBVIOUS
  <2> DEFINE part == SubSeq(text, p - j + 1, p)
             char == text[p - j]
  <2>1. part \in Words /\ Split(text)[rest + j] = Glue(part, Split(text)[rest])
    BY <1>1, <1>5
  <2>2. /\ rest + j + 1 \in 1..Len(text) /\ (rest + j + 1) - 1 = rest + j
        /\ Len(text) - (rest + j + 1) + 1 = p - j
        /\ rest + (j + 1) = rest + j + 1
        /\ p - j \in 1..p /\ p - j \in 1..Len(text) /\ p \in (p - j)..Len(text)
        /\ p - (j + 1) + 1 = p - j
    BY <1>1
  <2>3. char \in Char /\ char # NL
    <3>1. text[p - j] \in Char \cup {NL}
      BY <2>2, ElementOfSeq DEF Text
    <3> QED BY <2>2, <3>1
  <2>4. Split(text)[rest + j + 1] = Glue(<<char>>, Split(text)[rest + j])
    BY <1>2, <2>2, <2>3 DEF Prepend
  <2>5. SubSeq(text, p - j, p) = <<char>> \o part
    BY <2>2, SubSeqRecursiveFirst DEF Text
  <2>6. <<char>> \in Words
    BY <2>3 DEF Words
  <2> HIDE DEF char, part
  <2>7. <<char>> \o part \in Words
    BY <2>1, <2>6, ConcatProperties DEF Words
  <2>8. Glue(<<char>>, Glue(part, Split(text)[rest])) = Glue(<<char>> \o part, Split(text)[rest])
    <3> HIDE DEF rest
    <3> QED BY <1>3, <2>1, <2>6, GlueTwice
  <2> HIDE DEF S, rest
  <2> QED BY <2>1, <2>2, <2>4, <2>5, <2>7, <2>8
<1>6. p \in S
  <2> HIDE DEF S
  <2> QED BY <1>1, <1>4, <1>5, Induction
<1>7. p - p + 1 = 1 /\ rest + p = Len(text)
  BY <1>1
<1> QED BY <1>1, <1>6, <1>7 DEF Lines

(* What chunks make of a copy.                                             *)

LEMMA MaxWithZero ==
  ASSUME NEW m \in Int
  PROVE  Max({0, m}) = IF m > 0 THEN m ELSE 0
<1>1. \E x \in {0, m} : \A y \in {0, m} : x >= y
  BY m >= 0 \/ 0 >= m
<1>2. Max({0, m}) \in {0, m} /\ \A y \in {0, m} : Max({0, m}) >= y
  BY <1>1 DEF Max
<1> QED BY <1>2

(* A live text, filled up to an offset where it is too short, cut there.   *)
CutAt(live, offset) ==
  SubSeq(live \o [i \in 1..Max({0, offset - Len(live)}) |-> Fill], 1, offset)

LEMMA CutFills ==
  ASSUME NEW live \in Seq(Glyphs), NEW offset \in Nat
  PROVE  /\ CutAt(live, offset) \in Seq(Glyphs) /\ Len(CutAt(live, offset)) = offset
         /\ \A i \in 1..offset :
              CutAt(live, offset)[i] = IF i <= Len(live) THEN live[i] ELSE Fill
<1> DEFINE missing == Max({0, offset - Len(live)})
           fill == [i \in 1..missing |-> Fill]
           filled == live \o fill
           cut == SubSeq(filled, 1, offset)
<1>1. Len(live) \in Nat
  BY LenProperties
<1>2. missing \in Nat /\ Len(live) + missing >= offset
  <2>1. missing = IF offset - Len(live) > 0 THEN offset - Len(live) ELSE 0
    BY <1>1, MaxWithZero
  <2> HIDE DEF missing
  <2> QED BY <1>1, <2>1
<1> HIDE DEF missing
<1>3. fill \in Seq(Glyphs) /\ Len(fill) = missing /\ \A i \in 1..missing : fill[i] = Fill
  BY <1>2 DEF Glyphs
<1> HIDE DEF fill
<1>4. /\ filled \in Seq(Glyphs) /\ Len(filled) = Len(live) + missing
      /\ \A i \in 1..(Len(live) + missing) :
           filled[i] = IF i <= Len(live) THEN live[i] ELSE Fill
  <2>1. /\ filled \in Seq(Glyphs) /\ Len(filled) = Len(live) + Len(fill)
        /\ \A i \in 1..(Len(live) + Len(fill)) :
             filled[i] = IF i <= Len(live) THEN live[i] ELSE fill[i - Len(live)]
    BY <1>3, ConcatProperties
  <2>2. \A i \in 1..(Len(live) + missing) : ~(i <= Len(live)) => i - Len(live) \in 1..missing
    BY <1>1, <1>2
  <2> HIDE DEF filled
  <2> QED BY <1>3, <2>1, <2>2
<1> HIDE DEF filled
<1>5. \A i \in 1..offset : i \in 1..(Len(live) + missing) /\ filled[i] \in Glyphs
  <2> TAKE i \in 1..offset
  <2>1. i \in 1..Len(filled)
    BY <1>1, <1>2, <1>4
  <2> QED BY <1>4, <2>1, ElementOfSeq
<1>6. /\ cut \in Seq(Glyphs)
      /\ Len(cut) = IF 1 <= offset THEN offset - 1 + 1 ELSE 0
      /\ \A i \in 1..(offset - 1 + 1) : cut[i] = filled[1 + i - 1]
  BY <1>5, SubSeqProperties
<1> HIDE DEF cut
<1>7. Len(cut) = offset
  BY <1>6
<1>8. \A i \in 1..offset : cut[i] = IF i <= Len(live) THEN live[i] ELSE Fill
  <2> TAKE i \in 1..offset
  <2>1. i \in 1..(offset - 1 + 1) /\ 1 + i - 1 = i
    OBVIOUS
  <2> QED BY <1>4, <1>5, <1>6, <2>1
<1> QED BY <1>6, <1>7, <1>8 DEF cut, filled, fill, missing, CutAt

LEMMA CutNone ==
  ASSUME NEW live
  PROVE  CutAt(live, 0) = <<>>
<1>1. \A s : SubSeq(s, 1, 0) = <<>>
  BY SubSeqEmpty
<1> QED BY <1>1 DEF CutAt

LEMMA ChunkPlays ==
  ASSUME NEW copy, NEW offset \in Int, NEW text
  PROVE  /\ offset < CoNewline => ProcessLiveChunk(copy, Chunk(offset, text)) = copy
         /\ offset = CoNewline =>
              ProcessLiveChunk(copy, Chunk(offset, text))
                = Copy(<<>>, Append(copy.past, Line(text, copy.live)))
         /\ offset >= 0 =>
              ProcessLiveChunk(copy, Chunk(offset, text))
                = Copy(CutAt(copy.live, offset) \o text, copy.past)
<1>1. Chunk(offset, text).offset = offset /\ Chunk(offset, text).text = text
  BY DEF Chunk
<1>2. CASE offset < CoNewline
  BY <1>1, <1>2 DEF ProcessLiveChunk, CoNewline
<1>3. CASE offset = CoNewline
  BY <1>1, <1>3 DEF ProcessLiveChunk, CoNewline
<1>4. CASE offset >= 0
  BY <1>1, <1>4 DEF ProcessLiveChunk, CoNewline, CutAt
<1> QED BY <1>2, <1>3, <1>4 DEF CoNewline

(* The past lines that the first k of some lines make.                     *)
Ended(lines, k) == [j \in 1..k |-> Line(NewId(j), lines[j])]

PastLine(set) == [id : Id, text : Seq(set)]

PastAfter(past, lines, k) == past \o Ended(lines, k)

EndIn(P, lines, k) == \A j \in 1..k : Line(NewId(j), lines[j]) \in P

LEMMA EndedNone ==
  ASSUME NEW P, NEW past \in Seq(P), NEW lines
  PROVE  PastAfter(past, lines, 0) = past
<1>1. Ended(lines, 0) = <<>>
  BY DEF Ended
<1> QED BY <1>1, ConcatEmptySeq DEF PastAfter

LEMMA EndedGrows ==
  ASSUME NEW P, NEW past \in Seq(P), NEW lines, NEW n, EndIn(P, lines, n),
         NEW k \in Nat, n \in Nat, k + 1 <= n
  PROVE  /\ Ended(lines, k) \in Seq(P) /\ Len(Ended(lines, k)) = k
         /\ PastAfter(past, lines, k + 1)
              = Append(PastAfter(past, lines, k), Line(NewId(k + 1), lines[k + 1]))
<1> DEFINE last == Line(NewId(k + 1), lines[k + 1])
           before == Ended(lines, k)
           after == Ended(lines, k + 1)
           one == Append(past \o before, last)
           other == past \o after
<1>1. before \in Seq(P) /\ Len(before) = k /\ \A j \in 1..k : before[j] = after[j]
  BY DEF Ended, EndIn
<1>2. after \in Seq(P) /\ Len(after) = k + 1 /\ after[k + 1] = last
  BY DEF Ended, EndIn
<1>4. last \in P
  BY DEF EndIn
<1> HIDE DEF last, before, after
<1>5. Len(past) \in Nat
  BY LenProperties
<1> DEFINE p == past \o before
<1>6. /\ p \in Seq(P) /\ Len(p) = Len(past) + k
      /\ \A i \in 1..(Len(past) + k) :
           p[i] = IF i <= Len(past) THEN past[i] ELSE before[i - Len(past)]
  BY <1>1, ConcatProperties
<1>7. /\ other \in Seq(P) /\ Len(other) = Len(past) + (k + 1)
      /\ \A i \in 1..(Len(past) + (k + 1)) :
           other[i] = IF i <= Len(past) THEN past[i] ELSE after[i - Len(past)]
  <2>1. /\ other \in Seq(P) /\ Len(other) = Len(past) + Len(after)
        /\ \A i \in 1..(Len(past) + Len(after)) :
             other[i] = IF i <= Len(past) THEN past[i] ELSE after[i - Len(past)]
    BY <1>2, ConcatProperties
  <2>2. Len(after) = k + 1
    BY <1>2
  <2> HIDE DEF other
  <2> QED BY <2>1, <2>2
<1> HIDE DEF p, other
<1> DEFINE q == Append(p, last)
<1>8. /\ q \in Seq(P) /\ Len(q) = Len(p) + 1
      /\ \A i \in 1..Len(p) : q[i] = p[i]
      /\ q[Len(p) + 1] = last
  BY <1>4, <1>6, AppendProperties
<1> HIDE DEF q
<1>9. ASSUME NEW i \in 1..Len(q)
      PROVE  q[i] = other[i]
  <2>1. CASE i <= Len(past)
    <3>1. i \in 1..Len(p) /\ i \in 1..(Len(past) + k) /\ i \in 1..(Len(past) + (k + 1))
      BY <1>5, <1>6, <2>1
    <3> QED BY <1>6, <1>7, <1>8, <2>1, <3>1
  <2>2. CASE i > Len(past) /\ i # Len(p) + 1
    <3>1. /\ i \in 1..Len(p) /\ i \in 1..(Len(past) + k) /\ i \in 1..(Len(past) + (k + 1))
          /\ i - Len(past) \in 1..k /\ ~(i <= Len(past))
      BY <1>5, <1>6, <1>8, <2>2
    <3> QED BY <1>1, <1>6, <1>7, <1>8, <3>1
  <2>3. CASE i = Len(p) + 1
    <3>1. /\ i - Len(past) = k + 1 /\ i \in 1..(Len(past) + (k + 1)) /\ ~(i <= Len(past))
      BY <1>5, <1>6, <2>3
    <3> QED BY <1>2, <1>7, <1>8, <2>3, <3>1
  <2>4. i <= Len(past) \/ i > Len(past)
    BY <1>5
  <2> QED BY <2>1, <2>2, <2>3, <2>4
<1>10. q = other
  <2>1. Len(q) = Len(other)
    BY <1>5, <1>6, <1>7, <1>8
  <2> QED BY <1>7, <1>8, <1>9, <2>1, SeqEqual
<1> QED BY <1>1, <1>10 DEF q, p, other, last, before, after, PastAfter

(* Playing the chunks of lines ends every line but the last and leaves the *)
(* last one live, the first glued to what the cut leaves of the live text. *)
LEMMA LinesArePlayed ==
  ASSUME NEW copy \in CopyOf(Glyphs), NEW offset \in Nat,
         NEW m \in Nat, NEW lines, LinesOf(lines, m),
         \A k \in 1..(Len(lines) - 1) : NewId(k) \in Id
  PROVE  PlayAll(copy, LineChunks(offset, lines))
           = Typed(copy.past, Glue(CutAt(copy.live, offset), lines))
<1> DEFINE n == Len(lines)
           past == copy.past
           P == PastLine(Glyphs)
           cut == CutAt(copy.live, offset)
           G == Glue(cut, lines)
           Q == LineChunks(offset, lines)
           f == Played(copy, Q)
           S == {k \in Nat : k <= n - 1 => f[2*k + 1] = Copy(G[k+1], PastAfter(past, G, k))}
<1>1. n \in Nat \ {0} /\ lines # <<>> /\ lines \in Seq(Seq(Glyphs))
  <2>1. n \in Nat \ {0} /\ lines # <<>> /\ lines \in Seq(Words)
    BY LinesNotEmpty
  <2>2. Words \subseteq Seq(Glyphs)
    BY SeqMonotonic DEF Words, Glyphs
  <2> HIDE DEF n
  <2> QED BY <2>1, <2>2, SeqMonotonic
<1>2. copy.live \in Seq(Glyphs) /\ past \in Seq(P)
  BY DEF CopyOf, PastLine
<1>3. cut \in Seq(Glyphs)
  BY <1>2, CutFills
<1> HIDE DEF past, cut, P
<1>4. /\ G \in Seq(Seq(Glyphs)) /\ Len(G) = n
      /\ G[1] = cut \o lines[1]
      /\ \A k \in 2..n : G[k] = lines[k]
  <2>1. cut \in Letters /\ lines \in Seq(Letters)
    BY <1>1, <1>3 DEF Letters
  <2>2. /\ Glue(cut, lines) \in Seq(Letters) /\ Len(Glue(cut, lines)) = Len(lines)
        /\ Glue(cut, lines)[1] = cut \o lines[1]
        /\ \A k \in 2..Len(lines) : Glue(cut, lines)[k] = lines[k]
    BY <1>1, <2>1, GlueLetters
  <2> QED BY <2>2 DEF Letters, n
<1> HIDE DEF G, n
<1>5. \A j \in 1..(n-1) : Line(NewId(j), G[j]) \in P
  <2> TAKE j \in 1..(n-1)
  <2>1. G[j] \in Seq(Glyphs)
    <3>1. j \in 1..Len(G)
      BY <1>1, <1>4
    <3> QED BY <1>4, <3>1, ElementOfSeq
  <2>2. NewId(j) \in Id
    BY DEF n
  <2> QED BY <2>1, <2>2 DEF Line, P, PastLine
<1>6. /\ Len(Q) = 2*n - 1 /\ Len(Q) \in Nat
      /\ Q[1] = Chunk(offset, lines[1])
      /\ \A k \in 1..(n-1) : Q[2*k] = Chunk(CoNewline, NewId(k)) /\ Q[2*k + 1] = Chunk(0, lines[k+1])
  <2>1. Q = [i \in 1..(2*n - 1) |->
               IF i = 1 THEN Chunk(offset, lines[1])
               ELSE IF i % 2 = 0 THEN Chunk(CoNewline, NewId(i \div 2))
               ELSE Chunk(0, lines[(i + 1) \div 2])]
    BY DEF LineChunks, n
  <2>2. 2*n - 1 \in Nat /\ 1 \in 1..(2*n - 1)
    BY <1>1
  <2> HIDE DEF Q
  <2>3. Len(Q) = 2*n - 1
    BY <2>1, <2>2
  <2>4. ASSUME NEW k \in 1..(n-1)
        PROVE  Q[2*k] = Chunk(CoNewline, NewId(k)) /\ Q[2*k + 1] = Chunk(0, lines[k+1])
    <3>1. 2*k \in 1..(2*n - 1) /\ 2*k + 1 \in 1..(2*n - 1) /\ 2*k # 1 /\ 2*k + 1 # 1
      BY <1>1
    <3>2. (2*k) % 2 = 0 /\ (2*k) \div 2 = k /\ (2*k + 1) % 2 # 0 /\ (2*k + 1 + 1) \div 2 = k + 1
      OBVIOUS
    <3> QED BY <2>1, <3>1, <3>2
  <2> QED BY <2>1, <2>2, <2>3, <2>4
<1> HIDE DEF Q
<1>7. f[0] = copy /\ \A i \in 1..Len(Q) : f[i] = ProcessLiveChunk(f[i-1], Q[i])
  BY <1>6, PlayedSteps
<1> HIDE DEF f
<1>8. ASSUME NEW k \in Nat, k + 1 <= n - 1
      PROVE  PastAfter(past, G, k + 1) = Append(PastAfter(past, G, k), Line(NewId(k + 1), G[k + 1]))
  <2>1. EndIn(P, G, n - 1) /\ n - 1 \in Nat
    BY <1>1, <1>5 DEF EndIn
  <2> QED BY <1>2, <1>8, <2>1, EndedGrows
<1>9. 0 \in S
  <2>1. 1 \in 1..Len(Q) /\ 1 - 1 = 0 /\ 2*0 + 1 = 1 /\ 0 + 1 = 1
    BY <1>1, <1>6
  <2>2. f[1] = ProcessLiveChunk(copy, Chunk(offset, lines[1]))
    BY <1>6, <1>7, <2>1
  <2>3. f[1] = Copy(cut \o lines[1], past)
    BY <2>2, ChunkPlays DEF cut, past
  <2>4. PastAfter(past, G, 0) = past
    BY <1>2, EndedNone
  <2> QED BY <1>4, <2>1, <2>3, <2>4
<1>10. ASSUME NEW k \in Nat, k \in S
       PROVE  k + 1 \in S
  <2> SUFFICES ASSUME k + 1 <= n - 1
               PROVE  f[2*(k+1) + 1] = Copy(G[(k+1) + 1], PastAfter(past, G, k+1))
    OBVIOUS
  <2> DEFINE ended == PastAfter(past, G, k)
  <2>1. f[2*k + 1] = Copy(G[k+1], ended)
    BY <1>1, <1>10
  <2>2. /\ 2*(k+1) \in 1..Len(Q) /\ 2*(k+1) - 1 = 2*k + 1
        /\ 2*(k+1) + 1 \in 1..Len(Q) /\ (2*(k+1) + 1) - 1 = 2*(k+1)
        /\ k + 1 \in 1..(n-1) /\ k \in 0..(n-1) /\ k < n - 1 /\ (k+1) + 1 \in 2..n
    BY <1>1, <1>6
  <2>3. f[2*(k+1)] = Copy(<<>>, Append(ended, Line(NewId(k+1), G[k+1])))
    <3>1. f[2*(k+1)] = ProcessLiveChunk(Copy(G[k+1], ended), Chunk(CoNewline, NewId(k+1)))
      BY <1>6, <1>7, <2>1, <2>2
    <3>2. Copy(G[k+1], ended).past = ended /\ Copy(G[k+1], ended).live = G[k+1]
      BY DEF Copy
    <3>3. CoNewline \in Int
      BY DEF CoNewline
    <3> HIDE DEF ended
    <3> QED BY <3>1, <3>2, <3>3, ChunkPlays
  <2>4. f[2*(k+1)] = Copy(<<>>, PastAfter(past, G, k+1))
    BY <1>8, <2>2, <2>3
  <2>5. f[2*(k+1) + 1] = Copy(CutAt(<<>>, 0) \o lines[(k+1) + 1], PastAfter(past, G, k+1))
    <3>1. f[2*(k+1) + 1] = ProcessLiveChunk(Copy(<<>>, PastAfter(past, G, k+1)), Chunk(0, lines[(k+1) + 1]))
      BY <1>6, <1>7, <2>2, <2>4
    <3>2. /\ Copy(<<>>, PastAfter(past, G, k+1)).past = PastAfter(past, G, k+1)
          /\ Copy(<<>>, PastAfter(past, G, k+1)).live = <<>>
      BY DEF Copy
    <3>3. 0 \in Int /\ 0 >= 0
      OBVIOUS
    <3> QED BY <3>1, <3>2, <3>3, ChunkPlays
  <2>6. CutAt(<<>>, 0) \o lines[(k+1) + 1] = lines[(k+1) + 1]
    <3>1. CutAt(<<>>, 0) = <<>>
      BY CutNone
    <3>2. lines[(k+1) + 1] \in Seq(Glyphs)
      <4>1. (k+1) + 1 \in 1..Len(lines)
        BY <2>2 DEF n
      <4> QED BY <1>1, <4>1, ElementOfSeq
    <3> QED BY <3>1, <3>2, ConcatEmptySeq
  <2> QED BY <1>4, <2>2, <2>5, <2>6
<1>11. n - 1 \in S
  <2> HIDE DEF S
  <2>1. n - 1 \in Nat
    BY <1>1
  <2> QED BY <1>9, <1>10, <2>1, Induction
<1>12. f[Len(Q)] = Copy(G[n], PastAfter(past, G, n - 1))
  <2>1. n - 1 \in Nat /\ 2*(n-1) + 1 = Len(Q) /\ (n-1) + 1 = n
    BY <1>1, <1>6
  <2> QED BY <1>11, <2>1
<1>13. Typed(past, G) = Copy(G[n], PastAfter(past, G, n - 1))
  BY <1>4 DEF Typed, Ended, PastAfter
<1> QED BY <1>12, <1>13 DEF PlayAll, f, Q, G, cut, past

(* What the chunks of an edit are.                                         *)

LEMMA MinOfTwo ==
  ASSUME NEW m \in Nat, NEW n \in Nat
  PROVE  Min({m, n}) = IF m <= n THEN m ELSE n
<1>1. \E x \in {m, n} : \A y \in {m, n} : x =< y
  BY m =< n \/ n =< m
<1>2. Min({m, n}) \in {m, n} /\ \A y \in {m, n} : Min({m, n}) =< y
  BY <1>1 DEF Min
<1> QED BY <1>2

LEMMA MinIsLeast ==
  ASSUME NEW T \in SUBSET Nat, T # {}
  PROVE  Min(T) \in T /\ \A y \in T : Min(T) =< y
<1>1. \E x \in T : \A y \in T : x =< y
  BY Least
<1> QED BY <1>1 DEF Min

(* Two texts that are the same up to an offset.                            *)
SameUpTo(old, new, p) ==
  /\ p \in 0..Len(new) /\ p <= Len(old)
  /\ \A i \in 1..p : old[i] = new[i]

LEMMA DiffIs ==
  ASSUME NEW old \in Words, NEW new \in Text
  PROVE  \/ new = old /\ DiffLines(old, new) = <<>>
         \/ \E p \in Nat : /\ SameUpTo(old, new, p)
                           /\ DiffLines(old, new) = LineChunks(p, Split(new)[Len(new) - p])
<1> DEFINE m == Len(old)
           n == Len(new)
           common == Min({m, n})
           different == {i \in 1..common : old[i] # new[i]}
           at == FirstDifference(old, new)
<1>1. m \in Nat /\ n \in Nat
  BY LenProperties DEF Words, Text
<1>2. common = IF m <= n THEN m ELSE n
  BY <1>1, MinOfTwo
<1>3. different \in SUBSET Nat
  BY <1>1, <1>2
<1>4. at = IF different = {} THEN 0 ELSE Min(different)
  BY DEF FirstDifference
<1>5. DiffLines(old, new) =
        IF at > 0 THEN SuffixToChunks(new, at - 1)
        ELSE IF m < n THEN SuffixToChunks(new, m)
        ELSE IF m > n THEN <<Chunk(n, <<>>)>>
        ELSE <<>>
  BY DEF DiffLines
<1>6. ASSUME NEW p \in Nat, p < n
      PROVE  SuffixToChunks(new, p) = LineChunks(p, Split(new)[n - p])
  <2>1. ~(n <= p)
    BY <1>1, <1>6
  <2> QED BY <2>1 DEF SuffixToChunks
<1> HIDE DEF at, common
<1>7. CASE different # {}
  <2> DEFINE first == Min(different)
  <2>1. first \in different /\ \A i \in different : first =< i
    <3> HIDE DEF different
    <3> QED BY <1>3, <1>7, MinIsLeast
  <2>2. first \in 1..common /\ at = first
    BY <1>4, <1>7, <2>1
  <2>3. \A i \in 1..common : i < first => old[i] = new[i]
    BY <1>1, <1>2, <2>1, <2>2
  <2> HIDE DEF first, different
  <2>4. /\ first - 1 \in Nat /\ first - 1 < n /\ first - 1 <= m /\ at > 0
        /\ \A i \in 1..(first - 1) : i \in 1..common /\ i < first
    BY <1>1, <1>2, <2>2
  <2>5. SameUpTo(old, new, first - 1)
    BY <1>1, <2>3, <2>4 DEF SameUpTo
  <2>6. DiffLines(old, new) = LineChunks(first - 1, Split(new)[n - (first - 1)])
    BY <1>5, <1>6, <2>2, <2>4
  <2> QED BY <2>4, <2>5, <2>6
<1>8. CASE different = {}
  <2>1. ~(at > 0)
    BY <1>4, <1>8
  <2>2. \A i \in 1..common : old[i] = new[i]
    BY <1>8
  <2> HIDE DEF different
  <2>3. CASE m < n
    <3>1. SameUpTo(old, new, m)
      BY <1>1, <1>2, <2>2, <2>3 DEF SameUpTo
    <3>2. DiffLines(old, new) = LineChunks(m, Split(new)[n - m])
      BY <1>1, <1>5, <1>6, <2>1, <2>3
    <3> QED BY <1>1, <3>1, <3>2
  <2>4. CASE m > n
    <3>1. SameUpTo(old, new, n)
      BY <1>1, <1>2, <2>2, <2>4 DEF SameUpTo
    <3>2. DiffLines(old, new) = <<Chunk(n, <<>>)>>
      BY <1>1, <1>5, <2>1, <2>4
    <3>3. LineChunks(n, << <<>> >>) = <<Chunk(n, <<>>)>>
      BY DEF LineChunks
    <3>4. Split(new)[n - n] = << <<>> >>
      <4>1. n - n = 0
        BY <1>1
      <4> QED BY <1>1, <4>1, SplitSteps
    <3> QED BY <1>1, <3>1, <3>2, <3>3, <3>4
  <2>5. CASE m = n
    <3>1. DiffLines(old, new) = <<>>
      BY <1>1, <1>5, <2>1, <2>5
    <3>2. new = old
      <4>1. old \in Text
        BY SeqMonotonic DEF Words, Text
      <4>2. \A i \in 1..Len(old) : old[i] = new[i]
        BY <1>1, <1>2, <2>2, <2>5
      <4> QED BY <2>5, <4>1, <4>2, SeqEqual DEF Text
    <3> QED BY <3>1, <3>2
  <2> QED BY <1>1, <2>3, <2>4, <2>5
<1> QED BY <1>7, <1>8

(* The lines of an edited text, told by what its chunks leave of it.       *)
LEMMA EditedLines ==
  ASSUME NEW old \in Words, NEW new \in Text, NEW p \in Nat, SameUpTo(old, new, p)
  PROVE  /\ LinesOf(Split(new)[Len(new) - p], Len(new) - p)
         /\ Len(new) - p \in Nat
         /\ SubSeq(new, 1, p) \in Words
         /\ Len(SubSeq(new, 1, p)) = p /\ \A i \in 1..p : SubSeq(new, 1, p)[i] = new[i]
         /\ Lines(new) = Glue(SubSeq(new, 1, p), Split(new)[Len(new) - p])
<1>1. Len(new) \in Nat /\ Len(old) \in Nat /\ p \in 0..Len(new) /\ p <= Len(old)
      /\ Len(new) - p \in 0..Len(new)
  BY LenProperties DEF Words, Text, SameUpTo
<1>2. \A i \in 1..p : new[i] # NL /\ new[i] \in Char
  <2> TAKE i \in 1..p
  <2>1. i \in 1..Len(old) /\ old[i] = new[i]
    BY <1>1 DEF SameUpTo
  <2>2. old[i] \in Char
    BY <2>1, ElementOfSeq DEF Words
  <2> QED BY <2>1, <2>2, NLIsNoChar
<1>3. LinesOf(Split(new)[Len(new) - p], Len(new) - p)
  BY <1>1, SplitLines
<1>4. SubSeq(new, 1, p) \in Words /\ Lines(new) = Glue(SubSeq(new, 1, p), Split(new)[Len(new) - p])
  BY <1>1, <1>2, LinesOfWhole
<1>5. /\ Len(SubSeq(new, 1, p)) = IF 1 <= p THEN p - 1 + 1 ELSE 0
      /\ \A i \in 1..(p - 1 + 1) : SubSeq(new, 1, p)[i] = new[1 + i - 1]
  BY <1>2, SubSeqProperties
<1> DEFINE cut == SubSeq(new, 1, p)
<1>6. Len(cut) = p
  <2> HIDE DEF cut
  <2>1. Len(cut) = IF 1 <= p THEN p - 1 + 1 ELSE 0
    BY <1>5 DEF cut
  <2> QED BY <2>1
<1>7. \A i \in 1..p : cut[i] = new[i]
  <2> HIDE DEF cut
  <2>1. \A i \in 1..(p - 1 + 1) : cut[i] = new[1 + i - 1]
    BY <1>5 DEF cut
  <2>2. \A i \in 1..p : i \in 1..(p - 1 + 1) /\ 1 + i - 1 = i
    OBVIOUS
  <2> QED BY <2>1, <2>2
<1> QED BY <1>1, <1>3, <1>4, <1>6, <1>7

LEMMA SameLines ==
  ASSUME NEW old \in Words
  PROVE  Lines(old) = <<old>>
<1>1. Len(old) \in Nat
  BY LenProperties DEF Words
<1>2. old \in Text
  BY SeqMonotonic DEF Words, Text
<1>3. SameUpTo(old, old, Len(old))
  BY <1>1 DEF SameUpTo
<1>4. Lines(old) = Glue(SubSeq(old, 1, Len(old)), Split(old)[Len(old) - Len(old)])
  BY <1>1, <1>2, <1>3, EditedLines
<1>5. SubSeq(old, 1, Len(old)) = old
  BY SubSeqFull DEF Words
<1>6. Split(old)[Len(old) - Len(old)] = << <<>> >>
  <2>1. Len(old) - Len(old) = 0
    BY <1>1
  <2> QED BY <1>1, <2>1, SplitSteps
<1> QED BY <1>4, <1>5, <1>6, GlueNothing

(* The inductive invariant.                                                *)

\* All that the late receiver was sent leaves its copy as it is.
Untouched == ~synced /\ \A i \in 1..Len(tail) : tail[i].offset < CoNewline

\* The lines that ended since it attached.
EndedSince == SubSeq(typed.past, since + 1, Len(typed.past))

\* What it will have, once it has played what is under way, of the live text and
\* the ended lines.
Agrees(seen, live, ended, untouched) ==
  /\ Len(seen.past) = Len(ended)
  /\ \A k \in 2..Len(seen.past) : seen.past[k] = ended[k]
  /\ seen.past # <<>> => seen.live = live
  /\ seen.past = <<>> /\ ~untouched => AgreeWhereKnown(seen.live, live)
  /\ untouched => seen = Empty

LateInStep ==
  /\ ~attached => late = Empty /\ tail = <<>> /\ ~synced
  /\ attached => Agrees(PlayAll(late, tail), typed.live, EndedSince, Untouched)

IInv == TypeOK /\ ServerInStep /\ LateInStep

(* Types of what edits and chunks make.                                    *)

LEMMA SeqOfIs ==
  ASSUME NEW S, NEW n \in Nat
  PROVE  \A s : s \in SeqOf(S, n) <=> s \in Seq(S) /\ Len(s) <= n
<1>1. ASSUME NEW s \in SeqOf(S, n)
      PROVE  s \in Seq(S) /\ Len(s) <= n
  <2>1. PICK m \in 0..n : s \in [1..m -> S]
    BY <1>1 DEF SeqOf
  <2>2. m \in Nat
    OBVIOUS
  <2> QED BY <2>1, <2>2
<1>2. ASSUME NEW s \in Seq(S), Len(s) <= n
      PROVE  s \in SeqOf(S, n)
  <2>1. Len(s) \in 0..n /\ s \in [1..Len(s) -> S]
    BY <1>2, LenProperties
  <2> QED BY <2>1 DEF SeqOf
<1> QED BY <1>1, <1>2

LEMMA ChunkKinds ==
  ASSUME NEW chunk \in Chunks
  PROVE  /\ chunk = Chunk(chunk.offset, chunk.text) /\ chunk.offset \in Int
         /\ \/ chunk.offset = CoNewline /\ chunk.text \in Id
            \/ /\ chunk.offset < CoNewline \/ chunk.offset >= 0
               /\ chunk.text \in Seq(Char)
<1>1. CASE chunk \in [offset : {CoNewline}, text : Id]
  BY <1>1 DEF Chunk, CoNewline
<1>2. CASE chunk \in [offset : {CoPlaySound, CoIgnore} \cup 0..MaxLen, text : SeqOf(Char, MaxLen)]
  <2>1. chunk.text \in Seq(Char)
    BY <1>2, SeqOfIs, BoundsAreNat
  <2>2. chunk = Chunk(chunk.offset, chunk.text) /\ chunk.offset \in {CoPlaySound, CoIgnore} \cup 0..MaxLen
    BY <1>2 DEF Chunk
  <2> QED BY <2>1, <2>2, BoundsAreNat DEF CoNewline, CoPlaySound, CoIgnore
<1> QED BY <1>1, <1>2 DEF Chunks

LEMMA CopyTyped ==
  ASSUME NEW set, NEW live \in Seq(set), NEW past \in Seq(PastLine(set))
  PROVE  /\ Copy(live, past) \in CopyOf(set)
         /\ Copy(live, past).live = live /\ Copy(live, past).past = past
BY DEF Copy, CopyOf, PastLine

LEMMA OneChunkTyped ==
  ASSUME NEW copy \in CopyOf(Glyphs), NEW chunk \in Chunks
  PROVE  ProcessLiveChunk(copy, chunk) \in CopyOf(Glyphs)
<1> DEFINE offset == chunk.offset
           text == chunk.text
<1>1. copy.live \in Seq(Glyphs) /\ copy.past \in Seq(PastLine(Glyphs))
  BY DEF CopyOf, PastLine
<1>2. chunk = Chunk(offset, text) /\ offset \in Int
  BY ChunkKinds
<1>3. /\ offset < CoNewline => ProcessLiveChunk(copy, chunk) = copy
      /\ offset = CoNewline =>
           ProcessLiveChunk(copy, chunk) = Copy(<<>>, Append(copy.past, Line(text, copy.live)))
      /\ offset >= 0 =>
           ProcessLiveChunk(copy, chunk) = Copy(CutAt(copy.live, offset) \o text, copy.past)
  <2> HIDE DEF offset, text
  <2> QED BY <1>2, ChunkPlays
<1>4. CASE offset < CoNewline
  BY <1>3, <1>4
<1>5. CASE offset = CoNewline
  <2>1. text \in Id
    BY <1>5, ChunkKinds DEF CoNewline
  <2>2. Line(text, copy.live) \in PastLine(Glyphs)
    BY <1>1, <2>1 DEF Line, PastLine
  <2>3. Append(copy.past, Line(text, copy.live)) \in Seq(PastLine(Glyphs)) /\ <<>> \in Seq(Glyphs)
    BY <1>1, <2>2, AppendProperties
  <2>4. Copy(<<>>, Append(copy.past, Line(text, copy.live))) \in CopyOf(Glyphs)
    BY <2>3, CopyTyped
  <2> QED BY <1>3, <1>5, <2>4
<1>6. CASE offset >= 0
  <2>1. text \in Seq(Glyphs)
    <3>1. text \in Seq(Char)
      BY <1>6, ChunkKinds DEF CoNewline
    <3> QED BY <3>1, SeqMonotonic DEF Glyphs
  <2>2. CutAt(copy.live, offset) \in Seq(Glyphs)
    BY <1>1, <1>2, <1>6, CutFills
  <2>3. CutAt(copy.live, offset) \o text \in Seq(Glyphs)
    BY <2>1, <2>2, ConcatProperties
  <2>4. Copy(CutAt(copy.live, offset) \o text, copy.past) \in CopyOf(Glyphs)
    BY <1>1, <2>3, CopyTyped
  <2> QED BY <1>3, <1>6, <2>4
<1> QED BY <1>2, <1>4, <1>5, <1>6, ChunkKinds

LEMMA AllChunksTyped ==
  ASSUME NEW copy \in CopyOf(Glyphs), NEW queue \in Seq(Chunks)
  PROVE  PlayAll(copy, queue) \in CopyOf(Glyphs)
<1> DEFINE f == Played(copy, queue)
           S == {m \in Nat : m <= Len(queue) => f[m] \in CopyOf(Glyphs)}
<1>1. Len(queue) \in Nat
  BY LenProperties
<1>2. f[0] = copy /\ \A n \in 1..Len(queue) : f[n] = ProcessLiveChunk(f[n-1], queue[n])
  BY <1>1, PlayedSteps
<1> HIDE DEF f
<1>3. 0 \in S
  BY <1>2
<1>4. ASSUME NEW m \in Nat, m \in S
      PROVE  m + 1 \in S
  <2> SUFFICES ASSUME m + 1 <= Len(queue)
               PROVE  f[m + 1] \in CopyOf(Glyphs)
    OBVIOUS
  <2>1. m + 1 \in 1..Len(queue) /\ (m + 1) - 1 = m /\ f[m] \in CopyOf(Glyphs)
    BY <1>1, <1>4
  <2>2. queue[m + 1] \in Chunks
    BY <2>1, ElementOfSeq
  <2>3. f[m + 1] = ProcessLiveChunk(f[m], queue[m + 1])
    BY <1>2, <2>1
  <2> QED BY <2>1, <2>2, <2>3, OneChunkTyped
<1>5. Len(queue) \in S
  <2> HIDE DEF S
  <2> QED BY <1>1, <1>3, <1>4, Induction
<1> QED BY <1>1, <1>5 DEF PlayAll, f

LEMMA IdsFit ==
  ASSUME edits \in 0..MaxEdits, NEW m \in Nat, m <= MaxLen, NEW lines, LinesOf(lines, m)
  PROVE  \A k \in 1..(Len(lines) - 1) : NewId(k) \in Id
<1> TAKE k \in 1..(Len(lines) - 1)
<1>1. k \in 1..MaxLen
  BY BoundsAreNat DEF LinesOf
<1> QED BY <1>1 DEF NewId, Id

LEMMA LineChunksTyped ==
  ASSUME edits \in 0..MaxEdits, NEW m \in Nat, m <= MaxLen, NEW lines, LinesOf(lines, m),
         NEW p \in Nat, p <= MaxLen
  PROVE  LineChunks(p, lines) \in Seq(Chunks)
<1> DEFINE n == Len(lines)
<1>1. n \in Nat \ {0}
  BY DEF LinesOf
<1>2. \A k \in 1..n : lines[k] \in SeqOf(Char, MaxLen)
  <2> TAKE k \in 1..n
  <2>1. lines[k] \in Seq(Char) /\ Len(lines[k]) <= m
    BY ElementOfSeq DEF LinesOf, Words
  <2>2. Len(lines[k]) <= MaxLen
    <3>1. Len(lines[k]) \in Nat
      BY <2>1, LenProperties
    <3> QED BY <2>1, <3>1, BoundsAreNat
  <2> QED BY <2>1, <2>2, SeqOfIs, BoundsAreNat
<1>3. \A k \in 1..(n-1) : NewId(k) \in Id
  BY IdsFit
<1> DEFINE chunk(i) == IF i = 1 THEN Chunk(p, lines[1])
                       ELSE IF i % 2 = 0 THEN Chunk(CoNewline, NewId(i \div 2))
                       ELSE Chunk(0, lines[(i + 1) \div 2])
<1>4. ASSUME NEW i \in 1..(2*n - 1)
      PROVE  chunk(i) \in Chunks
  <2>1. CASE i = 1
    <3>1. lines[1] \in SeqOf(Char, MaxLen)
      BY <1>1, <1>2
    <3>2. p \in 0..MaxLen
      BY BoundsAreNat
    <3> QED BY <2>1, <3>1, <3>2 DEF Chunk, Chunks
  <2>2. CASE i # 1 /\ i % 2 = 0
    <3>1. i \div 2 \in 1..(n-1)
      BY <1>1, <2>2
    <3>2. NewId(i \div 2) \in Id
      BY <1>3, <3>1
    <3> QED BY <2>2, <3>2 DEF Chunk, Chunks
  <2>3. CASE i # 1 /\ i % 2 # 0
    <3>1. (i + 1) \div 2 \in 1..n
      BY <1>1, <2>3
    <3>2. lines[(i + 1) \div 2] \in SeqOf(Char, MaxLen)
      BY <1>2, <3>1
    <3>3. 0 \in 0..MaxLen
      BY BoundsAreNat
    <3> QED BY <2>3, <3>2, <3>3 DEF Chunk, Chunks
  <2> QED BY <2>1, <2>2, <2>3
<1>5. LineChunks(p, lines) = [i \in 1..(2*n - 1) |-> chunk(i)]
  BY DEF LineChunks
<1>6. 2*n - 1 \in Nat
  BY <1>1
<1> HIDE DEF chunk, n
<1> QED BY <1>4, <1>5, <1>6

LEMMA LinesTyped ==
  ASSUME edits \in 0..MaxEdits, NEW m \in Nat, m <= MaxLen, NEW lines, LinesOf(lines, m),
         NEW past \in Seq(PastLine(Char))
  PROVE  /\ Typed(past, lines) = Copy(lines[Len(lines)], PastAfter(past, lines, Len(lines) - 1))
         /\ Typed(past, lines) \in CopyOf(Char)
         /\ Ended(lines, Len(lines) - 1) \in Seq(PastLine(Char))
         /\ Len(Ended(lines, Len(lines) - 1)) = Len(lines) - 1
<1> DEFINE n == Len(lines)
<1>1. n \in Nat \ {0} /\ \A k \in 1..n : lines[k] \in Seq(Char)
  BY ElementOfSeq DEF LinesOf, Words
<1>2. \A k \in 1..(n-1) : NewId(k) \in Id
  BY IdsFit
<1> HIDE DEF n
<1>3. \A k \in 1..(n-1) : Line(NewId(k), lines[k]) \in PastLine(Char)
  <2> TAKE k \in 1..(n-1)
  <2>1. k \in 1..n
    BY <1>1
  <2> QED BY <1>1, <1>2, <2>1 DEF Line, PastLine
<1>4. Ended(lines, n - 1) \in Seq(PastLine(Char)) /\ Len(Ended(lines, n - 1)) = n - 1
  <2>1. n - 1 \in Nat
    BY <1>1
  <2> QED BY <1>3, <2>1 DEF Ended
<1>5. PastAfter(past, lines, n - 1) \in Seq(PastLine(Char))
  BY <1>4, ConcatProperties DEF PastAfter
<1>6. lines[n] \in Seq(Char)
  BY <1>1
<1>7. Typed(past, lines) = Copy(lines[n], PastAfter(past, lines, n - 1))
  BY DEF Typed, PastAfter, Ended, n
<1> QED BY <1>4, <1>5, <1>6, <1>7 DEF Copy, CopyOf, PastLine, n

LEMMA OtherPlays ==
  ASSUME NEW copy, NEW offset \in {CoPlaySound, CoIgnore}
  PROVE  /\ <<Chunk(offset, <<>>)>> \in Seq(Chunks)
         /\ PlayAll(copy, <<Chunk(offset, <<>>)>>) = copy
<1> DEFINE chunk == Chunk(offset, <<>>)
<1>1. chunk \in Chunks
  <2>1. <<>> \in SeqOf(Char, MaxLen)
    <3>1. <<>> \in Seq(Char) /\ Len(<<>>) <= MaxLen
      BY BoundsAreNat
    <3> QED BY <3>1, SeqOfIs, BoundsAreNat
  <2> QED BY <2>1 DEF Chunk, Chunks
<1>2. offset \in Int /\ offset < CoNewline
  BY DEF CoPlaySound, CoIgnore, CoNewline
<1>3. ProcessLiveChunk(copy, chunk) = copy
  BY <1>2, ChunkPlays
<1> HIDE DEF chunk
<1>4. /\ <<chunk>> \in Seq(Chunks) /\ <<chunk>> # <<>>
      /\ Head(<<chunk>>) = chunk /\ Tail(<<chunk>>) = <<>>
  BY <1>1
<1>5. PlayAll(copy, <<chunk>>) = PlayAll(copy, <<>>)
  BY <1>3, <1>4, PlayFirst
<1> QED BY <1>4, <1>5, PlayNone DEF chunk

(* What an edit's chunks make of a copy that agrees with the text edited.  *)

LEMMA CutAgrees ==
  ASSUME NEW old \in Words, NEW new \in Text, NEW p \in Nat, SameUpTo(old, new, p),
         NEW live \in Seq(Glyphs)
  PROVE  /\ live = old => CutAt(live, p) = SubSeq(new, 1, p)
         /\ live = <<>> \/ AgreeWhereKnown(live, old) =>
              \A i \in 1..p : CutAt(live, p)[i] # Fill => CutAt(live, p)[i] = SubSeq(new, 1, p)[i]
<1> DEFINE cut == CutAt(live, p)
           true == SubSeq(new, 1, p)
<1>1. /\ cut \in Seq(Glyphs) /\ Len(cut) = p
      /\ \A i \in 1..p : cut[i] = IF i <= Len(live) THEN live[i] ELSE Fill
  BY CutFills
<1>2. true \in Words /\ Len(true) = p /\ \A i \in 1..p : true[i] = new[i]
  BY EditedLines
<1>3. true \in Seq(Glyphs)
  BY <1>2, SeqMonotonic DEF Words, Glyphs
<1>4. Len(old) \in Nat /\ p <= Len(old) /\ \A i \in 1..p : old[i] = new[i]
  BY LenProperties DEF Words, SameUpTo
<1>5. Len(live) \in Nat /\ DOMAIN live = 1..Len(live)
  BY LenProperties
<1> HIDE DEF cut, true
<1>6. ASSUME live = old
      PROVE  cut = true
  <2>1. \A i \in 1..Len(cut) : cut[i] = true[i]
    <3> TAKE i \in 1..Len(cut)
    <3>1. i \in 1..p /\ i <= Len(live)
      BY <1>1, <1>4, <1>6
    <3> QED BY <1>1, <1>2, <1>4, <1>6, <3>1
  <2> QED BY <1>1, <1>2, <1>3, <2>1, SeqEqual
<1>7. ASSUME live = <<>> \/ AgreeWhereKnown(live, old), NEW i \in 1..p, cut[i] # Fill
      PROVE  cut[i] = true[i]
  <2>1. i <= Len(live) /\ cut[i] = live[i]
    BY <1>1, <1>7
  <2>2. i \in DOMAIN live /\ live # <<>>
    <3>1. i \in 1..Len(live)
      BY <1>5, <2>1
    <3>2. live # <<>>
      BY <2>1, EmptySeq
    <3> QED BY <1>5, <3>1, <3>2
  <2>3. live[i] = old[i]
    BY <1>7, <2>1, <2>2 DEF AgreeWhereKnown
  <2> QED BY <1>2, <1>4, <2>1, <2>3
<1> QED BY <1>6, <1>7 DEF cut, true

(* One more text at the end of two that agree.                             *)
LEMMA AgreeFurther ==
  ASSUME NEW a \in Letters, NEW b \in Letters, NEW word \in Letters, Len(a) = Len(b),
         \A i \in 1..Len(a) : a[i] # Fill => a[i] = b[i]
  PROVE  AgreeWhereKnown(a \o word, b \o word)
<1> DEFINE x == a \o word
           y == b \o word
<1>1. Len(a) \in Nat /\ Len(word) \in Nat
  BY LenProperties DEF Letters
<1>2. /\ x \in Seq(Glyphs) /\ Len(x) = Len(a) + Len(word)
      /\ \A i \in 1..(Len(a) + Len(word)) : x[i] = IF i <= Len(a) THEN a[i] ELSE word[i - Len(a)]
  BY ConcatProperties DEF Letters
<1>3. /\ Len(y) = Len(b) + Len(word)
      /\ \A i \in 1..(Len(b) + Len(word)) : y[i] = IF i <= Len(b) THEN b[i] ELSE word[i - Len(b)]
  BY ConcatProperties DEF Letters
<1> HIDE DEF x, y
<1>4. DOMAIN x = 1..(Len(a) + Len(word))
  BY <1>2, LenProperties
<1>5. ASSUME NEW i \in 1..(Len(a) + Len(word)), x[i] # Fill
      PROVE  x[i] = y[i]
  <2>1. CASE i <= Len(a)
    <3>1. i \in 1..Len(a)
      BY <1>1, <2>1
    <3> QED BY <1>2, <1>3, <1>5, <2>1, <3>1
  <2>2. CASE ~(i <= Len(a))
    BY <1>2, <1>3, <2>2
  <2> QED BY <2>1, <2>2
<1>6. Len(x) = Len(y)
  BY <1>2, <1>3
<1> QED BY <1>4, <1>5, <1>6 DEF AgreeWhereKnown, x, y

(* The part of a past that starts within it, after more lines.             *)
LEMMA RestOfMore ==
  ASSUME NEW P, NEW past \in Seq(P), NEW more \in Seq(P), NEW s \in 0..Len(past)
  PROVE  /\ SubSeq(past, s + 1, Len(past)) \in Seq(P)
         /\ Len(SubSeq(past, s + 1, Len(past))) = Len(past) - s
         /\ SubSeq(past \o more, s + 1, Len(past \o more)) = SubSeq(past, s + 1, Len(past)) \o more
<1> DEFINE both == past \o more
           rest == SubSeq(past, s + 1, Len(past))
           a == SubSeq(both, s + 1, Len(both))
           b == rest \o more
<1>1. Len(past) \in Nat /\ Len(more) \in Nat /\ s \in Nat /\ s <= Len(past)
  BY LenProperties
<1>2. /\ both \in Seq(P) /\ Len(both) = Len(past) + Len(more)
      /\ \A i \in 1..(Len(past) + Len(more)) :
           both[i] = IF i <= Len(past) THEN past[i] ELSE more[i - Len(past)]
  BY ConcatProperties
<1> HIDE DEF both
<1>3. /\ rest \in Seq(P) /\ Len(rest) = Len(past) - s
      /\ \A i \in 1..(Len(past) - s) : rest[i] = past[s + i]
  <2>1. s + 1 \in 1..Len(past)+1 /\ Len(past) \in 0..Len(past)
    BY <1>1
  <2>2. /\ rest \in Seq(P)
        /\ Len(rest) = IF s + 1 <= Len(past) THEN Len(past) - (s + 1) + 1 ELSE 0
        /\ \A i \in 1..(Len(past) - (s + 1) + 1) : rest[i] = past[(s + 1) + i - 1]
    BY <2>1, Part
  <2> HIDE DEF rest
  <2>3. Len(rest) = Len(past) - s
    BY <1>1, <2>2
  <2>4. \A i \in 1..(Len(past) - s) :
          i \in 1..(Len(past) - (s + 1) + 1) /\ (s + 1) + i - 1 = s + i
    BY <1>1
  <2> QED BY <2>2, <2>3, <2>4
<1> HIDE DEF rest
<1>4. /\ a \in Seq(P) /\ Len(a) = Len(both) - s
      /\ \A i \in 1..(Len(both) - s) : a[i] = both[s + i]
  <2>1. s + 1 \in 1..Len(both)+1 /\ Len(both) \in 0..Len(both)
    BY <1>1, <1>2
  <2>2. /\ a \in Seq(P)
        /\ Len(a) = IF s + 1 <= Len(both) THEN Len(both) - (s + 1) + 1 ELSE 0
        /\ \A i \in 1..(Len(both) - (s + 1) + 1) : a[i] = both[(s + 1) + i - 1]
    BY <1>2, <2>1, Part
  <2> HIDE DEF a
  <2>3. Len(a) = Len(both) - s
    BY <1>1, <1>2, <2>2
  <2>4. \A i \in 1..(Len(both) - s) :
          i \in 1..(Len(both) - (s + 1) + 1) /\ (s + 1) + i - 1 = s + i
    BY <1>1, <1>2
  <2> QED BY <2>2, <2>3, <2>4
<1>5. /\ b \in Seq(P) /\ Len(b) = Len(rest) + Len(more)
      /\ \A i \in 1..(Len(rest) + Len(more)) :
           b[i] = IF i <= Len(rest) THEN rest[i] ELSE more[i - Len(rest)]
  BY <1>3, ConcatProperties
<1> HIDE DEF a, b
<1>6. ASSUME NEW i \in 1..Len(a)
      PROVE  a[i] = b[i]
  <2>1. a[i] = both[s + i] /\ s + i \in 1..(Len(past) + Len(more)) /\ i \in 1..(Len(rest) + Len(more))
    BY <1>1, <1>2, <1>3, <1>4
  <2>2. CASE i <= Len(rest)
    <3>1. s + i <= Len(past) /\ i \in 1..(Len(past) - s)
      BY <1>1, <1>3, <2>2
    <3> QED BY <1>2, <1>3, <1>5, <2>1, <2>2, <3>1
  <2>3. CASE ~(i <= Len(rest))
    <3>1. ~(s + i <= Len(past)) /\ (s + i) - Len(past) = i - Len(rest)
      BY <1>1, <1>3, <2>3
    <3> QED BY <1>2, <1>5, <2>1, <2>3, <3>1
  <2> QED BY <2>2, <2>3
<1>7. Len(a) = Len(b)
  BY <1>1, <1>2, <1>3, <1>4, <1>5
<1>8. a = b
  BY <1>4, <1>5, <1>6, <1>7, SeqEqual
<1> QED BY <1>3, <1>8 DEF a, b, rest, both

LEMMA EndedLetters ==
  ASSUME NEW n \in Nat \ {0}, NEW lines \in Seq(Letters), Len(lines) = n,
         \A k \in 1..(n - 1) : NewId(k) \in Id
  PROVE  /\ Ended(lines, n - 1) \in Seq(PastLine(Glyphs))
         /\ Len(Ended(lines, n - 1)) = n - 1
         /\ \A k \in 1..(n - 1) : Ended(lines, n - 1)[k] = Line(NewId(k), lines[k])
<1>1. n - 1 \in Nat
  OBVIOUS
<1>2. \A k \in 1..(n - 1) : Line(NewId(k), lines[k]) \in PastLine(Glyphs)
  <2> TAKE k \in 1..(n - 1)
  <2>1. lines[k] \in Seq(Glyphs)
    <3>1. k \in 1..Len(lines)
      OBVIOUS
    <3> QED BY <3>1, ElementOfSeq DEF Letters
  <2> QED BY <2>1 DEF Line, PastLine
<1> QED BY <1>1, <1>2 DEF Ended

LEMMA EditAgrees ==
  ASSUME edits \in 0..MaxEdits,
         NEW old \in Words, NEW new \in Text, Len(new) <= MaxLen,
         NEW p \in Nat, SameUpTo(old, new, p),
         NEW past \in Seq(PastLine(Char)), NEW s \in 0..Len(past),
         NEW seen \in CopyOf(Glyphs), NEW untouched \in BOOLEAN,
         Agrees(seen, old, SubSeq(past, s + 1, Len(past)), untouched),
         NEW now, now = Typed(past, Lines(new))
  PROVE  Agrees(PlayAll(seen, LineChunks(p, Split(new)[Len(new) - p])),
                now.live, SubSeq(now.past, s + 1, Len(now.past)), FALSE)
<1> DEFINE P == PastLine(Glyphs)
           m == Len(new) - p
           rest == Split(new)[m]
           n == Len(rest)
           cut == CutAt(seen.live, p)
           true == SubSeq(new, 1, p)
           G == Glue(cut, rest)
           H == Glue(true, rest)
           ended == SubSeq(past, s + 1, Len(past))
           seenEnds == Ended(G, n - 1)
           trueEnds == Ended(H, n - 1)
           after == PlayAll(seen, LineChunks(p, rest))
           endedNow == SubSeq(now.past, s + 1, Len(now.past))
<1>1. /\ LinesOf(rest, m) /\ m \in Nat
      /\ true \in Words /\ Len(true) = p /\ Lines(new) = H
  BY EditedLines
<1>2. m <= MaxLen
  BY LenProperties, BoundsAreNat DEF Text
<1> HIDE DEF m, true, rest
<1>3. rest # <<>> /\ rest \in Seq(Words) /\ n \in Nat \ {0}
  BY <1>1, LinesNotEmpty
<1>4. \A k \in 1..(n - 1) : NewId(k) \in Id
  BY <1>1, <1>2, IdsFit
<1>5. seen.live \in Seq(Glyphs) /\ seen.past \in Seq(P)
  BY DEF CopyOf, PastLine
<1>6. cut \in Letters /\ Len(cut) = p
  BY <1>5, CutFills DEF Letters
<1>7. true \in Letters /\ rest \in Seq(Letters) /\ past \in Seq(P)
  <2>1. Words \subseteq Letters
    BY SeqMonotonic DEF Words, Letters, Glyphs
  <2>2. PastLine(Char) \subseteq P
    BY <2>1 DEF PastLine, Words, Letters
  <2>3. true \in Letters
    BY <1>1, <2>1
  <2>4. rest \in Seq(Letters)
    BY <1>3, <2>1, SeqMonotonic
  <2> HIDE DEF P
  <2>5. past \in Seq(P)
    BY <2>2, SeqMonotonic
  <2> QED BY <2>3, <2>4, <2>5
<1>8. /\ G \in Seq(Letters) /\ Len(G) = n /\ G[1] = cut \o rest[1]
      /\ \A k \in 2..n : G[k] = rest[k]
  BY <1>3, <1>6, <1>7, GlueLetters
<1>9. /\ H \in Seq(Letters) /\ Len(H) = n /\ H[1] = true \o rest[1]
      /\ \A k \in 2..n : H[k] = rest[k]
  BY <1>3, <1>7, GlueLetters
<1>10. after = Typed(seen.past, G)
  BY <1>1, <1>4, LinesArePlayed
<1> HIDE DEF n, G, H, P, after
<1>11. after.live = G[n] /\ after.past = seen.past \o seenEnds
  BY <1>8, <1>10 DEF Typed, Copy, Ended
<1>12. now.live = H[n] /\ now.past = past \o trueEnds
  BY <1>1, <1>9 DEF Typed, Copy, Ended
<1>13. /\ seenEnds \in Seq(P) /\ Len(seenEnds) = n - 1
       /\ \A k \in 1..(n - 1) : seenEnds[k] = Line(NewId(k), G[k])
  BY <1>3, <1>4, <1>8, EndedLetters DEF P
<1>14. /\ trueEnds \in Seq(P) /\ Len(trueEnds) = n - 1
       /\ \A k \in 1..(n - 1) : trueEnds[k] = Line(NewId(k), H[k])
  BY <1>3, <1>4, <1>9, EndedLetters DEF P
<1> HIDE DEF seenEnds, trueEnds
<1>15. ended \in Seq(P) /\ endedNow = ended \o trueEnds
  BY <1>7, <1>12, <1>14, RestOfMore
<1>16. Agrees(seen, old, ended, untouched)
  OBVIOUS
<1> HIDE DEF ended, endedNow
<1>17. /\ Len(seen.past) \in Nat /\ Len(ended) = Len(seen.past)
       /\ Len(after.past) = Len(seen.past) + (n - 1)
       /\ \A k \in 1..(Len(seen.past) + (n - 1)) :
            after.past[k] = IF k <= Len(seen.past) THEN seen.past[k] ELSE seenEnds[k - Len(seen.past)]
  <2>1. Len(seen.past) \in Nat
    BY <1>5, LenProperties
  <2>2. Len(ended) = Len(seen.past)
    BY <1>16 DEF Agrees
  <2> DEFINE both == seen.past \o seenEnds
  <2>3. /\ Len(both) = Len(seen.past) + Len(seenEnds)
        /\ \A k \in 1..(Len(seen.past) + Len(seenEnds)) :
             both[k] = IF k <= Len(seen.past) THEN seen.past[k] ELSE seenEnds[k - Len(seen.past)]
    BY <1>5, <1>13, ConcatProperties
  <2>4. after.past = both /\ Len(seenEnds) = n - 1
    BY <1>11, <1>13
  <2> HIDE DEF both
  <2> QED BY <2>1, <2>2, <2>3, <2>4
<1>18. /\ Len(endedNow) = Len(ended) + (n - 1)
       /\ \A k \in 1..(Len(ended) + (n - 1)) :
            endedNow[k] = IF k <= Len(ended) THEN ended[k] ELSE trueEnds[k - Len(ended)]
  <2> DEFINE both == ended \o trueEnds
  <2>1. /\ Len(both) = Len(ended) + Len(trueEnds)
        /\ \A k \in 1..(Len(ended) + Len(trueEnds)) :
             both[k] = IF k <= Len(ended) THEN ended[k] ELSE trueEnds[k - Len(ended)]
    BY <1>14, <1>15, ConcatProperties
  <2>2. endedNow = both /\ Len(trueEnds) = n - 1
    BY <1>14, <1>15
  <2> HIDE DEF both
  <2> QED BY <2>1, <2>2
<1>19. seen.past # <<>> => \A k \in 1..n : G[k] = H[k]
  <2> SUFFICES ASSUME seen.past # <<>>, NEW k \in 1..n
               PROVE  G[k] = H[k]
    OBVIOUS
  <2>1. seen.live = old
    BY <1>16 DEF Agrees
  <2>2. cut = true
    BY <1>5, <2>1, CutAgrees DEF true
  <2> QED BY <2>2 DEF G, H
<1>20. Len(after.past) = Len(endedNow)
  BY <1>17, <1>18
<1>21. ASSUME NEW k \in 2..Len(after.past)
       PROVE  after.past[k] = endedNow[k]
  <2>1. k \in 1..(Len(seen.past) + (n - 1))
    BY <1>3, <1>17
  <2>2. CASE k <= Len(seen.past)
    <3>1. k \in 2..Len(seen.past)
      BY <1>17, <2>2
    <3>2. seen.past[k] = ended[k]
      BY <1>16, <3>1 DEF Agrees
    <3> QED BY <1>17, <1>18, <2>1, <2>2, <3>2
  <2>3. CASE ~(k <= Len(seen.past))
    <3> DEFINE j == k - Len(seen.past)
    <3>1. j \in 1..(n - 1) /\ j \in 1..n
      BY <1>3, <1>17, <2>1, <2>3
    <3>2. after.past[k] = seenEnds[j] /\ endedNow[k] = trueEnds[j]
      BY <1>17, <1>18, <2>1, <2>3
    <3>3. G[j] = H[j]
      <4>1. CASE j = 1
        <5>1. Len(seen.past) # 0
          BY <1>17, <4>1
        <5>2. seen.past # <<>>
          BY <5>1, EmptySeq
        <5> QED BY <1>19, <3>1, <5>2
      <4>2. CASE j # 1
        <5>1. j \in 2..n
          BY <3>1, <4>2
        <5> QED BY <1>8, <1>9, <5>1
      <4> QED BY <4>1, <4>2
    <3> HIDE DEF j
    <3> QED BY <1>13, <1>14, <3>1, <3>2, <3>3
  <2> QED BY <2>2, <2>3
<1>22. ASSUME after.past # <<>>
       PROVE  after.live = now.live
  <2>1. CASE n = 1
    <3>1. seen.past # <<>>
      <4>1. seenEnds = <<>>
        BY <1>13, <2>1, EmptySeq
      <4>2. seen.past \o <<>> = seen.past
        BY <1>5, ConcatEmptySeq
      <4> QED BY <1>11, <1>22, <4>1, <4>2
    <3> QED BY <1>3, <1>11, <1>12, <1>19, <3>1
  <2>2. CASE n # 1
    <3>1. n \in 2..n
      BY <1>3, <2>2
    <3> QED BY <1>8, <1>9, <1>11, <1>12, <3>1
  <2> QED BY <2>1, <2>2
<1>23. ASSUME after.past = <<>>
       PROVE  AgreeWhereKnown(after.live, now.live)
  <2>1. Len(after.past) = 0
    BY <1>23, EmptySeq
  <2>2. n = 1 /\ Len(seen.past) = 0
    BY <1>3, <1>17, <2>1
  <2>3. seen.past = <<>>
    BY <1>5, <2>2, EmptySeq
  <2>4. seen.live = <<>> \/ AgreeWhereKnown(seen.live, old)
    BY <1>16, <2>3 DEF Agrees, Empty, Copy
  <2>5. \A i \in 1..p : cut[i] # Fill => cut[i] = true[i]
    BY <1>5, <2>4, CutAgrees DEF true
  <2>6. rest[1] \in Letters
    <3>1. 1 \in 1..Len(rest)
      BY <2>2 DEF n
    <3> QED BY <1>7, <3>1, ElementOfSeq
  <2> HIDE DEF cut
  <2>7. AgreeWhereKnown(cut \o rest[1], true \o rest[1])
    BY <1>1, <1>6, <1>7, <2>5, <2>6, AgreeFurther
  <2> QED BY <1>8, <1>9, <1>11, <1>12, <2>2, <2>7
<1>24. Agrees(after, now.live, endedNow, FALSE)
  BY <1>20, <1>21, <1>22, <1>23 DEF Agrees
<1> QED BY <1>24 DEF after, endedNow, rest, m

(* The steps.                                                              *)

LEMMA TextsAre ==
  ASSUME NEW new \in Texts
  PROVE  new \in Text /\ Len(new) \in Nat /\ Len(new) <= MaxLen
<1>1. new \in Text /\ Len(new) <= MaxLen
  BY SeqOfIs, BoundsAreNat DEF Texts, Text
<1> QED BY <1>1, LenProperties DEF Text

LEMMA TypedIs ==
  ASSUME TypeOK
  PROVE  /\ typed.live \in Words /\ typed.past \in Seq(PastLine(Char))
         /\ typed = Copy(typed.live, typed.past)
         /\ typed \in CopyOf(Glyphs)
<1>1. typed.live \in Seq(Char) /\ typed.past \in Seq(PastLine(Char)) /\ typed = Copy(typed.live, typed.past)
  BY DEF TypeOK, CopyOf, PastLine, Copy
<1>2. Seq(Char) \subseteq Seq(Glyphs)
  BY SeqMonotonic DEF Glyphs
<1>3. PastLine(Char) \subseteq PastLine(Glyphs)
  BY <1>2 DEF PastLine
<1>4. typed.live \in Seq(Glyphs) /\ typed.past \in Seq(PastLine(Glyphs))
  BY <1>1, <1>2, <1>3, SeqMonotonic
<1>5. Copy(typed.live, typed.past) \in CopyOf(Glyphs)
  BY <1>4, CopyTyped
<1> QED BY <1>1, <1>5 DEF Words

(* Where the edit changed nothing there is nothing to send.                *)
LEMMA NothingSent ==
  ASSUME TypeOK
  PROVE  Typed(typed.past, Lines(typed.live)) = typed
<1> DEFINE lines == <<typed.live>>
<1>1. Lines(typed.live) = lines
  BY TypedIs, SameLines
<1>2. Len(lines) = 1 /\ lines[1] = typed.live
  OBVIOUS
<1> HIDE DEF lines
<1>3. Typed(typed.past, lines) = Copy(lines[1], typed.past \o Ended(lines, 0))
  BY <1>2 DEF Typed, Ended
<1>4. typed.past \o Ended(lines, 0) = typed.past
  BY TypedIs, EndedNone DEF PastAfter
<1> QED BY <1>1, <1>2, <1>3, <1>4, TypedIs

LEMMA SomethingSent ==
  ASSUME TypeOK, edits < MaxEdits, NEW new \in Texts,
         NEW p \in Nat, SameUpTo(typed.live, new, p)
  PROVE  /\ LineChunks(p, Split(new)[Len(new) - p]) \in Seq(Chunks)
         /\ LineChunks(p, Split(new)[Len(new) - p]) # <<>>
         /\ LineChunks(p, Split(new)[Len(new) - p])[1].offset = p
         /\ PlayAll(typed, LineChunks(p, Split(new)[Len(new) - p])) = Typed(typed.past, Lines(new))
         /\ Typed(typed.past, Lines(new)) \in CopyOf(Char)
         /\ Len(typed.past) <= Len(Typed(typed.past, Lines(new)).past)
<1> DEFINE m == Len(new) - p
           rest == Split(new)[m]
           true == SubSeq(new, 1, p)
           sent == LineChunks(p, rest)
           lines == Lines(new)
<1>1. edits \in 0..MaxEdits
  BY DEF TypeOK
<1>2. new \in Text /\ Len(new) \in Nat /\ Len(new) <= MaxLen
  BY TextsAre
<1>3. /\ typed.live \in Words /\ typed.past \in Seq(PastLine(Char)) /\ typed \in CopyOf(Glyphs)
      /\ typed.live \in Seq(Glyphs)
  <2>1. Seq(Char) \subseteq Seq(Glyphs)
    BY SeqMonotonic DEF Glyphs
  <2> QED BY <2>1, TypedIs DEF Words
<1>4. /\ LinesOf(rest, m) /\ m \in Nat /\ lines = Glue(true, rest)
  BY <1>2, <1>3, EditedLines
<1>5. m <= MaxLen /\ p <= MaxLen
  BY <1>2, BoundsAreNat DEF SameUpTo
<1>6. LinesOf(lines, Len(new))
  BY <1>2, SplitLines DEF Lines
<1> HIDE DEF m, rest, true, lines
<1>7. sent \in Seq(Chunks)
  BY <1>1, <1>4, <1>5, LineChunksTyped
<1>8. sent # <<>> /\ sent[1].offset = p
  <2>1. Len(rest) \in Nat \ {0}
    BY <1>4 DEF LinesOf
  <2>2. 1 \in 1..(2 * Len(rest) - 1)
    BY <2>1
  <2>3. sent[1] = Chunk(p, rest[1]) /\ 1 \in DOMAIN sent
    BY <2>2 DEF LineChunks
  <2> HIDE DEF sent
  <2> QED BY <2>3 DEF Chunk
<1>9. PlayAll(typed, sent) = Typed(typed.past, lines)
  <2>1. \A k \in 1..(Len(rest) - 1) : NewId(k) \in Id
    BY <1>1, <1>4, <1>5, IdsFit
  <2>2. CutAt(typed.live, p) = true
    BY <1>2, <1>3, CutAgrees DEF true
  <2>3. PlayAll(typed, sent) = Typed(typed.past, Glue(CutAt(typed.live, p), rest))
    BY <1>3, <1>4, <2>1, LinesArePlayed
  <2> QED BY <1>4, <2>2, <2>3
<1>10. /\ Typed(typed.past, lines) = Copy(lines[Len(lines)], PastAfter(typed.past, lines, Len(lines) - 1))
       /\ Typed(typed.past, lines) \in CopyOf(Char)
       /\ Ended(lines, Len(lines) - 1) \in Seq(PastLine(Char))
       /\ Len(Ended(lines, Len(lines) - 1)) = Len(lines) - 1
  BY <1>1, <1>2, <1>3, <1>6, LinesTyped
<1>11. Len(typed.past) <= Len(Typed(typed.past, lines).past)
  <2> DEFINE ends == Ended(lines, Len(lines) - 1)
  <2>1. Len(lines) \in Nat \ {0}
    BY <1>6 DEF LinesOf
  <2>2. ends \in Seq(PastLine(Char)) /\ Len(ends) \in Nat
    BY <1>10, <2>1
  <2>3. Typed(typed.past, lines).past = typed.past \o ends
    <3>1. Typed(typed.past, lines) = Copy(lines[Len(lines)], typed.past \o ends)
      BY <1>10 DEF PastAfter
    <3>2. \A live, past : Copy(live, past).past = past
      BY DEF Copy
    <3> HIDE DEF ends
    <3> QED BY <3>1, <3>2
  <2> HIDE DEF ends
  <2>4. Len(typed.past \o ends) = Len(typed.past) + Len(ends) /\ Len(typed.past) \in Nat
    BY <1>3, <2>2, ConcatProperties, LenProperties
  <2> QED BY <2>2, <2>3, <2>4
<1> QED BY <1>7, <1>8, <1>9, <1>10, <1>11 DEF sent, rest, m, lines

LEMMA QueuePlayed ==
  ASSUME NEW copy, NEW queue \in Seq(Chunks), NEW sent \in Seq(Chunks)
  PROVE  queue \o sent \in Seq(Chunks) /\ PlayAll(copy, queue \o sent) = PlayAll(PlayAll(copy, queue), sent)
BY PlayConcat, ConcatProperties

LEMMA EditKeeps ==
  ASSUME IInv, NEW new \in Texts, Edit(new)
  PROVE  IInv'
<1> DEFINE sent == DiffLines(typed.live, new)
           now == Typed(typed.past, Lines(new))
<1>1. TypeOK /\ ServerInStep /\ LateInStep
  BY DEF IInv
<1>2. /\ edits < MaxEdits /\ edits' = edits + 1
      /\ chunks' = chunks \o sent /\ tail' = IF attached THEN tail \o sent ELSE tail
      /\ typed' = now
      /\ UNCHANGED <<server, late, attached, since, synced, others>>
  BY DEF Edit, Publish
<1>3. /\ typed.live \in Words /\ typed \in CopyOf(Char)
      /\ chunks \in Seq(Chunks) /\ tail \in Seq(Chunks)
      /\ server \in CopyOf(Glyphs) /\ late \in CopyOf(Glyphs)
      /\ attached \in BOOLEAN /\ synced \in BOOLEAN
      /\ since \in 0..Len(typed.past) /\ Len(typed.past) \in Nat
      /\ edits \in 0..MaxEdits /\ others \in 0..MaxOther
  <2>1. Len(typed.past) \in Nat
    BY <1>1, TypedIs, LenProperties
  <2> QED BY <1>1, <2>1, TypedIs DEF TypeOK
<1>4. new \in Text /\ Len(new) \in Nat /\ Len(new) <= MaxLen
  BY TextsAre
<1>5. \/ new = typed.live /\ sent = <<>>
      \/ \E p \in Nat : SameUpTo(typed.live, new, p) /\ sent = LineChunks(p, Split(new)[Len(new) - p])
  BY <1>3, <1>4, DiffIs
<1>6. edits' \in 0..MaxEdits
  BY <1>2, <1>3, BoundsAreNat
<1> HIDE DEF sent, now
<1>7. CASE new = typed.live /\ sent = <<>>
  <2>1. typed' = typed
    BY <1>1, <1>2, <1>7, NothingSent DEF now
  <2>2. chunks' = chunks /\ tail' = tail
    BY <1>2, <1>3, <1>7, ConcatEmptySeq
  <2>3. TypeOK'
    BY <1>1, <1>2, <1>6, <2>1, <2>2 DEF TypeOK
  <2>4. ServerInStep'
    BY <1>1, <1>2, <2>1, <2>2 DEF ServerInStep
  <2>5. LateInStep'
    BY <1>1, <1>2, <2>1, <2>2 DEF LateInStep, EndedSince, Untouched
  <2> QED BY <2>3, <2>4, <2>5 DEF IInv
<1>8. ASSUME NEW p \in Nat, SameUpTo(typed.live, new, p),
             sent = LineChunks(p, Split(new)[Len(new) - p])
      PROVE  IInv'
  <2>1. /\ sent \in Seq(Chunks) /\ sent # <<>> /\ sent[1].offset = p
        /\ PlayAll(typed, sent) = now /\ now \in CopyOf(Char)
        /\ Len(typed.past) <= Len(now.past)
    BY <1>1, <1>2, <1>8, SomethingSent DEF now
  <2>2. chunks \o sent \in Seq(Chunks) /\ tail \o sent \in Seq(Chunks)
    BY <1>3, <2>1, QueuePlayed
  <2>3. TypeOK'
    <3>1. since \in 0..Len(now.past)
      <4>1. now.past \in Seq(PastLine(Char))
        BY <2>1 DEF CopyOf, PastLine
      <4>2. Len(now.past) \in Nat
        BY <4>1, LenProperties
      <4> QED BY <1>3, <2>1, <4>2
    <3> QED BY <1>2, <1>3, <1>6, <2>1, <2>2, <3>1 DEF TypeOK
  <2>4. ServerInStep'
    <3>1. PlayAll(server, chunks \o sent) = PlayAll(PlayAll(server, chunks), sent)
      BY <1>3, <2>1, QueuePlayed
    <3>2. PlayAll(server, chunks) = typed
      BY <1>1 DEF ServerInStep
    <3> QED BY <1>2, <2>1, <3>1, <3>2 DEF ServerInStep
  <2>5. LateInStep'
    <3>1. CASE ~attached
      BY <1>1, <1>2, <3>1 DEF LateInStep
    <3>2. CASE attached
      <4> DEFINE seen == PlayAll(late, tail)
      <4>1. Agrees(seen, typed.live, SubSeq(typed.past, since + 1, Len(typed.past)), Untouched)
        BY <1>1, <3>2 DEF LateInStep, EndedSince
      <4>2. seen \in CopyOf(Glyphs)
        BY <1>3, AllChunksTyped
      <4>3. PlayAll(late, tail \o sent) = PlayAll(seen, sent)
        BY <1>3, <2>1, QueuePlayed
      <4> HIDE DEF seen
      <4>4. Untouched \in BOOLEAN
        BY DEF Untouched
      <4>5. typed.past \in Seq(PastLine(Char))
        BY <1>1, TypedIs
      <4>6. Agrees(PlayAll(seen, sent), now.live, SubSeq(now.past, since + 1, Len(now.past)), FALSE)
        BY <1>3, <1>4, <1>8, <4>1, <4>2, <4>4, <4>5, EditAgrees DEF now
      <4>7. Untouched' = FALSE
        <5>1. /\ Len(tail) \in Nat /\ Len(sent) \in Nat \ {0}
              /\ Len(tail \o sent) = Len(tail) + Len(sent)
              /\ \A i \in 1..(Len(tail) + Len(sent)) :
                   (tail \o sent)[i] = IF i <= Len(tail) THEN tail[i] ELSE sent[i - Len(tail)]
          BY <1>3, <2>1, ConcatProperties, LenProperties, EmptySeq
        <5> DEFINE i == Len(tail) + 1
        <5>2. i \in 1..Len(tail \o sent) /\ (tail \o sent)[i] = sent[1]
          <6>1. i \in 1..(Len(tail) + Len(sent)) /\ ~(i <= Len(tail)) /\ i - Len(tail) = 1
            BY <5>1
          <6> QED BY <5>1, <6>1
        <5> HIDE DEF i
        <5>3. tail' = tail \o sent
          BY <1>2, <3>2
        <5>4. i \in 1..Len(tail') /\ tail'[i].offset = p /\ ~(p < CoNewline)
          BY <2>1, <5>2, <5>3 DEF CoNewline
        <5> QED BY <5>4 DEF Untouched
      <4>8. EndedSince' = SubSeq(now.past, since + 1, Len(now.past))
        BY <1>2 DEF EndedSince
      <4> QED BY <1>2, <3>2, <4>3, <4>6, <4>7, <4>8 DEF LateInStep
    <3> QED BY <1>3, <3>1, <3>2
  <2> QED BY <2>3, <2>4, <2>5 DEF IInv
<1> QED BY <1>5, <1>7, <1>8

LEMMA InitHolds ==
  ASSUME Init
  PROVE  IInv
<1>1. Empty \in CopyOf(Char) /\ Empty \in CopyOf(Glyphs) /\ Empty.past = <<>> /\ Len(Empty.past) = 0
  BY DEF Empty, Copy, CopyOf
<1>2. <<>> \in Seq(Chunks)
  OBVIOUS
<1>3. TypeOK
  <2>1. /\ typed \in CopyOf(Char) /\ server \in CopyOf(Glyphs) /\ late \in CopyOf(Glyphs)
        /\ chunks \in Seq(Chunks) /\ tail \in Seq(Chunks)
    BY <1>1, <1>2 DEF Init
  <2>2. since \in 0..Len(typed.past) /\ edits \in 0..MaxEdits /\ others \in 0..MaxOther
    BY <1>1, BoundsAreNat DEF Init
  <2>3. attached \in BOOLEAN /\ synced \in BOOLEAN
    BY DEF Init
  <2> QED BY <2>1, <2>2, <2>3 DEF TypeOK
<1>4. ServerInStep
  BY PlayNone DEF Init, ServerInStep
<1>5. LateInStep
  BY DEF Init, LateInStep
<1> QED BY <1>3, <1>4, <1>5 DEF IInv

LEMMA OtherKeeps ==
  ASSUME IInv, NEW offset \in {CoPlaySound, CoIgnore}, Other(offset)
  PROVE  IInv'
<1> DEFINE sent == <<Chunk(offset, <<>>)>>
<1>1. TypeOK /\ ServerInStep /\ LateInStep
  BY DEF IInv
<1>2. /\ others < MaxOther /\ others' = others + 1
      /\ chunks' = chunks \o sent /\ tail' = IF attached THEN tail \o sent ELSE tail
      /\ UNCHANGED <<typed, server, late, attached, since, synced, edits>>
  BY DEF Other, Publish
<1>3. sent \in Seq(Chunks) /\ \A copy : PlayAll(copy, sent) = copy
  BY OtherPlays
<1>4. Len(sent) = 1 /\ sent[1].offset < CoNewline
  BY DEF Chunk, CoNewline, CoPlaySound, CoIgnore
<1> HIDE DEF sent
<1>5. chunks \in Seq(Chunks) /\ tail \in Seq(Chunks) /\ attached \in BOOLEAN /\ others \in 0..MaxOther
  BY <1>1 DEF TypeOK
<1>6. chunks \o sent \in Seq(Chunks) /\ tail \o sent \in Seq(Chunks)
  BY <1>3, <1>5, QueuePlayed
<1>7. TypeOK'
  <2>1. others' \in 0..MaxOther
    BY <1>2, <1>5, BoundsAreNat
  <2>2. chunks' \in Seq(Chunks) /\ tail' \in Seq(Chunks)
    BY <1>2, <1>5, <1>6
  <2> QED BY <1>1, <1>2, <2>1, <2>2 DEF TypeOK
<1>8. ServerInStep'
  <2>1. PlayAll(server, chunks \o sent) = PlayAll(server, chunks)
    BY <1>3, <1>5, QueuePlayed
  <2> QED BY <1>1, <1>2, <2>1 DEF ServerInStep
<1>9. LateInStep'
  <2>1. CASE ~attached
    BY <1>1, <1>2, <2>1 DEF LateInStep
  <2>2. CASE attached
    <3>1. PlayAll(late, tail \o sent) = PlayAll(late, tail)
      BY <1>3, <1>5, QueuePlayed
    <3>2. tail' = tail \o sent
      BY <1>2, <2>2
    <3>3. Untouched' = Untouched
      <4>1. /\ Len(tail) \in Nat /\ Len(tail') = Len(tail) + 1
            /\ \A i \in 1..(Len(tail) + 1) :
                 tail'[i] = IF i <= Len(tail) THEN tail[i] ELSE sent[i - Len(tail)]
        <5> DEFINE both == tail \o sent
        <5>1. /\ Len(both) = Len(tail) + Len(sent) /\ Len(tail) \in Nat
              /\ \A i \in 1..(Len(tail) + Len(sent)) :
                   both[i] = IF i <= Len(tail) THEN tail[i] ELSE sent[i - Len(tail)]
          BY <1>3, <1>5, ConcatProperties, LenProperties
        <5>2. tail' = both
          BY <3>2
        <5> HIDE DEF both
        <5> QED BY <1>4, <5>1, <5>2
      <4>2. tail'[Len(tail) + 1] = sent[1]
        <5>1. /\ Len(tail) + 1 \in 1..(Len(tail) + 1) /\ ~(Len(tail) + 1 <= Len(tail))
              /\ (Len(tail) + 1) - Len(tail) = 1
          BY <4>1
        <5> QED BY <4>1, <5>1
      <4>3. \A i \in 1..Len(tail) : i \in 1..(Len(tail) + 1) /\ tail'[i] = tail[i]
        BY <4>1
      <4>4. \A i \in 1..Len(tail') : i \in 1..Len(tail) \/ i = Len(tail) + 1
        BY <4>1
      <4>5. Len(tail) + 1 \in 1..Len(tail')
        BY <4>1
      <4>6. (\A i \in 1..Len(tail') : tail'[i].offset < CoNewline)
              <=> (\A i \in 1..Len(tail) : tail[i].offset < CoNewline)
        BY <1>4, <4>1, <4>2, <4>3, <4>4, <4>5
      <4> QED BY <1>2, <4>6 DEF Untouched
    <3> QED BY <1>1, <1>2, <2>2, <3>1, <3>2, <3>3 DEF LateInStep, EndedSince
  <2> QED BY <1>5, <2>1, <2>2
<1> QED BY <1>7, <1>8, <1>9 DEF IInv

LEMMA PlayKeeps ==
  ASSUME IInv, Play
  PROVE  IInv'
<1>1. TypeOK /\ ServerInStep /\ LateInStep
  BY DEF IInv
<1>2. /\ chunks # <<>>
      /\ server' = ProcessLiveChunk(server, Head(chunks)) /\ chunks' = Tail(chunks)
      /\ UNCHANGED <<typed, late, tail, attached, since, synced, edits, others>>
  BY DEF Play
<1>3. server \in CopyOf(Glyphs) /\ chunks \in Seq(Chunks)
  BY <1>1 DEF TypeOK
<1>4. Head(chunks) \in Chunks /\ Tail(chunks) \in Seq(Chunks)
  BY <1>2, <1>3, HeadTailProperties
<1>5. TypeOK'
  <2>1. ProcessLiveChunk(server, Head(chunks)) \in CopyOf(Glyphs)
    BY <1>3, <1>4, OneChunkTyped
  <2> QED BY <1>1, <1>2, <1>4, <2>1 DEF TypeOK
<1>6. ServerInStep'
  <2>1. PlayAll(ProcessLiveChunk(server, Head(chunks)), Tail(chunks)) = PlayAll(server, chunks)
    BY <1>2, <1>3, PlayFirst
  <2> QED BY <1>1, <1>2, <2>1 DEF ServerInStep
<1>7. LateInStep'
  BY <1>1, <1>2 DEF LateInStep, EndedSince, Untouched
<1> QED BY <1>5, <1>6, <1>7 DEF IInv

LEMMA AttachKeeps ==
  ASSUME IInv, Attach
  PROVE  IInv'
<1>1. TypeOK /\ ServerInStep /\ LateInStep
  BY DEF IInv
<1>2. /\ ~attached /\ attached' = TRUE /\ since' = Len(typed.past)
      /\ UNCHANGED <<typed, chunks, server, late, tail, synced, edits, others>>
  BY DEF Attach
<1>3. late = Empty /\ tail = <<>> /\ ~synced
  BY <1>1, <1>2 DEF LateInStep
<1>4. Len(typed.past) \in Nat
  BY <1>1, TypedIs, LenProperties
<1>5. TypeOK'
  BY <1>1, <1>2, <1>4 DEF TypeOK
<1>6. ServerInStep'
  BY <1>1, <1>2 DEF ServerInStep
<1>7. LateInStep'
  <2>1. PlayAll(late, tail) = Empty
    BY <1>3, PlayNone
  <2>2. Untouched'
    BY <1>2, <1>3 DEF Untouched
  <2>3. EndedSince' = <<>>
    <3>1. SubSeq(typed.past, Len(typed.past) + 1, Len(typed.past)) = <<>>
      BY <1>4, SubSeqEmpty
    <3> QED BY <1>2, <3>1 DEF EndedSince
  <2>4. Empty.past = <<>> /\ Len(Empty.past) = 0
    BY DEF Empty, Copy
  <2>5. Agrees(Empty, typed.live, <<>>, TRUE)
    BY <2>4 DEF Agrees
  <2> QED BY <1>2, <2>1, <2>2, <2>3, <2>5 DEF LateInStep
<1> QED BY <1>5, <1>6, <1>7 DEF IInv

LEMMA PlayLateKeeps ==
  ASSUME IInv, PlayLate
  PROVE  IInv'
<1>1. TypeOK /\ ServerInStep /\ LateInStep
  BY DEF IInv
<1>2. /\ tail # <<>>
      /\ late' = ProcessLiveChunk(late, Head(tail)) /\ tail' = Tail(tail)
      /\ synced' = (synced \/ Head(tail).offset >= CoNewline)
      /\ UNCHANGED <<typed, chunks, server, attached, since, edits, others>>
  BY DEF PlayLate
<1>3. late \in CopyOf(Glyphs) /\ tail \in Seq(Chunks) /\ attached \in BOOLEAN /\ synced \in BOOLEAN
  BY <1>1 DEF TypeOK
<1>4. Head(tail) \in Chunks /\ Tail(tail) \in Seq(Chunks)
  BY <1>2, <1>3, HeadTailProperties
<1>5. attached
  BY <1>1, <1>2, <1>3 DEF LateInStep
<1>6. TypeOK'
  <2>1. ProcessLiveChunk(late, Head(tail)) \in CopyOf(Glyphs)
    BY <1>3, <1>4, OneChunkTyped
  <2>2. synced' \in BOOLEAN
    BY <1>2
  <2> QED BY <1>1, <1>2, <1>4, <2>1, <2>2 DEF TypeOK
<1>7. ServerInStep'
  BY <1>1, <1>2 DEF ServerInStep
<1>8. LateInStep'
  <2>1. PlayAll(ProcessLiveChunk(late, Head(tail)), Tail(tail)) = PlayAll(late, tail)
    BY <1>2, <1>3, PlayFirst
  <2>2. Untouched' = Untouched
    <3>1. /\ Len(tail) \in Nat /\ Len(tail) >= 1 /\ Len(tail') = Len(tail) - 1
          /\ Head(tail) = tail[1] /\ \A i \in 1..Len(tail') : tail'[i] = tail[i + 1]
      BY <1>2, <1>3, HeadTailProperties, LenProperties
    <3>2. Head(tail).offset \in Int /\ CoNewline \in Int
      BY <1>4, ChunkKinds DEF CoNewline
    <3>3. synced' <=> synced \/ ~(tail[1].offset < CoNewline)
      <4>1. Head(tail).offset >= CoNewline <=> ~(tail[1].offset < CoNewline)
        BY <3>1, <3>2
      <4>2. synced' = (synced \/ Head(tail).offset >= CoNewline)
        BY <1>2
      <4> QED BY <4>1, <4>2
    <3>4. (\A i \in 1..Len(tail) : tail[i].offset < CoNewline)
            <=> tail[1].offset < CoNewline /\ \A i \in 1..Len(tail') : tail'[i].offset < CoNewline
      <4>1. 1 \in 1..Len(tail)
        BY <3>1
      <4>2. \A i \in 1..Len(tail') : i + 1 \in 1..Len(tail)
        BY <3>1
      <4>3. ASSUME NEW i \in 1..Len(tail), i # 1
            PROVE  i - 1 \in 1..Len(tail') /\ (i - 1) + 1 = i
        BY <3>1, <4>3
      <4>4. \A i \in 1..Len(tail) : i # 1 => tail[i] = tail'[i - 1] /\ i - 1 \in 1..Len(tail')
        BY <3>1, <4>3
      <4> QED BY <3>1, <4>1, <4>2, <4>4
    <3> QED BY <3>3, <3>4 DEF Untouched
  <2> QED BY <1>1, <1>2, <1>5, <2>1, <2>2 DEF LateInStep, EndedSince
<1> QED BY <1>6, <1>7, <1>8 DEF IInv

LEMMA Inductive ==
  ASSUME IInv, [Next]_vars
  PROVE  IInv'
<1>1. ASSUME NEW new \in Texts, Edit(new)
      PROVE  IInv'
  BY <1>1, EditKeeps
<1>2. ASSUME NEW offset \in {CoPlaySound, CoIgnore}, Other(offset)
      PROVE  IInv'
  BY <1>2, OtherKeeps
<1>3. CASE Play
  BY <1>3, PlayKeeps
<1>4. CASE Attach
  BY <1>4, AttachKeeps
<1>5. CASE PlayLate
  BY <1>5, PlayLateKeeps
<1>6. CASE UNCHANGED vars
  BY <1>6 DEF vars, IInv, TypeOK, ServerInStep, LateInStep, EndedSince, Untouched
<1> QED BY <1>1, <1>2, <1>3, <1>4, <1>5, <1>6 DEF Next

THEOREM Invariant == Spec => []IInv
<1>1. Init => IInv
  BY InitHolds
<1>2. IInv /\ [Next]_vars => IInv'
  BY Inductive
<1> QED BY <1>1, <1>2, PTL DEF Spec

(* The copies, texts and chunks keep their types.                          *)
THEOREM TypeCorrect == Spec => []TypeOK
<1>1. IInv => TypeOK
  BY DEF IInv
<1> QED BY <1>1, Invariant, PTL

(* Once the server has played what is under way it has the text and the    *)
(* past lines of the whisperer, each under its own id (DiffLines,          *)
(* suffixToChunks, ProcessLiveChunk).                                      *)
THEOREM ServerStaysInStep == Spec => []ServerInStep
<1>1. IInv => ServerInStep
  BY DEF IInv
<1> QED BY <1>1, Invariant, PTL

(* A receiver that attached late is right wherever it has no fill          *)
(* character, and exactly right from the first line it saw begin.          *)
LEMMA LateFollows ==
  ASSUME IInv
  PROVE  LateAgrees
<1> DEFINE seen == PlayAll(late, tail)
<1>1. LateInStep /\ TypeOK
  BY DEF IInv
<1>2. CASE ~attached
  <2>1. seen = Empty
    BY <1>1, <1>2, PlayNone DEF LateInStep
  <2>2. Empty.past = <<>> /\ Len(Empty.past) = 0
    BY DEF Empty, Copy
  <2>3. ~synced
    BY <1>1, <1>2 DEF LateInStep
  <2> QED BY <1>2, <2>1, <2>2, <2>3 DEF LateAgrees
<1>3. CASE attached
  <2>1. Agrees(seen, typed.live, EndedSince, Untouched)
    BY <1>1, <1>3 DEF LateInStep
  <2>2. synced => ~Untouched
    BY DEF Untouched
  <2> HIDE DEF seen
  <2>3. /\ Len(seen.past) = Len(EndedSince)
        /\ \A k \in 2..Len(seen.past) : seen.past[k] = EndedSince[k]
        /\ seen.past # <<>> => seen.live = typed.live
        /\ synced /\ seen.past = <<>> => AgreeWhereKnown(seen.live, typed.live)
    BY <2>1, <2>2 DEF Agrees
  <2> QED BY <2>3 DEF LateAgrees, EndedSince, seen
<1> QED BY <1>2, <1>3

THEOREM LateAlwaysAgrees == Spec => []LateAgrees
<1>1. IInv => LateAgrees
  BY LateFollows
<1> QED BY <1>1, Invariant, PTL
=============================================================================

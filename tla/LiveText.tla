------------------------------ MODULE LiveText ------------------------------
(* How typed text travels (protocol/content.go): the whisperer's client turns  *)
(* each edit of its live text into chunks (DiffLines), and every receiver, the *)
(* session's server above all, plays the chunks in order against its own copy  *)
(* (ProcessLiveChunk).  One receiver is there from the start; a second one     *)
(* attaches late, as a server that takes a session over does, and plays from   *)
(* an empty text.  A text is a sequence of characters, a line break is NL.     *)
EXTENDS Integers, Sequences, SequencesExt, FiniteSetsExt

CONSTANTS Char,      \* the characters that can be typed
          NL,        \* the line break
          Fill,      \* '?', which stands for characters that were missed
          MaxLen,    \* bound: characters of an edited text
          MaxEdits,  \* bound: edits
          MaxOther   \* bound: chunks that are no edits (sounds, malformed data)

ASSUME BoundsAreNat == MaxLen \in Nat /\ MaxEdits \in Nat /\ MaxOther \in Nat
ASSUME NLIsNoChar == NL \notin Char /\ NL # Fill

CoNewline == -1
CoPlaySound == -2
CoIgnore == -1000

VARIABLES typed,   \* the whisperer's text: its live line and the lines before
          chunks,  \* published chunks the server has not played
          server,  \* the server's copy
          late,    \* the late receiver's copy
          tail,    \* chunks the late receiver has not played
          attached,\* the late receiver has attached
          since,   \* past lines there were when it attached
          synced,  \* it has played an edit since
          edits, others

vars == <<typed, chunks, server, late, tail, attached, since, synced, edits, others>>

Copy(live, past) == [live |-> live, past |-> past]
Empty == Copy(<<>>, <<>>)
Line(id, text) == [id |-> id, text |-> text]
Chunk(offset, text) == [offset |-> offset, text |-> text]

(* Playing a chunk.                                                          *)

\* A mistake: the live text is cut at the offset but not filled up to it.
ProcessNoFill(copy, chunk) ==
  CASE chunk.offset < CoNewline -> copy
    [] chunk.offset = CoNewline ->
         Copy(<<>>, Append(copy.past, Line(chunk.text, copy.live)))
    [] OTHER -> Copy(SubSeq(copy.live, 1, Min({chunk.offset, Len(copy.live)}))
                       \o chunk.text, copy.past)

\* The offsets below CoNewline change no text.  A newline moves the live text
\* to the past under the id the chunk carries.  Any other chunk cuts the live
\* text at its offset, filling what is missing, and appends its text.
ProcessLiveChunk(copy, chunk) ==
  CASE chunk.offset < CoNewline -> copy
    [] chunk.offset = CoNewline ->
         Copy(<<>>, Append(copy.past, Line(chunk.text, copy.live)))
    [] OTHER -> LET missing == Max({0, chunk.offset - Len(copy.live)})
                    filled == copy.live \o [i \in 1..missing |-> Fill]
                IN  Copy(SubSeq(filled, 1, chunk.offset) \o chunk.text, copy.past)

\* The copy as it is after each of the first n chunks of a queue.
Played(copy, queue) ==
  LET seen[n \in 0..Len(queue)] ==
        IF n = 0 THEN copy ELSE ProcessLiveChunk(seen[n-1], queue[n])
  IN  seen

PlayAll(copy, queue) == Played(copy, queue)[Len(queue)]

(* Making chunks of an edit.                                                 *)

\* A text put before lines: it is the start of the first of them.
Glue(text, lines) == <<text \o Head(lines)>> \o Tail(lines)

Prepend(char, lines) ==
  IF char = NL THEN << <<>> >> \o lines ELSE Glue(<<char>>, lines)

\* The lines of the last n characters of a text.
Split(text) ==
  LET lines[n \in 0..Len(text)] ==
        IF n = 0 THEN << <<>> >> ELSE Prepend(text[Len(text) - n + 1], lines[n-1])
  IN  lines

Lines(text) == Split(text)[Len(text)]

\* The identifier of the k-th line break of this edit (platform.NewId).
NewId(k) == <<edits, k>>

\* The chunks of lines of which the first is typed at start: between two of
\* them comes a line break.
LineChunks(start, lines) ==
  [i \in 1..(2 * Len(lines) - 1) |->
     IF i = 1 THEN Chunk(start, lines[1])
     ELSE IF i % 2 = 0 THEN Chunk(CoNewline, NewId(i \div 2))
     ELSE Chunk(0, lines[(i + 1) \div 2])]

\* A mistake: the line breaks stay in the text.
SuffixUnsplit(text, start) ==
  IF Len(text) <= start THEN <<>>
  ELSE <<Chunk(start, SubSeq(text, start + 1, Len(text)))>>

SuffixToChunks(text, start) ==
  IF Len(text) <= start THEN <<>>
  ELSE LineChunks(start, Split(text)[Len(text) - start])

\* Where two texts first differ within their common length (0 if nowhere).
FirstDifference(old, new) ==
  LET common == Min({Len(old), Len(new)})
      different == {i \in 1..common : old[i] # new[i]}
  IN  IF different = {} THEN 0 ELSE Min(different)

\* A mistake: a text that only got shorter is taken for an unchanged one.
DiffMissesDeletion(old, new) ==
  LET at == FirstDifference(old, new)
  IN  IF at > 0 THEN SuffixToChunks(new, at - 1) ELSE SuffixToChunks(new, Len(old))

DiffLines(old, new) ==
  LET at == FirstDifference(old, new)
  IN  IF at > 0 THEN SuffixToChunks(new, at - 1)
      ELSE IF Len(old) < Len(new) THEN SuffixToChunks(new, Len(old))
      ELSE IF Len(old) > Len(new) THEN <<Chunk(Len(new), <<>>)>>
      ELSE <<>>

(* The whisperer, the server and the late receiver.                          *)

Publish(sent) ==
  /\ chunks' = chunks \o sent
  /\ tail' = IF attached THEN tail \o sent ELSE tail

\* What the edit means to the one who makes it: every line but the last is
\* past, the last is the live line.
Typed(past, lines) ==
  LET n == Len(lines)
  IN  Copy(lines[n], past \o [k \in 1..(n - 1) |-> Line(NewId(k), lines[k])])

Edit(new) ==
  /\ edits < MaxEdits
  /\ edits' = edits + 1
  /\ Publish(DiffLines(typed.live, new))
  /\ typed' = Typed(typed.past, Lines(new))
  /\ UNCHANGED <<server, late, attached, since, synced, others>>

\* A chunk that is no edit: a sound to play, or data that does not parse
\* (ParseContentChunk answers CoIgnore).
Other(offset) ==
  /\ others < MaxOther
  /\ others' = others + 1
  /\ Publish(<<Chunk(offset, <<>>)>>)
  /\ UNCHANGED <<typed, server, late, attached, since, synced, edits>>

Play ==
  /\ chunks # <<>>
  /\ server' = ProcessLiveChunk(server, Head(chunks))
  /\ chunks' = Tail(chunks)
  /\ UNCHANGED <<typed, late, tail, attached, since, synced, edits, others>>

Attach ==
  /\ ~attached
  /\ attached' = TRUE
  /\ since' = Len(typed.past)
  /\ UNCHANGED <<typed, chunks, server, late, tail, synced, edits, others>>

PlayLate ==
  /\ tail # <<>>
  /\ late' = ProcessLiveChunk(late, Head(tail))
  /\ tail' = Tail(tail)
  /\ synced' = (synced \/ Head(tail).offset >= CoNewline)
  /\ UNCHANGED <<typed, chunks, server, attached, since, edits, others>>

Init ==
  /\ typed = Empty /\ server = Empty /\ late = Empty
  /\ chunks = <<>> /\ tail = <<>>
  /\ attached = FALSE /\ since = 0 /\ synced = FALSE
  /\ edits = 0 /\ others = 0

Texts == SeqOf(Char \cup {NL}, MaxLen)

Next ==
  \/ \E new \in Texts : Edit(new)
  \/ \E offset \in {CoPlaySound, CoIgnore} : Other(offset)
  \/ Play
  \/ Attach
  \/ PlayLate

Spec == Init /\ [][Next]_vars

(* Properties.                                                               *)

Glyphs == Char \cup {Fill}
Id == (0..MaxEdits) \X (1..MaxLen)
Chunks == [offset : {CoNewline}, text : Id]
            \cup [offset : {CoPlaySound, CoIgnore} \cup 0..MaxLen, text : SeqOf(Char, MaxLen)]
CopyOf(set) == [live : Seq(set), past : Seq([id : Id, text : Seq(set)])]

\* Texts hold characters only, never a line break, and chunks have an offset
\* and a text or a line id.
TypeOK ==
  /\ typed \in CopyOf(Char) /\ server \in CopyOf(Glyphs) /\ late \in CopyOf(Glyphs)
  /\ chunks \in Seq(Chunks) /\ tail \in Seq(Chunks)
  /\ attached \in BOOLEAN /\ synced \in BOOLEAN
  /\ since \in 0..Len(typed.past)
  /\ edits \in 0..MaxEdits /\ others \in 0..MaxOther

\* Playing the chunks that are still under way gives the server exactly the
\* whisperer's live text and past lines, each under its own id.
ServerInStep == PlayAll(server, chunks) = typed

\* Two texts of one length that agree wherever the first knows its character.
AgreeWhereKnown(seen, true) ==
  /\ Len(seen) = Len(true)
  /\ \A i \in DOMAIN seen : seen[i] # Fill => seen[i] = true[i]

\* A receiver that attached in the middle of a line is, as soon as it has played
\* an edit, as long as the true text and right wherever it has no '?': once it
\* has played what is under way it has every line that ended since it attached,
\* all but the first of them exactly.
LateAgrees ==
  LET seen == PlayAll(late, tail)
      true == SubSeq(typed.past, since + 1, Len(typed.past))
  IN  /\ attached => Len(seen.past) = Len(true)
      /\ \A k \in 2..Len(seen.past) : seen.past[k] = true[k]
      /\ seen.past # <<>> => seen.live = typed.live
      /\ synced /\ seen.past = <<>> => AgreeWhereKnown(seen.live, typed.live)
=============================================================================

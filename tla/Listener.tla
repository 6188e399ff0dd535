------------------------------ MODULE Listener ------------------------------
(* The browser's listener (listen.js): it offers to listen, is let in or       *)
(* refused by the whisperer, then follows the whisperer's text from content    *)
(* chunks and asks for a reread of the live text when it finds a gap.  The     *)
(* whisperer, which is no part of the repository, is as the listener's code    *)
(* uses it.  The page runs in one thread: a handler and the render it causes   *)
(* are one step.                                                               *)
EXTENDS Integers, Sequences, SequencesExt, FiniteSetsExt

CONSTANTS Char,           \* characters that can be typed
          MaxLen,         \* bound: characters of a live text
          MaxEdits,       \* bound: edits and newlines of the whisperer
          MaxNotices      \* bound: control packets the whisperer sends to all
                          \* unasked: offers, transcript ids, dropping, restart

ASSUME BoundsAreNat == MaxLen \in Nat /\ MaxEdits \in Nat /\ MaxNotices \in Nat

VARIABLES status,      \* ListenerView, NameView and ConnectView's status
          text,        \* ConversationView's text, resetInProgress and whether
                       \* the text is known to be the whisperer's (a history)
          attached,    \* ConversationView's content channel is attached
          initialRead, \* doneCounts['initialRead'] > 0
          there,       \* the whisperer is on the control channel
          toWhisperer, toListener, content,  \* packets under way
          whispered,   \* the whisperer's live and past text
          base,        \* history: past lines there were at the attach
          edits, notices

listener == <<status, text, attached, initialRead, base>>
bounds == <<edits, notices>>
vars == <<listener, there, toWhisperer, toListener, content, whispered, bounds>>

Fresh(reset) == [live |-> <<>>, past |-> <<>>, reset |-> reset, synced |-> FALSE]

(* Packets.  Control packets are their kind; nobody who is not subscribed      *)
(* gets any.                                                                   *)

FromListener == {"listenOffer", "listenRequest", "joining", "dropping", "requestReread"}
FromWhisperer == {"whisperOffer", "listenAuthYes", "listenAuthYes(invalid)", "listenAuthNo",
                  "dropping", "restart", "transcriptId"}

Subscribed == status \notin {"naming", "exited"}

SendWhisperer(kinds) == toWhisperer' = IF there THEN toWhisperer \o kinds ELSE toWhisperer
SendListener(kind) == toListener' = IF Subscribed THEN Append(toListener, kind) ELSE toListener
Broadcast(chunks) == content' = IF attached THEN content \o chunks ELSE content

Diff(offset, s) == [kind |-> "diff", offset |-> offset, text |-> s]
NewLine == [kind |-> "newline", offset |-> -1, text |-> <<>>]
StartReread == [kind |-> "startReread", offset |-> -4, text |-> <<>>]
LiveTextChunk(s) == [kind |-> "liveText", offset |-> -3, text |-> s]

(* receiveContentChunk.                                                      *)

\* The text a diff at this offset leaves unchanged, asking for a reread.
Gap(t, chunk) == chunk.kind = "diff" /\ chunk.offset > Len(t.live)

\* A mistake: the gap is not noticed (substring takes what there is).
PlayThroughGap(t, chunk) ==
  CASE chunk.kind = "newline" -> [t EXCEPT !.live = <<>>, !.past = Append(@, t.live),
                                           !.reset = FALSE, !.synced = TRUE]
    [] chunk.kind = "diff" -> [t EXCEPT !.live = SubSeq(@, 1, Min({chunk.offset, Len(@)}))
                                                   \o chunk.text, !.reset = FALSE, !.synced = TRUE]
    [] OTHER -> [t EXCEPT !.live = chunk.text, !.reset = FALSE]

\* A mistake: a newline replaces the past text, and nothing else is noticed.
PlayForgetsPast(t, chunk) ==
  CASE chunk.kind = "newline" -> [t EXCEPT !.live = <<>>, !.past = <<t.live>>]
    [] chunk.kind = "diff" -> [t EXCEPT !.live = SubSeq(@, 1, Min({chunk.offset, Len(@)}))
                                                   \o chunk.text]
    [] OTHER -> t

\* A diff ends a reread that was in progress.  It is applied if it starts within
\* the text, and else asks for a (new) reread.  The answer to a reread counts
\* only while one is in progress: its start clears the live text, its text is
\* the live text.
Play(t, chunk) ==
  CASE chunk.kind = "newline" -> [t EXCEPT !.live = <<>>, !.past = Append(@, t.live),
                                           !.reset = FALSE, !.synced = TRUE]
    [] chunk.kind = "diff" ->
         IF Gap(t, chunk) THEN [t EXCEPT !.reset = TRUE]
         ELSE [t EXCEPT !.live = SubSeq(@, 1, chunk.offset) \o chunk.text,
                        !.reset = FALSE, !.synced = @ \/ chunk.offset = 0]
    [] t.reset /\ chunk.kind = "startReread" -> [t EXCEPT !.live = <<>>]
    [] t.reset /\ chunk.kind = "liveText" -> [t EXCEPT !.live = chunk.text,
                                                       !.reset = FALSE, !.synced = TRUE]
    [] OTHER -> t

\* A mistake: a gap waits for a reread it never asks for.
ReceiveSilently ==
  /\ content # <<>>
  /\ text' = Play(text, Head(content))
  /\ content' = Tail(content)
  /\ UNCHANGED <<status, attached, initialRead, there, toWhisperer, toListener, whispered, base, bounds>>

ReceiveContentChunk ==
  /\ content # <<>>
  /\ text' = Play(text, Head(content))
  /\ SendWhisperer(IF Gap(text, Head(content)) THEN <<"requestReread">> ELSE <<>>)
  /\ content' = Tail(content)
  /\ UNCHANGED <<status, attached, initialRead, there, toListener, whispered, base, bounds>>

(* receiveControlChunk.                                                      *)

Receive(kinds) ==
  /\ toListener # <<>> /\ Head(toListener) \in kinds
  /\ toListener' = Tail(toListener)
  /\ UNCHANGED <<there, whispered, bounds>>

\* A mistake: the view goes away but stays subscribed.
UnmountText ==
  /\ text' = Fresh(text.reset)
  /\ UNCHANGED <<attached, content, base>>

\* ConversationView goes away with its text and its channel.
Unmount ==
  /\ text' = Fresh(text.reset)
  /\ attached' = FALSE /\ content' = <<>>
  /\ UNCHANGED base

Exit ==
  /\ status' = "exited"
  /\ Unmount
  /\ UNCHANGED initialRead

Dropped ==
  /\ Receive({"dropping", "restart"})
  /\ Exit
  /\ UNCHANGED toWhisperer

\* Refused, or let in with an id that is none: the listener says it drops.
Refused ==
  /\ Receive({"listenAuthNo", "listenAuthYes(invalid)"})
  /\ SendWhisperer(<<"dropping">>)
  /\ Exit

\* Let in: ConversationView is rendered, and the first time that happens it asks
\* for a reread, before its channel is attached. The whisperer has one content
\* channel: an answer with the id of another, to which the page would switch, is
\* left out.
LetIn ==
  /\ Receive({"listenAuthYes"})
  /\ status' = "listening"
  /\ initialRead' = TRUE
  /\ LET reads == ~initialRead /\ ~text.reset
     IN  /\ SendWhisperer(IF reads THEN <<"joining", "requestReread">> ELSE <<"joining">>)
         /\ text' = [text EXCEPT !.reset = @ \/ reads]
  /\ UNCHANGED <<attached, content, base>>

\* A mistake: the offer is only noted.
OfferedOnly ==
  /\ Receive({"whisperOffer"})
  /\ status' = "requesting"
  /\ Unmount
  /\ UNCHANGED <<initialRead, toWhisperer>>

\* The whisperer offers, whatever the status is.
Offered ==
  /\ Receive({"whisperOffer"})
  /\ status' = "requesting"
  /\ SendWhisperer(<<"listenRequest">>)
  /\ Unmount
  /\ UNCHANGED initialRead

\* A transcript id sets the link, and then falls into the default case.
TranscriptReceived ==
  /\ Receive({"transcriptId"})
  /\ SendWhisperer(<<"listenOffer">>)
  /\ UNCHANGED <<listener, content>>

(* The page.                                                                 *)

ConfirmName ==
  /\ status = "naming"
  /\ status' = "waiting"
  /\ SendWhisperer(<<"listenOffer">>)
  /\ UNCHANGED <<text, attached, initialRead, base, there, toListener, content, whispered, bounds>>

\* Leaving, or closing the window (which changes the presence status).
Leave ==
  /\ Subscribed
  /\ SendWhisperer(<<"dropping">>)
  /\ toListener' = <<>>
  /\ Exit
  /\ UNCHANGED <<there, whispered, bounds>>

\* useChannel has attached the content channel.
ContentAttached ==
  /\ status = "listening" /\ ~attached
  /\ attached' = TRUE
  /\ base' = Len(whispered.past)
  /\ UNCHANGED <<status, text, initialRead, there, toWhisperer, toListener, content, whispered, bounds>>

(* The whisperer.                                                            *)

Arrive ==
  /\ ~there
  /\ there' = TRUE
  /\ SendListener("whisperOffer")
  /\ UNCHANGED <<listener, toWhisperer, content, whispered, bounds>>

OfferAgain ==
  /\ there /\ notices < MaxNotices
  /\ notices' = notices + 1
  /\ SendListener("whisperOffer")
  /\ UNCHANGED <<listener, there, toWhisperer, content, whispered, edits>>

SendTranscriptId ==
  /\ there /\ notices < MaxNotices
  /\ notices' = notices + 1
  /\ SendListener("transcriptId")
  /\ UNCHANGED <<listener, there, toWhisperer, content, whispered, edits>>

Stop ==
  /\ there /\ notices < MaxNotices
  /\ notices' = notices + 1
  /\ there' = FALSE
  /\ toWhisperer' = <<>>
  /\ \E kind \in {"dropping", "restart"} : SendListener(kind)
  /\ UNCHANGED <<listener, content, whispered, edits>>

Answers(kind) ==
  CASE kind = "listenOffer" -> {"whisperOffer"}
    [] kind = "listenRequest" -> {"listenAuthYes", "listenAuthYes(invalid)", "listenAuthNo"}
    [] OTHER -> {}

\* A packet is answered on the control channel, a reread on the content channel.
Answer ==
  /\ toWhisperer # <<>>
  /\ toWhisperer' = Tail(toWhisperer)
  /\ LET kind == Head(toWhisperer)
     IN  /\ IF Answers(kind) = {} THEN UNCHANGED toListener
            ELSE \E answer \in Answers(kind) : SendListener(answer)
         /\ Broadcast(IF kind = "requestReread"
                      THEN <<StartReread, LiveTextChunk(whispered.live)>> ELSE <<>>)
  /\ UNCHANGED <<listener, there, whispered, bounds>>

Type(new) ==
  LET offset == Len(LongestCommonPrefix({whispered.live, new}))
  IN  /\ there /\ edits < MaxEdits
      /\ new # whispered.live
      /\ edits' = edits + 1
      /\ whispered' = [whispered EXCEPT !.live = new]
      /\ Broadcast(<<Diff(offset, SubSeq(new, offset + 1, Len(new)))>>)
      /\ UNCHANGED <<listener, there, toWhisperer, toListener, notices>>

EndLine ==
  /\ there /\ edits < MaxEdits
  /\ edits' = edits + 1
  /\ whispered' = [live |-> <<>>, past |-> Append(whispered.past, whispered.live)]
  /\ Broadcast(<<NewLine>>)
  /\ UNCHANGED <<listener, there, toWhisperer, toListener, notices>>

Init ==
  /\ status = "naming" /\ text = Fresh(FALSE)
  /\ attached = FALSE /\ initialRead = FALSE /\ base = 0
  /\ there \in BOOLEAN
  /\ toWhisperer = <<>> /\ toListener = <<>> /\ content = <<>>
  /\ whispered = [live |-> <<>>, past |-> <<>>]
  /\ edits = 0 /\ notices = 0

ReceiveControlChunk == Dropped \/ Refused \/ LetIn \/ Offered \/ TranscriptReceived

Next ==
  \/ ConfirmName \/ Leave
  \/ ReceiveControlChunk
  \/ ContentAttached \/ ReceiveContentChunk
  \/ Arrive \/ OfferAgain \/ SendTranscriptId \/ Stop \/ Answer
  \/ \E new \in SeqOf(Char, MaxLen) : Type(new)
  \/ EndLine

Spec == Init /\ [][Next]_vars

\* Messages are delivered, the channel attaches and a whisperer that is there
\* answers.
Fairness ==
  /\ WF_vars(ReceiveControlChunk) /\ WF_vars(ReceiveContentChunk)
  /\ WF_vars(ContentAttached) /\ WF_vars(Answer)

FairSpec == Spec /\ Fairness

(* Properties.                                                               *)

Line == SeqOf(Char, MaxLen)
Text == [live : Line, past : Seq(Line), reset : BOOLEAN, synced : BOOLEAN]
Diffs == {Diff(offset, s) : offset \in 0..MaxLen, s \in Line}
ContentChunks ==
  {chunk \in Diffs : chunk.offset + Len(chunk.text) <= MaxLen}
    \cup {LiveTextChunk(s) : s \in Line} \cup {StartReread, NewLine}

\* The text as it is after each of the first n chunks of a queue.
Played(t, queue) ==
  LET seen[n \in 0..Len(queue)] == IF n = 0 THEN t ELSE Play(seen[n-1], queue[n])
  IN  seen

PlayAll(t, queue) == Played(t, queue)[Len(queue)]

\* Every value has its kind; the content channel is attached and has packets
\* only while the listener is let in.
TypeOK ==
  /\ status \in {"naming", "waiting", "requesting", "listening", "exited"}
  /\ text \in Text
  /\ whispered \in [live : Line, past : Seq(Line)]
  /\ attached => status = "listening"
  /\ content # <<>> => attached
  /\ content \in Seq(ContentChunks)
  /\ there \in BOOLEAN /\ initialRead \in BOOLEAN
  /\ toWhisperer \in Seq(FromListener)
  /\ toListener \in Seq(FromWhisperer)
  /\ base \in 0..Len(whispered.past)

\* With the chunks under way played, an attached listener shows the whisperer's
\* live text, or nothing while it has not caught up; and every line that ended
\* since it attached, all but the first in full.
TextIsTrue ==
  LET seen == PlayAll(text, content)
  IN  attached =>
        /\ seen.live = whispered.live \/ (seen.live = <<>> /\ ~seen.synced)
        /\ Len(seen.past) = Len(whispered.past) - base
        /\ \A k \in DOMAIN seen.past :
             seen.past[k] = whispered.past[base + k] \/ (k = 1 /\ seen.past[k] = <<>>)

\* Lines stay on the screen until the listener leaves, is dropped, or goes back
\* to requesting: no diff, reread or reordered chunk takes one away.
KeepsPast ==
  [][status' \notin {"exited", "requesting"} => IsPrefix(text.past, text'.past)]_vars

\* A listener that waits while the whisperer is there is let in or refused,
\* unless it leaves or the whisperer stops.
IsAnswered ==
  (status = "waiting" /\ there) ~> (status \in {"listening", "exited"} \/ ~there)

\* A listener that attached in the middle of a line catches up once anything is
\* typed, though the reread it asked for when it was let in may have been lost.
CatchesUp ==
  (attached /\ \E k \in DOMAIN content : content[k].kind \in {"diff", "newline"})
    ~> (text.synced \/ ~attached \/ ~there)
=============================================================================

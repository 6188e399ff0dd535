--------------------------- MODULE Transcription ---------------------------
(***************************************************************************)
(* What becomes of the packets a whisperer publishes: how the session of   *)
(* one conversation transcribes them (lifecycle/session.go:                *)
(* transcribeContent), how a terminating server hands the unfinished line  *)
(* to the next one, and how a session is ended with a transcript.          *)
(*                                                                         *)
(* SessionHandoff says which server runs the session when; here servers    *)
(* take turns, as they do when loads of the conversation do not overlap.   *)
(***************************************************************************)
EXTENDS Integers, Sequences, SequencesExt

CONSTANTS
    Server,      \* server instances, numbered in the order they run the session
    MaxPackets,  \* bound on the number of packets published
    Newline,     \* the packets that end a line; the others change the live text
    MaxFaults,   \* bound on the number of failures of storage or the hub, and crashes
    MaxZeros,    \* bound on the zero packets kept on the list and with a server
    NoState      \* no saved state, no transcript

ASSUME PacketBounds ==
    /\ Server \subseteq Nat
    /\ MaxPackets \in Nat
    /\ Newline \subseteq 1 .. MaxPackets
    /\ MaxFaults \in Nat
    /\ MaxZeros \in Nat

VARIABLES
    published,  \* the packets 1 .. published are published on the content channel
    st,         \* st[s]: the stage of the session value on server s
    attached,   \* attached[s]: the content channel is attached on s, its client open
    signalled,  \* signalled[s]: the attach packet has been sent to cr
    cr,         \* cr[s]: the content receiver channel
    tr,         \* tr[s]: where the goroutine transcribeContent is
    ids,        \* ids[s]: processedIds
    check,      \* check[s]: packetsToCheck
    live,       \* live[s]: livePackets
    text,       \* text[s]: the packets that make up liveText
    past,       \* past[s]: the packets that make up PastText
    stored,     \* the saved session state: its past text
    suspended,  \* the suspended packets list in storage
    expiring,   \* the list has been given 30 seconds to live
    transcript, \* the transcript in storage
    ttl,        \* the transcript has been given a year to live
    reader,     \* where the LoadTranscript in progress is
    tid,        \* tid[s]: the session is marked for transcription
    taken,      \* history: the packets transcribeContent has had in its loop
    kept,       \* history: the packets that were ever pushed on the list
    read,       \* history: the packets that a server has read from the list
    late,       \* history: the packets pushed on a list that was read already
    faults      \* failures and crashes so far

hubVars == <<published, attached, signalled>>
trVars == <<tr, ids, check, live, text, past>>
listVars == <<suspended, expiring, kept, read, late>>
transcriptVars == <<transcript, ttl, reader>>
endVars == <<transcriptVars, tid>>
vars == <<hubVars, st, cr, trVars, taken, stored, listVars, endVars, faults>>

AttachPacket == 0   \* content that changes nothing, sent by the hub itself
ZeroPacket == -1    \* what a receive from a closed channel yields

Packet == 1 .. MaxPackets

ShuttingDown(s) == st[s] \in {"grace", "cancelled", "detached", "saved"}

Cancelled(s) ==
    st[s] \in {"cancelled", "detached", "saved", "ending", "closed", "stored", "over"}

(* Mutant: EndSession leaves the channel open. *)
CrNeverClosed(s) == FALSE

(* EndSession has closed the channel. *)
CrClosed(s) == st[s] \in {"detached", "saved", "closed", "stored", "over"}

(* The hub passes packets to the session: to a closed channel it cannot. *)
Listening(s) == attached[s] /\ ~CrClosed(s)

(* A command fails, without an effect. *)
Fault == faults < MaxFaults /\ faults' = faults + 1

Init ==
    /\ published = 0
    /\ st = [s \in Server |-> "none"]
    /\ attached = [s \in Server |-> FALSE]
    /\ signalled = [s \in Server |-> FALSE]
    /\ cr = [s \in Server |-> <<>>]
    /\ tr = [s \in Server |-> "none"]
    /\ ids = [s \in Server |-> {}]
    /\ check = [s \in Server |-> 0]
    /\ live = [s \in Server |-> <<>>]
    /\ text = [s \in Server |-> <<>>]
    /\ past = [s \in Server |-> <<>>]
    /\ stored = <<>>
    /\ suspended = <<>>
    /\ expiring = FALSE
    /\ transcript = NoState
    /\ ttl = FALSE
    /\ reader = "idle"
    /\ tid = [s \in Server |-> FALSE]
    /\ taken = [s \in Server |-> {}]
    /\ kept = {}
    /\ read = {}
    /\ late = {}
    /\ faults = 0

-----------------------------------------------------------------------------
(* The content channel: the hub of each server that is attached to it *)

(* contentReceiver passes what is published to the session.  Bound: a      *)
(* packet is published while a server may still get one.                   *)
Publish ==
    /\ published < MaxPackets
    /\ stored # NoState \/ \E s \in Server : Listening(s)
    /\ published' = published + 1
    /\ cr' = [s \in Server |-> IF Listening(s) THEN Append(cr[s], published + 1) ELSE cr[s]]
    /\ UNCHANGED <<attached, signalled, st, trVars, taken, stored, listVars, endVars, faults>>

(* The state callback of the channel sends the attach packet; it and the   *)
(* message callback are called by the client library independently.        *)
Signal(s) ==
    /\ Listening(s)
    /\ ~signalled[s]
    /\ signalled' = [signalled EXCEPT ![s] = TRUE]
    /\ cr' = [cr EXCEPT ![s] = Append(@, AttachPacket)]
    /\ UNCHANGED <<published, attached, st, trVars, taken, stored, listVars, endVars, faults>>

-----------------------------------------------------------------------------
(* The session *)

(* GetSession: the state is taken out of storage and the session started;  *)
(* the subscription start makes returns when the channel is attached.      *)
Start(s) ==
    /\ st[s] = "none" /\ \A t \in Server : t < s => st[t] # "none"
    /\ stored # NoState
    /\ attached' = [attached EXCEPT ![s] = TRUE]
    /\ st' = [st EXCEPT ![s] = "running"]
    /\ tr' = [tr EXCEPT ![s] = "first"]
    /\ past' = [past EXCEPT ![s] = stored]
    /\ stored' = NoState
    /\ UNCHANGED <<published, signalled, cr, ids, check, live, text, taken, listVars, endVars, faults>>

(* Shutdown: from now on packets are left for the next server. *)
Shutdown(s) ==
    /\ st[s] = "running"
    /\ st' = [st EXCEPT ![s] = "grace"]
    /\ UNCHANGED <<hubVars, cr, trVars, taken, stored, listVars, endVars, faults>>

(* Mutant: the state is saved at once, before the session stops listening. *)
CancelSaved(s) ==
    /\ st[s] = "grace"
    /\ st' = [st EXCEPT ![s] = "cancelled"]
    /\ stored' = past[s]
    /\ UNCHANGED <<hubVars, cr, trVars, taken, listVars, endVars, faults>>

(* After ten seconds Shutdown cancels the goroutines of the session. *)
Cancel(s) ==
    /\ st[s] = "grace"
    /\ st' = [st EXCEPT ![s] = "cancelled"]
    /\ UNCHANGED <<hubVars, cr, trVars, taken, stored, listVars, endVars, faults>>

(* EndSession detaches the channel and closes cr, for Shutdown and End.  A *)
(* detach that fails is logged, and the rest goes on with the channel      *)
(* attached until its client is closed.                                    *)
EndSession(s) ==
    /\ \/ st[s] = "cancelled" /\ st' = [st EXCEPT ![s] = "detached"]
       \/ st[s] = "ending" /\ st' = [st EXCEPT ![s] = "closed"]
    /\ \/ attached' = [attached EXCEPT ![s] = FALSE] /\ UNCHANGED faults
       \/ Fault /\ UNCHANGED attached
    /\ UNCHANGED <<published, signalled, cr, trVars, taken, stored, listVars, endVars>>

(* The client is closed a second later, which ends what is still attached. *)
CloseClient(s) ==
    /\ attached[s] /\ CrClosed(s)
    /\ attached' = [attached EXCEPT ![s] = FALSE]
    /\ UNCHANGED <<published, signalled, st, cr, trVars, taken, stored, listVars, endVars, faults>>

(* Shutdown saves the session state, then lets the process go. *)
SaveState(s) ==
    /\ st[s] = "detached"
    /\ st' = [st EXCEPT ![s] = "saved"]
    /\ \/ stored' = past[s] /\ UNCHANGED faults
       \/ Fault /\ UNCHANGED stored
    /\ UNCHANGED <<hubVars, cr, trVars, taken, listVars, endVars>>

(* What a process has in memory goes with it. *)
Forget(s) ==
    /\ st' = [st EXCEPT ![s] = "gone"]
    /\ attached' = [attached EXCEPT ![s] = FALSE]
    /\ cr' = [cr EXCEPT ![s] = <<>>]
    /\ tr' = [tr EXCEPT ![s] = "none"]
    /\ ids' = [ids EXCEPT ![s] = {}]
    /\ check' = [check EXCEPT ![s] = 0]
    /\ live' = [live EXCEPT ![s] = <<>>]
    /\ text' = [text EXCEPT ![s] = <<>>]
    /\ past' = [past EXCEPT ![s] = <<>>]
    /\ taken' = [taken EXCEPT ![s] = {}]
    /\ tid' = [tid EXCEPT ![s] = FALSE]
    /\ UNCHANGED <<published, signalled, stored, listVars, transcriptVars>>

(* The process exits, whatever its goroutines are doing. *)
Exit(s) == st[s] = "saved" /\ Forget(s) /\ UNCHANGED faults

(* Transcribe has marked the session for transcription, or not.  The mark  *)
(* is read by End only, and no server hands it over.  Bound: a session is  *)
(* marked when no transcriber of an earlier server lingers.                *)
Transcribe(s) ==
    \E marked \in BOOLEAN :
        /\ marked => \A t \in Server \ {s} : tr[t] = "none"
        /\ tid' = [tid EXCEPT ![s] = marked]

(* End: the participants are told, and the session is destroyed. *)
End(s) ==
    /\ st[s] = "running"
    /\ st' = [st EXCEPT ![s] = "ending"]
    /\ Transcribe(s)
    /\ UNCHANGED <<hubVars, cr, trVars, taken, stored, listVars, transcriptVars, faults>>

(* A channel that is attached still gets a packet or its attach notice and *)
(* sends it on the channel that EndSession has closed: the process panics. *)
Panic(s) == attached[s] /\ CrClosed(s) /\ Forget(s) /\ UNCHANGED faults

(* The process ends where it is.  A callback of the client library that    *)
(* was running when the channel was detached is one cause, as in Panic.    *)
Crash(s) == st[s] \notin {"none", "gone"} /\ Fault /\ Forget(s)

-----------------------------------------------------------------------------
(* Transcripts: kept for a year after they are saved or last loaded *)

(* Mutant: a transcript is saved without its lifetime. *)
StoreTranscriptForGood(s) ==
    /\ st[s] = "closed" /\ tid[s]
    /\ st' = [st EXCEPT ![s] = "over"]
    /\ transcript' = past[s]
    /\ tid' = [tid EXCEPT ![s] = FALSE]
    /\ UNCHANGED <<hubVars, cr, trVars, taken, stored, listVars, ttl, reader, faults>>

(* saveTranscript: the past text is saved and the id of the transcript is  *)
(* forgotten; End returns tid[s] as it is at the end.  Without an id the   *)
(* key is invalid and nothing is saved.                                    *)
StoreTranscript(s) ==
    /\ st[s] = "closed"
    /\ \/ /\ tid[s]
          /\ st' = [st EXCEPT ![s] = "stored"]
          /\ transcript' = past[s] /\ ttl' = FALSE
          /\ tid' = [tid EXCEPT ![s] = FALSE]
          /\ UNCHANGED faults
       \/ /\ IF tid[s] THEN Fault ELSE UNCHANGED faults
          /\ st' = [st EXCEPT ![s] = "over"]
          /\ UNCHANGED <<transcript, ttl, tid>>
    /\ UNCHANGED <<hubVars, cr, trVars, taken, stored, listVars, reader>>

(* SetExpiration, which does nothing to a key that is not there; that it   *)
(* fails is ignored.                                                       *)
SetExpiration ==
    \/ ttl' = (transcript # NoState) /\ UNCHANGED faults
    \/ Fault /\ UNCHANGED ttl

LimitTranscript(s) ==
    /\ st[s] = "stored"
    /\ SetExpiration
    /\ st' = [st EXCEPT ![s] = "over"]
    /\ UNCHANGED <<hubVars, cr, trVars, taken, stored, listVars, transcript, reader, tid>>

(* Bound: transcripts are read and dropped when no transcriber runs, which *)
(* never looks at them.                                                    *)
Silent == \A s \in Server : tr[s] \in {"none", "stopped"}

(* LoadTranscript: a transcript that is found has its lifetime set anew.   *)
FetchTranscript ==
    /\ Silent /\ reader = "idle" /\ transcript # NoState
    /\ reader' = "fetched"
    /\ UNCHANGED <<hubVars, st, cr, trVars, taken, stored, listVars, transcript, ttl, tid, faults>>

RenewTranscript ==
    /\ reader = "fetched"
    /\ SetExpiration
    /\ reader' = "idle"
    /\ UNCHANGED <<hubVars, st, cr, trVars, taken, stored, listVars, transcript, tid>>

(* DeleteTranscript, and the end of the year. *)
DropTranscript ==
    /\ Silent /\ transcript # NoState
    /\ transcript' = NoState /\ ttl' = FALSE
    /\ UNCHANGED <<hubVars, st, cr, trVars, taken, stored, listVars, reader, tid, faults>>

-----------------------------------------------------------------------------
(* transcribeContent *)

(* A receive from cr yields p: the next packet, or the zero packet once    *)
(* the channel is closed and empty, again and again.                       *)
Receive(s, p) ==
    \/ cr[s] # <<>> /\ p = Head(cr[s]) /\ cr' = [cr EXCEPT ![s] = Tail(@)]
    \/ cr[s] = <<>> /\ CrClosed(s) /\ p = ZeroPacket /\ UNCHANGED cr

(* Bound: a zero packet is taken while few of them are kept anywhere.      *)
ZerosBounded(p) ==
    p = ZeroPacket
    => \A s \in Server :
         Len(SelectSeq(suspended \o live[s], LAMBDA q : q = ZeroPacket)) < MaxZeros

(* The first packet, taken to be the attach packet, is dropped. *)
First(s) ==
    /\ tr[s] = "first"
    /\ \E p \in Packet \cup {AttachPacket, ZeroPacket} : Receive(s, p)
    /\ tr' = [tr EXCEPT ![s] = "load"]
    /\ UNCHANGED <<hubVars, st, ids, check, live, text, past, taken, stored, listVars, endVars, faults>>

(* processSuspendedPackets: the ids of the suspended packets are noted,    *)
(* or none if the list cannot be read.                                     *)
LoadPackets(s) ==
    /\ tr[s] = "load"
    /\ \/ /\ ids' = [ids EXCEPT ![s] = Range(suspended)]
          /\ read' = read \cup (Range(suspended) \cap Packet)
          /\ tr' = [tr EXCEPT ![s] = "limit"]
          /\ UNCHANGED faults
       \/ /\ Fault
          /\ tr' = [tr EXCEPT ![s] = "loop"]
          /\ UNCHANGED <<ids, read>>
    /\ check' = [check EXCEPT ![s] = Cardinality(ids'[s])]
    /\ UNCHANGED <<hubVars, st, cr, live, text, past, taken, stored, suspended, expiring, kept, late,
                   endVars>>

(* The list is then given its 30 seconds; that this fails is ignored. *)
LimitPackets(s) ==
    /\ tr[s] = "limit"
    /\ tr' = [tr EXCEPT ![s] = "loop"]
    /\ \/ expiring' = (suspended # <<>>) /\ UNCHANGED faults
       \/ Fault /\ UNCHANGED expiring
    /\ UNCHANGED <<hubVars, st, cr, ids, check, live, text, past, taken, stored, suspended, kept,
                   read, late, endVars>>

(* The 30 seconds of the list are over, for all that is on it by now. *)
Expire ==
    /\ expiring
    /\ suspended' = <<>>
    /\ expiring' = FALSE
    /\ UNCHANGED <<hubVars, st, cr, trVars, taken, stored, kept, read, late, endVars, faults>>

(* Redis pushes the members on the right, one at a time. *)
PushListMembers(list, members) == list \o members

(* A server has read the list, which expires or is about to. *)
WasRead == expiring \/ \E s \in Server : tr[s] = "limit"

(* SaveSuspendedSessionPackets appends to the list. *)
Push(q) ==
    /\ suspended' = PushListMembers(suspended, q)
    /\ kept' = kept \cup Range(q)
    /\ late' = IF WasRead THEN late \cup (Range(q) \cap Packet) ELSE late
    /\ UNCHANGED <<expiring, read>>

(* A packet received while shutting down is for the next server, and so is *)
(* the line that is not finished.                                          *)
HandOver(s, p) ==
    LET q == Append(live[s], p) IN
    /\ ShuttingDown(s)
    /\ \/ Push(q) /\ live' = [live EXCEPT ![s] = <<>>] /\ UNCHANGED faults
       \/ Fault /\ live' = [live EXCEPT ![s] = q] /\ UNCHANGED listVars
    /\ UNCHANGED <<check, text, past>>

(* A packet the prior server has saved is skipped. *)
Skip(s, p) ==
    /\ ~ShuttingDown(s)
    /\ check[s] > 0
    /\ p \in ids[s]
    /\ check' = [check EXCEPT ![s] = @ - 1]
    /\ UNCHANGED <<live, text, past, listVars, faults>>

(* Mutant: the count of packets to check goes below zero. *)
CountDown(n) == n - 1

(* The count of packets that may have been saved by the prior server. *)
OneLess(n) == IF n > 0 THEN n - 1 ELSE 0

(* Mutant: the live packets are not reset at a newline. *)
LiveKept(s, p) == IF p \in Newline THEN live[s] ELSE Append(live[s], p)

LiveAfter(s, p) == IF p \in Newline THEN <<>> ELSE Append(live[s], p)

(* Mutant: the live text is not reset at a newline. *)
TextKept(s, p) == IF p \in Packet \ Newline THEN Append(text[s], p) ELSE text[s]

TextAfter(s, p) ==
    IF p \in Newline THEN <<>> ELSE IF p \in Packet THEN Append(text[s], p) ELSE text[s]

(* transcribeOnePacket: a newline moves the live text to the past text.    *)
(* The packets sent by the hub change no text, but are live packets.       *)
TranscribeOne(s, p) ==
    /\ ~ShuttingDown(s)
    /\ ~(check[s] > 0 /\ p \in ids[s])
    /\ check' = [check EXCEPT ![s] = OneLess(@)]
    /\ past' = [past EXCEPT ![s] = IF p \in Newline THEN @ \o Append(text[s], p) ELSE @]
    /\ text' = [text EXCEPT ![s] = TextAfter(s, p)]
    /\ live' = [live EXCEPT ![s] = LiveAfter(s, p)]
    /\ UNCHANGED <<listVars, faults>>

Take(s) ==
    /\ tr[s] = "loop"
    /\ \E p \in Packet \cup {AttachPacket, ZeroPacket} :
         /\ Receive(s, p)
         /\ ZerosBounded(p)
         /\ HandOver(s, p) \/ Skip(s, p) \/ TranscribeOne(s, p)
         /\ taken' = [taken EXCEPT ![s] = @ \cup ({p} \cap Packet)]
    /\ UNCHANGED <<hubVars, st, tr, ids, stored, endVars>>

(* Mutant: the live packets are not saved when the goroutine stops. *)
DoneUnsaved(s) ==
    /\ tr[s] = "loop"
    /\ Cancelled(s)
    /\ tr' = [tr EXCEPT ![s] = "stopped"]
    /\ UNCHANGED <<hubVars, st, cr, ids, check, live, text, past, taken, stored, listVars, endVars, faults>>

(* The goroutine has been cancelled: live packets not saved yet are saved. *)
Done(s) ==
    /\ tr[s] = "loop"
    /\ Cancelled(s)
    /\ IF ShuttingDown(s) /\ live[s] # <<>>
       THEN \/ Push(live[s]) /\ UNCHANGED faults
            \/ Fault /\ UNCHANGED listVars
       ELSE UNCHANGED <<listVars, faults>>
    /\ tr' = [tr EXCEPT ![s] = "stopped"]
    /\ UNCHANGED <<hubVars, st, cr, ids, check, live, text, past, taken, stored, endVars>>

-----------------------------------------------------------------------------
Transcriber(s) == First(s) \/ LoadPackets(s) \/ LimitPackets(s) \/ Take(s) \/ Done(s)

Suspend(s) == Cancel(s) \/ EndSession(s) \/ CloseClient(s) \/ SaveState(s) \/ Exit(s)

Finish(s) == StoreTranscript(s) \/ LimitTranscript(s)

Next ==
    \/ Publish \/ Expire \/ FetchTranscript \/ RenewTranscript \/ DropTranscript
    \/ \E s \in Server :
         \/ Signal(s) \/ Start(s) \/ Shutdown(s) \/ End(s) \/ Crash(s) \/ Panic(s)
         \/ Suspend(s) \/ Finish(s) \/ Transcriber(s)

Spec == Init /\ [][Next]_vars

(* Goroutines run on: the one that ends the session, and the transcriber.  *)
(* That Done is taken although a receive may always be ready as well is    *)
(* the fairness of select, which picks a case at random.                   *)
Fairness ==
    \A s \in Server :
        WF_vars(EndSession(s) \/ First(s) \/ LoadPackets(s) \/ LimitPackets(s) \/ Done(s))

FairSpec == Spec /\ Fairness

-----------------------------------------------------------------------------
Stage == {"none", "running", "grace", "cancelled", "detached", "saved", "gone",
          "ending", "closed", "stored", "over"}

AnyPacket == Packet \cup {AttachPacket, ZeroPacket}

(* Every variable has the shape the code gives it. *)
TypeOK ==
    /\ published \in 0 .. MaxPackets
    /\ st \in [Server -> Stage]
    /\ attached \in [Server -> BOOLEAN]
    /\ signalled \in [Server -> BOOLEAN]
    /\ cr \in [Server -> Seq(Packet \cup {AttachPacket})]
    /\ tr \in [Server -> {"none", "first", "load", "limit", "loop", "stopped"}]
    /\ ids \in [Server -> SUBSET AnyPacket]
    /\ check \in [Server -> Nat]
    /\ live \in [Server -> Seq(AnyPacket)]
    /\ text \in [Server -> Seq(Packet)]
    /\ past \in [Server -> Seq(Packet)]
    /\ taken \in [Server -> SUBSET Packet]
    /\ stored \in Seq(Packet) \cup {NoState}
    /\ suspended \in Seq(AnyPacket)
    /\ expiring \in BOOLEAN
    /\ transcript \in Seq(Packet) \cup {NoState}
    /\ ttl \in BOOLEAN
    /\ reader \in {"idle", "fetched"}
    /\ tid \in [Server -> BOOLEAN]
    /\ kept \in SUBSET AnyPacket
    /\ read \in SUBSET Packet
    /\ late \in SUBSET Packet
    /\ faults \in 0 .. MaxFaults

Rising(q) == \A i, j \in DOMAIN q : i < j => q[i] < q[j]

(* However often the session changes servers, what it has transcribed is   *)
(* in the order of publication, with nothing in it twice.                  *)
TranscribedInOrder ==
    /\ \A s \in Server : Rising(past[s] \o text[s])
    /\ stored # NoState => Rising(stored)

(* No packet is handed over twice, even if a save is retried with the next *)
(* packet, the list of an earlier hand-over is still there, or the         *)
(* transcriber of an earlier server lingers; and none whose line is in the *)
(* past text, which the next server would have twice.                      *)
HandedOverOnce ==
    /\ \A i, j \in DOMAIN suspended :
          suspended[i] \in Packet /\ suspended[i] = suspended[j] => i = j
    /\ \A p \in kept \cap Packet :
          /\ \A s \in Server : p \notin Range(past[s])
          /\ stored # NoState => p \notin Range(stored)

(* Two servers never pass packets of one conversation to their sessions,   *)
(* so that none is transcribed by both: not even if the old server cannot  *)
(* detach its channel, since it closes cr before it saves the state the    *)
(* next one starts from.  The overlap that comments plan for is empty.     *)
OneListener ==
    \A s, t \in Server : Listening(s) /\ Listening(t) => s = t

(* Without a failure, every packet that a suspended transcriber took until *)
(* it stopped is in its past text, or on the list, or the next server has  *)
(* read it there: the list does not expire with it before.  The code has   *)
(* one exception: a hand-over to a list that was read already, and expires *)
(* 30 seconds after that, does not prolong it.                             *)
TakenIsKept ==
    \A s \in Server :
        faults = 0 /\ tr[s] = "stopped" /\ ShuttingDown(s)
        => taken[s] \subseteq Range(past[s]) \cup Range(suspended) \cup read \cup late

(* "Transcripts are stored for a max of 1 year": short of a failure or a   *)
(* crash between the commands, a transcript never stays without a          *)
(* lifetime, whatever loads and deletions fall between them.               *)
TranscriptsExpire ==
    transcript # NoState /\ ~ttl /\ faults = 0 => \E s \in Server : st[s] = "stored"

(* No transcriber is left behind: again and again, every one whose session *)
(* is cancelled (a session is so once) has stopped, even if the packet it  *)
(* waits for first never comes.                                            *)
TranscriberStops ==
    []<>(\A s \in Server : Cancelled(s) => tr[s] \in {"stopped", "none"})

(* "process the packets received but not processed by the prior server":   *)
(* once a server takes packets, those on the list are in its text.         *)
SuspendedProcessed ==
    \A s \in Server :
        tr[s] = "loop" => ids[s] \cap Packet \subseteq Range(past[s] \o text[s])

-----------------------------------------------------------------------------
(* Statements of comments that the code does not meet either.  No run      *)
(* checks them; the README says how each one fails.                        *)

(* "saves all the packets in the current live text of the session so they  *)
(* can be processed by the next server", before the process is gone.       *)
LiveTextSaved ==
    [][\A s \in Server :
         faults = 0 /\ st[s] = "saved" /\ st'[s] = "gone" => Range(text[s]) \subseteq kept]_vars

(* Packets are saved "so they can be processed by the next server": none  *)
(* expires unread, not even one that comes late.                           *)
NoneExpiresUnread == [][Expire => Range(suspended) \cap Packet \subseteq read]_vars

(* Shutdown "keeps listening ... to give the next server time to start up  *)
(* and resume the session": until it does, a server listens.               *)
ListensOn ==
    stored = NoState => \E s \in Server : Listening(s) \/ st[s] \in {"ending", "closed", "over"}

(* The list holds packets "that were received by the server being          *)
(* suspended", from the content channel or as its attach packet.           *)
SuspendedWereReceived == ZeroPacket \notin kept

(* "the transcript is finalized and saved, and its ID is returned." *)
ReturnsTranscript ==
    [][\A s \in Server :
         st[s] = "closed" /\ tid[s] /\ st'[s] # "closed" /\ faults' = faults => tid'[s]]_vars
=============================================================================

------------------------ MODULE TranscriptionProofs ------------------------
(***************************************************************************)
(* Proofs about Transcription, for any servers, packets, newlines and      *)
(* failures.                                                               *)
(***************************************************************************)
EXTENDS Transcription, FiniteSetTheorems, SequenceTheorems, TLAPS

-----------------------------------------------------------------------------
(* Types, one lemma for each group of actions *)

LEMMA PacketsAreNumbers ==
    /\ Packet \subseteq Nat \ {0} /\ AnyPacket \subseteq Int
    /\ AttachPacket \notin Packet /\ ZeroPacket \notin Packet
    /\ Newline \subseteq Packet /\ IsFiniteSet(AnyPacket)
<1>1. IsFiniteSet(-1 .. MaxPackets)
  BY PacketBounds, FS_Interval
<1>2. AnyPacket \in SUBSET (-1 .. MaxPackets)
  BY PacketBounds DEF AnyPacket, Packet, AttachPacket, ZeroPacket
<1>3. IsFiniteSet(AnyPacket)
  BY <1>1, <1>2, FS_Subset
<1> QED
  BY <1>3, PacketBounds DEF AnyPacket, Packet, AttachPacket, ZeroPacket

(* A failure is one of those allowed. *)
LEMMA FaultTyped ==
    faults \in 0 .. MaxFaults /\ Fault => faults' \in 0 .. MaxFaults /\ faults' # 0
BY PacketBounds DEF Fault

LEMMA SetExpirationTyped ==
    ASSUME TypeOK, SetExpiration
    PROVE  ttl' \in BOOLEAN /\ faults' \in 0 .. MaxFaults
<1>1. ttl \in BOOLEAN /\ faults \in 0 .. MaxFaults
  BY DEF TypeOK
<1>2. ttl' \in BOOLEAN
  BY <1>1, Zenon DEF SetExpiration
<1>3. faults' \in 0 .. MaxFaults
  BY <1>1, FaultTyped DEF SetExpiration
<1> QED BY <1>2, <1>3

LEMMA ForgetTyped ==
    ASSUME TypeOK, NEW s \in Server, Forget(s), faults' \in 0 .. MaxFaults
    PROVE  TypeOK'
<1>1. /\ cr' \in [Server -> Seq(Packet \cup {AttachPacket})]
      /\ live' \in [Server -> Seq(AnyPacket)]
      /\ text' \in [Server -> Seq(Packet)]
      /\ past' \in [Server -> Seq(Packet)]
  BY DEF TypeOK, Forget
<1>2. /\ ids' \in [Server -> SUBSET AnyPacket]
      /\ taken' \in [Server -> SUBSET Packet]
      /\ check' \in [Server -> Nat]
  BY DEF TypeOK, Forget
<1>3. /\ st' \in [Server -> Stage]
      /\ attached' \in [Server -> BOOLEAN]
      /\ tr' \in [Server -> {"none", "first", "load", "limit", "loop", "stopped"}]
      /\ tid' \in [Server -> BOOLEAN]
  BY DEF TypeOK, Forget, Stage
<1>4. UNCHANGED <<published, signalled, stored, suspended, expiring, kept, read, late, transcript, ttl,
                  reader>>
  BY DEF Forget, listVars, transcriptVars
<1> QED BY <1>1, <1>2, <1>3, <1>4 DEF TypeOK

LEMMA HubTyped ==
    ASSUME TypeOK, Publish \/ \E s \in Server : Signal(s)
    PROVE  TypeOK'
<1>1. CASE Publish
  <2>1. published + 1 \in Packet /\ published' \in 0 .. MaxPackets
    BY <1>1, PacketBounds DEF TypeOK, Publish, Packet
  <2>2. cr' \in [Server -> Seq(Packet \cup {AttachPacket})]
    BY <1>1, <2>1 DEF TypeOK, Publish
  <2> QED
    BY <1>1, <2>1, <2>2 DEF TypeOK, Publish, trVars, listVars, endVars, transcriptVars
<1>2. CASE \E s \in Server : Signal(s)
  <2> PICK s \in Server : Signal(s)
    BY <1>2
  <2>1. cr' \in [Server -> Seq(Packet \cup {AttachPacket})]
    BY DEF TypeOK, Signal
  <2> QED
    BY <2>1 DEF TypeOK, Signal, trVars, listVars, endVars, transcriptVars
<1> QED BY <1>1, <1>2

LEMMA StageTyped ==
    ASSUME TypeOK, NEW s \in Server,
           Start(s) \/ Shutdown(s) \/ Cancel(s) \/ EndSession(s) \/ CloseClient(s) \/ SaveState(s)
           \/ End(s)
    PROVE  TypeOK'
<1>1. CASE Start(s)
  <2>1. past' \in [Server -> Seq(Packet)]
    BY <1>1 DEF TypeOK, Start
  <2> QED
    BY <1>1, <2>1 DEF TypeOK, Start, Stage, listVars, endVars, transcriptVars
<1>2. CASE Shutdown(s) \/ Cancel(s)
  BY <1>2 DEF TypeOK, Shutdown, Cancel, Stage, hubVars, trVars, listVars, endVars, transcriptVars
<1>3. CASE EndSession(s)
  <2>1. attached' \in [Server -> BOOLEAN]
    BY <1>3 DEF TypeOK, EndSession
  <2>2. faults' \in 0 .. MaxFaults
    BY <1>3, FaultTyped DEF TypeOK, EndSession
  <2> QED
    BY <1>3, <2>1, <2>2 DEF TypeOK, EndSession, Stage, trVars, listVars, endVars, transcriptVars
<1>4. CASE SaveState(s)
  <2>1. stored' \in Seq(Packet) \cup {NoState} /\ faults' \in 0 .. MaxFaults
    BY <1>4, FaultTyped DEF TypeOK, SaveState
  <2> QED
    BY <1>4, <2>1 DEF TypeOK, SaveState, Stage, hubVars, trVars, listVars, endVars, transcriptVars
<1>5. CASE End(s)
  BY <1>5 DEF TypeOK, End, Transcribe, Stage, hubVars, trVars, listVars, transcriptVars
<1>6. CASE CloseClient(s)
  BY <1>6 DEF TypeOK, CloseClient, trVars, listVars, endVars, transcriptVars
<1> QED BY <1>1, <1>2, <1>3, <1>4, <1>5, <1>6

LEMMA TranscriptTyped ==
    ASSUME TypeOK,
           \/ FetchTranscript \/ RenewTranscript \/ DropTranscript
           \/ \E s \in Server : StoreTranscript(s) \/ LimitTranscript(s)
    PROVE  TypeOK'
<1>1. CASE FetchTranscript
  BY <1>1 DEF TypeOK, FetchTranscript, hubVars, trVars, listVars
<1>2. CASE RenewTranscript
  BY <1>2, SetExpirationTyped DEF TypeOK, RenewTranscript, hubVars, trVars, listVars
<1>3. CASE DropTranscript
  BY <1>3 DEF TypeOK, DropTranscript, hubVars, trVars, listVars
<1>4. CASE \E s \in Server : StoreTranscript(s)
  <2> PICK s \in Server : StoreTranscript(s)
    BY <1>4
  <2>1. transcript' \in Seq(Packet) \cup {NoState}
    BY DEF TypeOK, StoreTranscript
  <2>4. ttl' \in BOOLEAN
    BY DEF TypeOK, StoreTranscript
  <2>5. tid' \in [Server -> BOOLEAN]
    BY DEF TypeOK, StoreTranscript
  <2>2. faults' \in 0 .. MaxFaults
    BY FaultTyped DEF TypeOK, StoreTranscript
  <2>3. st' \in [Server -> Stage]
    BY DEF TypeOK, StoreTranscript, Stage
  <2> QED
    BY <2>1, <2>2, <2>3, <2>4, <2>5 DEF TypeOK, StoreTranscript, hubVars, trVars, listVars
<1>5. CASE \E s \in Server : LimitTranscript(s)
  BY <1>5, SetExpirationTyped DEF TypeOK, LimitTranscript, Stage, hubVars, trVars, listVars
<1> QED BY <1>1, <1>2, <1>3, <1>4, <1>5

(* What a receive yields, and what it leaves of the channel. *)
LEMMA ReceiveTyped ==
    ASSUME TypeOK, NEW s \in Server, NEW p \in AnyPacket, Receive(s, p)
    PROVE  cr' \in [Server -> Seq(Packet \cup {AttachPacket})]
<1>1. cr[s] # <<>> => Tail(cr[s]) \in Seq(Packet \cup {AttachPacket})
  BY DEF TypeOK
<1> QED BY <1>1 DEF TypeOK, Receive

(* The list in storage, and what is known of it. *)
ListOK ==
    /\ suspended \in Seq(AnyPacket) /\ kept \in SUBSET AnyPacket /\ expiring \in BOOLEAN
    /\ read \in SUBSET Packet /\ late \in SUBSET Packet

LEMMA PushTyped ==
    ASSUME TypeOK, NEW q \in Seq(AnyPacket), Push(q)
    PROVE  ListOK'
<1>1. Range(q) \in SUBSET AnyPacket
  BY RangeOfSeq
<1>2. late' \in SUBSET Packet
  BY DEF TypeOK, Push
<1> QED BY <1>1, <1>2 DEF TypeOK, ListOK, Push, PushListMembers

LEMMA LoadTyped ==
    ASSUME TypeOK, NEW s \in Server, First(s) \/ LoadPackets(s) \/ LimitPackets(s)
    PROVE  TypeOK'
<1>1. CASE First(s)
  BY <1>1, ReceiveTyped DEF TypeOK, First, AnyPacket, hubVars, listVars, endVars, transcriptVars
<1>2. CASE LoadPackets(s)
  <2>1. Range(suspended) \in SUBSET AnyPacket
    BY RangeOfSeq DEF TypeOK
  <2>2. ids' \in [Server -> SUBSET AnyPacket]
    <3>1. ids' = ids \/ ids' = [ids EXCEPT ![s] = Range(suspended)]
      BY <1>2 DEF LoadPackets
    <3>2. ids \in [Server -> SUBSET AnyPacket]
      BY DEF TypeOK
    <3> QED BY <2>1, <3>1, <3>2
  <2>5. read' \in SUBSET Packet
    BY <1>2 DEF TypeOK, LoadPackets
  <2>6. faults' \in 0 .. MaxFaults
    BY <1>2, FaultTyped DEF TypeOK, LoadPackets
  <2>3. check' \in [Server -> Nat]
    <3>1. Cardinality(ids'[s]) \in Nat
      BY <2>2, PacketsAreNumbers, FS_Subset, FS_CardinalityType
    <3> QED BY <1>2, <3>1 DEF TypeOK, LoadPackets
  <2>4. tr' \in [Server -> {"none", "first", "load", "limit", "loop", "stopped"}]
    BY <1>2 DEF TypeOK, LoadPackets
  <2> QED
    BY <1>2, <2>2, <2>3, <2>4, <2>5, <2>6 DEF TypeOK, LoadPackets, hubVars, endVars, transcriptVars
<1>3. CASE LimitPackets(s)
  <2>1. expiring' \in BOOLEAN
    <3>1. expiring \in BOOLEAN
      BY DEF TypeOK
    <3> QED BY <1>3, <3>1, Zenon DEF LimitPackets
  <2>2. faults' \in 0 .. MaxFaults
    BY <1>3, FaultTyped DEF TypeOK, LimitPackets
  <2>3. tr' \in [Server -> {"none", "first", "load", "limit", "loop", "stopped"}]
    BY <1>3 DEF TypeOK, LimitPackets
  <2> QED
    BY <1>3, <2>1, <2>2, <2>3 DEF TypeOK, LimitPackets, hubVars, endVars, transcriptVars
<1> QED BY <1>1, <1>2, <1>3

(* What the loop does with a packet. *)
Treat(s, p) == HandOver(s, p) \/ Skip(s, p) \/ TranscribeOne(s, p)

LEMMA TreatTyped ==
    ASSUME TypeOK, NEW s \in Server, NEW p \in AnyPacket, Treat(s, p)
    PROVE  /\ check' \in [Server -> Nat]
           /\ live' \in [Server -> Seq(AnyPacket)]
           /\ text' \in [Server -> Seq(Packet)]
           /\ past' \in [Server -> Seq(Packet)]
           /\ ListOK' /\ faults' \in 0 .. MaxFaults
<1>1. CASE HandOver(s, p)
  <2> DEFINE q == Append(live[s], p)
  <2>1. q \in Seq(AnyPacket)
    BY DEF TypeOK
  <2>2. live' \in [Server -> Seq(AnyPacket)]
    <3>1. live' = [live EXCEPT ![s] = <<>>] \/ live' = [live EXCEPT ![s] = q]
      BY <1>1 DEF HandOver
    <3>2. live \in [Server -> Seq(AnyPacket)] /\ <<>> \in Seq(AnyPacket)
      BY DEF TypeOK
    <3> HIDE DEF q
    <3> QED BY <2>1, <3>1, <3>2
  <2>3. ListOK' /\ faults' \in 0 .. MaxFaults
    <3>1. (Push(q) /\ UNCHANGED faults) \/ (Fault /\ UNCHANGED listVars)
      BY <1>1 DEF HandOver
    <3> HIDE DEF q
    <3>2. CASE Push(q) /\ UNCHANGED faults
      BY <2>1, <3>2, PushTyped DEF TypeOK
    <3>3. CASE Fault /\ UNCHANGED listVars
      BY <3>3, FaultTyped DEF TypeOK, ListOK, listVars
    <3> QED BY <3>1, <3>2, <3>3
  <2> QED BY <1>1, <2>2, <2>3 DEF TypeOK, HandOver
<1>2. CASE Skip(s, p)
  BY <1>2 DEF TypeOK, ListOK, Skip, listVars
<1>3. CASE TranscribeOne(s, p)
  <2>1. check' \in [Server -> Nat]
    BY <1>3 DEF TypeOK, TranscribeOne, OneLess
  <2>2. live' \in [Server -> Seq(AnyPacket)]
    BY <1>3 DEF TypeOK, TranscribeOne, LiveAfter
  <2>3. text' \in [Server -> Seq(Packet)]
    BY <1>3 DEF TypeOK, TranscribeOne, TextAfter
  <2>4. past' \in [Server -> Seq(Packet)]
    <3>1. p \in Newline => past[s] \o Append(text[s], p) \in Seq(Packet)
      BY PacketsAreNumbers DEF TypeOK
    <3> QED BY <1>3, <3>1 DEF TypeOK, TranscribeOne
  <2> QED BY <1>3, <2>1, <2>2, <2>3, <2>4 DEF TypeOK, ListOK, TranscribeOne, listVars
<1> QED BY <1>1, <1>2, <1>3 DEF Treat

LEMMA TakeTyped ==
    ASSUME TypeOK, NEW s \in Server, Take(s)
    PROVE  TypeOK'
<1> PICK p \in AnyPacket : Receive(s, p) /\ Treat(s, p)
                           /\ taken' = [taken EXCEPT ![s] = @ \cup ({p} \cap Packet)]
  BY DEF Take, Treat, AnyPacket
<1>1. taken' \in [Server -> SUBSET Packet]
  BY DEF TypeOK
<1> QED
  BY <1>1, ReceiveTyped, TreatTyped DEF TypeOK, ListOK, Take, hubVars, endVars, transcriptVars

LEMMA DoneTyped ==
    ASSUME TypeOK, NEW s \in Server, Done(s)
    PROVE  TypeOK'
<1>1. ListOK' /\ faults' \in 0 .. MaxFaults
  BY PushTyped, FaultTyped DEF TypeOK, ListOK, Done, listVars
<1>2. tr' \in [Server -> {"none", "first", "load", "limit", "loop", "stopped"}]
  BY DEF TypeOK, Done
<1> QED BY <1>1, <1>2 DEF TypeOK, ListOK, Done, hubVars, endVars, transcriptVars

LEMMA InitTyped == Init => TypeOK
<1> SUFFICES ASSUME Init PROVE TypeOK
  OBVIOUS
<1>1. published \in 0 .. MaxPackets /\ faults \in 0 .. MaxFaults
  BY PacketBounds DEF Init
<1>2. /\ cr \in [Server -> Seq(Packet \cup {AttachPacket})]
      /\ live \in [Server -> Seq(AnyPacket)]
      /\ text \in [Server -> Seq(Packet)] /\ past \in [Server -> Seq(Packet)]
      /\ stored \in Seq(Packet) /\ suspended \in Seq(AnyPacket)
  BY DEF Init
<1>3. /\ ids \in [Server -> SUBSET AnyPacket] /\ taken \in [Server -> SUBSET Packet]
      /\ check \in [Server -> Nat]
  BY DEF Init
<1>4. /\ st \in [Server -> Stage] /\ attached \in [Server -> BOOLEAN]
      /\ signalled \in [Server -> BOOLEAN] /\ tid \in [Server -> BOOLEAN]
      /\ tr \in [Server -> {"none", "first", "load", "limit", "loop", "stopped"}]
  BY DEF Init, Stage
<1> QED BY <1>1, <1>2, <1>3, <1>4 DEF Init, TypeOK

LEMMA NextTyped == TypeOK /\ [Next]_vars => TypeOK'
<1> SUFFICES ASSUME TypeOK, [Next]_vars PROVE TypeOK'
  OBVIOUS
<1>1. CASE Publish \/ \E s \in Server : Signal(s)
  BY <1>1, HubTyped
<1>2. CASE Expire
  <2>1. suspended' \in Seq(AnyPacket)
    BY <1>2 DEF Expire
  <2>2. expiring' \in BOOLEAN
    BY <1>2 DEF Expire
  <2> QED
    BY <1>2, <2>1, <2>2 DEF TypeOK, Expire, hubVars, trVars, endVars, transcriptVars
<1>3. CASE \/ FetchTranscript \/ RenewTranscript \/ DropTranscript
           \/ \E s \in Server : Finish(s)
  BY <1>3, TranscriptTyped DEF Finish
<1>4. CASE \E s \in Server : Start(s) \/ Shutdown(s) \/ End(s) \/ Cancel(s) \/ EndSession(s)
                             \/ CloseClient(s) \/ SaveState(s)
  BY <1>4, StageTyped
<1>5. CASE \E s \in Server : Exit(s) \/ Panic(s) \/ Crash(s)
  BY <1>5, ForgetTyped, FaultTyped DEF Exit, Panic, Crash, TypeOK
<1>6. CASE \E s \in Server : Transcriber(s)
  BY <1>6, LoadTyped, TakeTyped, DoneTyped DEF Transcriber
<1>7. CASE UNCHANGED vars
  BY <1>7 DEF TypeOK, vars, hubVars, trVars, listVars, endVars, transcriptVars
<1> QED BY <1>1, <1>2, <1>3, <1>4, <1>5, <1>6, <1>7 DEF Next, Suspend

(* Every variable keeps its kind of value, whatever fails or crashes. *)
THEOREM TypeCorrect == Spec => []TypeOK
BY InitTyped, NextTyped, PTL DEF Spec

-----------------------------------------------------------------------------
(* One server at a time *)

(* Server s has the session: it was started there, and has not been saved  *)
(* or closed.                                                              *)
Holder(s) == st[s] \in {"running", "grace", "cancelled", "detached", "ending"}

(* One server has the session, or storage has it, or nobody.               *)
InTurns ==
    /\ \A s \in Server : attached[s] => st[s] \notin {"none", "gone"}
    /\ \A s, t \in Server : Holder(s) /\ Holder(t) => s = t
    /\ stored # NoState => \A s \in Server : ~Holder(s)

(* A server that does not run, or not any more, has nothing in memory.     *)
Blank(s) == /\ tr[s] = "none" /\ cr[s] = <<>> /\ live[s] = <<>> /\ text[s] = <<>>
            /\ past[s] = <<>> /\ taken[s] = {} /\ ids[s] = {}

BlankOutside == \A s \in Server : st[s] \in {"none", "gone"} => Blank(s)


(* Who passes packets to the session has it, and has not closed cr.        *)
LEMMA ListenerHolds ==
    ASSUME TypeOK, InTurns, NEW s \in Server, Listening(s)
    PROVE  Holder(s) /\ st[s] # "detached"
BY DEF TypeOK, InTurns, Listening, CrClosed, Holder, Stage

LEMMA SameTurns ==
    ASSUME InTurns, UNCHANGED <<st, attached, stored>>
    PROVE  InTurns'
BY DEF InTurns, Holder

LEMMA TurnsKept ==
    ASSUME TypeOK, InTurns, [Next]_vars
    PROVE  InTurns'
<1>1. CASE \/ Publish \/ Expire \/ FetchTranscript \/ RenewTranscript \/ DropTranscript
           \/ UNCHANGED vars
  <2>1. UNCHANGED <<st, attached, stored>>
    BY <1>1 DEF Publish, Expire, FetchTranscript, RenewTranscript, DropTranscript, vars, hubVars
  <2> QED BY <2>1, SameTurns
<1>2. CASE \E s \in Server : Signal(s) \/ Transcriber(s)
  <2>1. UNCHANGED <<st, attached, stored>>
    BY <1>2 DEF Signal, Transcriber, First, LoadPackets, LimitPackets, Take, Done, hubVars
  <2> QED BY <2>1, SameTurns
<1>3. ASSUME NEW s \in Server, Start(s) PROVE InTurns'
  <2>1. /\ stored # NoState /\ stored' = NoState
        /\ st'[s] = "running" /\ attached'[s] = TRUE
        /\ \A t \in Server \ {s} : st'[t] = st[t] /\ attached'[t] = attached[t]
    BY <1>3 DEF TypeOK, Start
  <2> QED BY <2>1 DEF InTurns, Holder
<1>4. ASSUME NEW s \in Server, Shutdown(s) \/ Cancel(s) \/ End(s) PROVE InTurns'
  <2>1. /\ UNCHANGED <<attached, stored>>
        /\ st[s] \in {"running", "grace"} /\ st'[s] \in {"grace", "cancelled", "ending"}
        /\ \A t \in Server \ {s} : st'[t] = st[t]
    BY <1>4 DEF TypeOK, Shutdown, Cancel, End, hubVars
  <2> QED BY <2>1 DEF InTurns, Holder
<1>5. ASSUME NEW s \in Server, EndSession(s) PROVE InTurns'
  <2>1. /\ UNCHANGED stored
        /\ st[s] \in {"cancelled", "ending"} /\ st'[s] \in {"detached", "closed"}
        /\ \A t \in Server \ {s} : st'[t] = st[t] /\ attached'[t] = attached[t]
    BY <1>5 DEF TypeOK, EndSession
  <2> QED BY <2>1 DEF InTurns, Holder
<1>6. ASSUME NEW s \in Server, SaveState(s) PROVE InTurns'
  <2>1. /\ UNCHANGED attached /\ st[s] = "detached" /\ st'[s] = "saved"
        /\ \A t \in Server \ {s} : st'[t] = st[t]
    BY <1>6 DEF TypeOK, SaveState, hubVars
  <2> QED BY <2>1 DEF InTurns, Holder
<1>7. ASSUME NEW s \in Server, Finish(s) PROVE InTurns'
  <2>1. /\ UNCHANGED <<attached, stored>>
        /\ st[s] \in {"closed", "stored"} /\ st'[s] \in {"stored", "over"}
        /\ \A t \in Server \ {s} : st'[t] = st[t]
    BY <1>7 DEF TypeOK, Finish, StoreTranscript, LimitTranscript, hubVars
  <2> QED BY <2>1 DEF InTurns, Holder
<1>8. ASSUME NEW s \in Server, Forget(s) PROVE InTurns'
  <2>1. /\ UNCHANGED stored /\ attached'[s] = FALSE /\ st'[s] = "gone"
        /\ \A t \in Server \ {s} : st'[t] = st[t] /\ attached'[t] = attached[t]
    BY <1>8 DEF TypeOK, Forget
  <2> QED BY <2>1 DEF InTurns, Holder
<1>9. ASSUME NEW s \in Server, CloseClient(s) PROVE InTurns'
  <2>1. /\ UNCHANGED <<st, stored>>
        /\ \A t \in Server : attached'[t] => attached[t]
    BY <1>9 DEF TypeOK, CloseClient
  <2> QED BY <2>1 DEF InTurns, Holder
<1> QED
  BY <1>1, <1>2, <1>3, <1>4, <1>5, <1>6, <1>7, <1>8, <1>9 DEF Next, Suspend, Exit, Panic, Crash

(* What the session and its transcriber have in memory. *)
memory == <<tr, cr, live, text, past, taken, ids>>

(* Memory changes at server s only. *)
OnlyAt(s) ==
    \A t \in Server \ {s} :
        /\ st'[t] = st[t] /\ tr'[t] = tr[t] /\ cr'[t] = cr[t] /\ live'[t] = live[t]
        /\ text'[t] = text[t] /\ past'[t] = past[t] /\ taken'[t] = taken[t]
        /\ ids'[t] = ids[t]

LEMMA BlankKept ==
    ASSUME TypeOK, InTurns, BlankOutside, [Next]_vars
    PROVE  BlankOutside'
<1>1. CASE \/ Expire \/ FetchTranscript \/ RenewTranscript \/ DropTranscript
           \/ UNCHANGED vars
  <2>1. UNCHANGED <<st, memory>>
    BY <1>1 DEF Expire, FetchTranscript, RenewTranscript, DropTranscript, vars, trVars, memory
  <2> QED BY <2>1 DEF BlankOutside, Blank, memory
<1>2. CASE Publish
  <2>1. /\ \A s \in Server : ~Listening(s) => cr'[s] = cr[s]
        /\ UNCHANGED <<st, tr, live, text, past, taken, ids>>
    BY <1>2 DEF TypeOK, Publish, trVars
  <2> QED BY <2>1, ListenerHolds DEF BlankOutside, Blank, Holder
<1>3. ASSUME NEW s \in Server, Signal(s) \/ Transcriber(s) PROVE BlankOutside'
  <2>1. UNCHANGED st /\ OnlyAt(s)
    <3>1. CASE Signal(s)
      BY <3>1 DEF TypeOK, Signal, OnlyAt, trVars
    <3>2. CASE First(s)
      BY <3>2 DEF TypeOK, First, Receive, OnlyAt
    <3>3. CASE LoadPackets(s) \/ LimitPackets(s)
      BY <3>3 DEF TypeOK, LoadPackets, LimitPackets, OnlyAt
    <3>4. CASE Take(s)
      BY <3>4 DEF TypeOK, Take, Receive, HandOver, Skip, TranscribeOne, OnlyAt
    <3>5. CASE Done(s)
      BY <3>5 DEF TypeOK, Done, OnlyAt
    <3> QED BY <1>3, <3>1, <3>2, <3>3, <3>4, <3>5 DEF Transcriber
  <2>2. st[s] \notin {"none", "gone"}
    BY <1>3, ListenerHolds DEF BlankOutside, Blank, Holder, Signal, Transcriber, First, LoadPackets,
       LimitPackets, Take, Done
  <2> QED BY <2>1, <2>2 DEF BlankOutside, Blank, OnlyAt
<1>4. ASSUME NEW s \in Server, Start(s) PROVE BlankOutside'
  <2>1. OnlyAt(s) /\ st'[s] = "running"
    BY <1>4 DEF TypeOK, Start, OnlyAt
  <2> QED BY <2>1 DEF BlankOutside, Blank, OnlyAt
<1>5. ASSUME NEW s \in Server,
             \/ Shutdown(s) \/ Cancel(s) \/ End(s) \/ EndSession(s) \/ CloseClient(s) \/ SaveState(s)
             \/ Finish(s)
      PROVE  BlankOutside'
  <2>1. UNCHANGED memory /\ (st'[s] \notin {"none", "gone"} \/ st' = st)
        /\ \A t \in Server \ {s} : st'[t] = st[t]
    BY <1>5 DEF TypeOK, Shutdown, Cancel, End, EndSession, CloseClient, SaveState, Finish, StoreTranscript,
       LimitTranscript, memory, trVars
  <2> QED BY <2>1 DEF BlankOutside, Blank, memory
<1>6. ASSUME NEW s \in Server, Forget(s) PROVE BlankOutside'
  <2>1. OnlyAt(s)
    BY <1>6 DEF TypeOK, Forget, OnlyAt
  <2>2. Blank(s)'
    BY <1>6 DEF TypeOK, Forget, Blank
  <2> QED BY <2>1, <2>2 DEF BlankOutside, Blank, OnlyAt
<1> QED
  BY <1>1, <1>2, <1>3, <1>4, <1>5, <1>6 DEF Next, Suspend, Exit, Panic, Crash

(* Failures are not forgotten.                                             *)
LEMMA FaultsStay ==
    ASSUME TypeOK, [Next]_vars
    PROVE  faults # 0 => faults' # 0
<1>1. CASE \/ Publish \/ Expire \/ FetchTranscript \/ RenewTranscript \/ DropTranscript
           \/ UNCHANGED vars \/ \E s \in Server : Finish(s)
  BY <1>1, FaultTyped DEF TypeOK, Publish, Expire, FetchTranscript, RenewTranscript, DropTranscript,
     SetExpiration, Finish, StoreTranscript, LimitTranscript, vars
<1>2. CASE \E s \in Server : \/ Signal(s) \/ Start(s) \/ Shutdown(s) \/ End(s) \/ Crash(s)
                             \/ Panic(s) \/ Suspend(s)
  BY <1>2, FaultTyped DEF TypeOK, Signal, Start, Shutdown, End, Crash, Panic, Suspend, Cancel,
     EndSession, CloseClient, SaveState, Exit
<1>3. CASE \E s \in Server : Transcriber(s)
  BY <1>3, FaultTyped DEF TypeOK, Transcriber, First, LoadPackets, LimitPackets, Take, HandOver, Skip,
     TranscribeOne, Done
<1> QED BY <1>1, <1>2, <1>3 DEF Next

(* A channel that is still attached once cr is closed was not detached.    *)
DetachFailed == \A s \in Server : attached[s] /\ CrClosed(s) => faults # 0

LEMMA DetachKept ==
    ASSUME TypeOK, DetachFailed, [Next]_vars
    PROVE  DetachFailed'
<1>1. faults # 0 => faults' # 0
  BY FaultsStay
<1>2. CASE \/ Publish \/ Expire \/ FetchTranscript \/ RenewTranscript \/ DropTranscript
           \/ UNCHANGED vars \/ \E s \in Server : Signal(s) \/ Transcriber(s)
  <2>1. UNCHANGED <<st, attached>>
    BY <1>2 DEF Publish, Expire, FetchTranscript, RenewTranscript, DropTranscript, vars, Signal,
       Transcriber, First, LoadPackets, LimitPackets, Take, Done, hubVars
  <2> QED BY <1>1, <2>1 DEF DetachFailed, CrClosed
<1>3. ASSUME NEW s \in Server,
             \/ Start(s) \/ Shutdown(s) \/ Cancel(s) \/ End(s) \/ SaveState(s) \/ Finish(s)
             \/ CloseClient(s) \/ Forget(s)
      PROVE  DetachFailed'
  <2>1. /\ attached'[s] /\ CrClosed(s)' => attached[s] /\ CrClosed(s)
        /\ \A t \in Server \ {s} : st'[t] = st[t] /\ attached'[t] = attached[t]
    BY <1>3 DEF TypeOK, Start, Shutdown, Cancel, End, SaveState, Finish, StoreTranscript,
       LimitTranscript, CloseClient, Forget, CrClosed, hubVars
  <2> QED BY <1>1, <2>1 DEF DetachFailed, CrClosed
<1>4. ASSUME NEW s \in Server, EndSession(s) PROVE DetachFailed'
  <2>1. /\ ~attached'[s] \/ faults' # 0
        /\ \A t \in Server \ {s} : st'[t] = st[t] /\ attached'[t] = attached[t]
    BY <1>4, FaultTyped DEF TypeOK, EndSession
  <2> QED BY <1>1, <2>1 DEF DetachFailed, CrClosed
<1> QED
  BY <1>2, <1>3, <1>4 DEF Next, Suspend, Exit, Panic, Crash

Base == TypeOK /\ InTurns /\ BlankOutside /\ DetachFailed

LEMMA InitBase == Init => Base
<1>1. Init => InTurns
  BY DEF Init, InTurns, Holder
<1>2. Init => BlankOutside
  BY DEF Init, BlankOutside, Blank
<1>3. Init => DetachFailed
  BY DEF Init, DetachFailed
<1> QED BY <1>1, <1>2, <1>3, InitTyped DEF Base

LEMMA NextBase == Base /\ [Next]_vars => Base'
BY NextTyped, TurnsKept, BlankKept, DetachKept DEF Base

LEMMA BaseAlways == Spec => []Base
BY InitBase, NextBase, PTL DEF Spec

(* Two servers never both pass packets of the conversation to their        *)
(* sessions, whatever fails, the detach of a channel among it, and         *)
(* wherever they crash: Shutdown closes cr (pubsub/ably.go, session.end)   *)
(* before it saves the state from which the next server starts.            *)
THEOREM OneListenerAlways == Spec => []OneListener
<1>1. Base => OneListener
  BY ListenerHolds DEF Base, InTurns, OneListener
<1> QED BY <1>1, BaseAlways, PTL

-----------------------------------------------------------------------------
(* Transcripts *)

(* A transcript without a lifetime is about to be given one, or a command  *)
(* has failed.                                                             *)
LEMMA ExpiryKept ==
    ASSUME TypeOK, DetachFailed, TranscriptsExpire, [Next]_vars
    PROVE  TranscriptsExpire'
<1>1. CASE \/ Publish \/ Expire \/ FetchTranscript \/ UNCHANGED vars
           \/ \E s \in Server : Signal(s) \/ Transcriber(s)
  <2>1. UNCHANGED <<st, transcript, ttl>>
    BY <1>1 DEF Publish, Expire, FetchTranscript, Signal, Transcriber, First, LoadPackets,
       LimitPackets, Take, Done, vars, endVars, transcriptVars
  <2>2. faults' = 0 => faults = 0
    BY FaultsStay
  <2> QED BY <2>1, <2>2 DEF TranscriptsExpire
<1>2. CASE RenewTranscript \/ \E s \in Server : LimitTranscript(s)
  <2>1. SetExpiration /\ UNCHANGED transcript
    BY <1>2 DEF RenewTranscript, LimitTranscript
  <2>2. faults' # 0 \/ ttl' = (transcript # NoState)
    BY <2>1, FaultTyped DEF TypeOK, SetExpiration
  <2> QED BY <2>1, <2>2 DEF TranscriptsExpire
<1>3. CASE DropTranscript
  BY <1>3 DEF DropTranscript, TranscriptsExpire
<1>4. ASSUME NEW s \in Server, StoreTranscript(s) PROVE TranscriptsExpire'
  <2>1. CASE st'[s] = "stored"
    BY <2>1 DEF TranscriptsExpire
  <2>2. CASE st'[s] # "stored"
    <3>1. /\ UNCHANGED <<transcript, ttl>> /\ st[s] = "closed"
          /\ \A t \in Server \ {s} : st'[t] = st[t]
      BY <1>4, <2>2 DEF TypeOK, StoreTranscript
    <3>2. faults' = 0 => faults = 0
      BY FaultsStay
    <3> QED BY <3>1, <3>2 DEF TranscriptsExpire
  <2> QED BY <2>1, <2>2
<1>5. ASSUME NEW s \in Server,
             \/ Start(s) \/ Shutdown(s) \/ Cancel(s) \/ End(s) \/ EndSession(s) \/ CloseClient(s)
             \/ SaveState(s) \/ Exit(s)
      PROVE  TranscriptsExpire'
  <2>1. /\ UNCHANGED <<transcript, ttl>> /\ (st[s] # "stored" \/ st' = st)
        /\ \A t \in Server \ {s} : st'[t] = st[t]
    BY <1>5 DEF TypeOK, Start, Shutdown, Cancel, End, EndSession, CloseClient, SaveState, Exit, Forget,
       endVars, transcriptVars
  <2>2. faults' = 0 => faults = 0
    BY FaultsStay
  <2> QED BY <2>1, <2>2 DEF TranscriptsExpire
<1>6. CASE \E s \in Server : Crash(s) \/ Panic(s)
  <2>1. faults' # 0
    BY <1>6, FaultTyped, FaultsStay DEF Crash, Panic, TypeOK, DetachFailed
  <2> QED BY <2>1 DEF TranscriptsExpire
<1> QED
  BY <1>1, <1>2, <1>3, <1>4, <1>5, <1>6 DEF Next, Suspend, Finish

(* Short of a failure or a crash, every transcript is given its year: of   *)
(* the loads, deletions and endings that fall between the two commands of  *)
(* saveTranscript, none leaves one without a lifetime.                     *)
THEOREM TranscriptsExpireHolds == Spec => []TranscriptsExpire
<1>1. Init => TranscriptsExpire
  BY DEF Init, TranscriptsExpire
<1>2. Base /\ TranscriptsExpire /\ [Next]_vars => TranscriptsExpire'
  BY ExpiryKept DEF Base
<1> QED BY <1>1, <1>2, BaseAlways, PTL DEF Spec

-----------------------------------------------------------------------------
(* What a transcriber takes is kept *)

(* Where the packets are that a transcriber has taken, if nothing fails.   *)
Accounted(s) ==
    /\ ids[s] \cap Packet \subseteq kept
    /\ tr[s] # "stopped" => taken[s] \subseteq Range(past[s]) \cup kept \cup Range(live[s])
    /\ tr[s] # "stopped" /\ ~ShuttingDown(s) => Range(live[s]) \cap Packet \subseteq Range(text[s])
    /\ tr[s] = "stopped" => Cancelled(s)
    /\ tr[s] = "stopped" /\ ShuttingDown(s) => taken[s] \subseteq Range(past[s]) \cup kept

AllAccounted ==
    faults = 0 => Range(suspended) \subseteq kept /\ \A s \in Server : Accounted(s)

LEMMA RangeAppend ==
    ASSUME NEW S, NEW q \in Seq(S), NEW p \in S
    PROVE  Range(Append(q, p)) = Range(q) \cup {p}
<1>1. /\ DOMAIN Append(q, p) = DOMAIN q \cup {Len(q) + 1}
      /\ \A i \in DOMAIN q : Append(q, p)[i] = q[i]
      /\ Append(q, p)[Len(q) + 1] = p
  OBVIOUS
<1> QED BY <1>1 DEF Range

LEMMA RangeEmpty == Range(<<>>) = {}
BY DEF Range

(* Pushing adds to what was ever pushed. *)
LEMMA PushKeeps ==
    ASSUME TypeOK, Range(suspended) \subseteq kept, NEW q \in Seq(AnyPacket), Push(q)
    PROVE  Range(suspended') \subseteq kept' /\ kept' = kept \cup Range(q)
<1>1. Range(suspended \o q) = Range(suspended) \cup Range(q)
  BY RangeConcatenation DEF TypeOK
<1> QED BY <1>1 DEF Push, PushListMembers

(* If kept only grows and nothing else changes of a server, it stays       *)
(* accounted for.                                                          *)
LEMMA OthersAccounted ==
    ASSUME NEW s, NEW t, s # t, t \in Server, OnlyAt(s), kept \subseteq kept', Accounted(t)
    PROVE  Accounted(t)'
BY DEF OnlyAt, Accounted, ShuttingDown, Cancelled

(* What a transcribed packet adds to, at a newline and elsewhere.          *)
LEMMA TranscribeRanges ==
    ASSUME TypeOK, NEW s \in Server, NEW p \in AnyPacket, TranscribeOne(s, p)
    PROVE  /\ p \in Newline => /\ Range(past'[s]) = Range(past[s]) \cup Range(text[s]) \cup {p}
                              /\ Range(text'[s]) = {} /\ Range(live'[s]) = {}
           /\ p \notin Newline => /\ past'[s] = past[s]
                                 /\ Range(text'[s]) = Range(text[s]) \cup ({p} \cap Packet)
                                 /\ Range(live'[s]) = Range(live[s]) \cup {p}
<1>1. /\ past'[s] = IF p \in Newline THEN past[s] \o Append(text[s], p) ELSE past[s]
      /\ text'[s] = TextAfter(s, p) /\ live'[s] = LiveAfter(s, p)
  BY DEF TypeOK, TranscribeOne
<1>2. CASE p \in Newline
  <2>1. /\ p \in Packet /\ text[s] \in Seq(Packet) /\ past[s] \in Seq(Packet)
    BY <1>2, PacketsAreNumbers DEF TypeOK
  <2> DEFINE line == Append(text[s], p)
  <2>2. line \in Seq(Packet) /\ Range(line) = Range(text[s]) \cup {p}
    BY <2>1, RangeAppend
  <2>3. past'[s] = past[s] \o line
    BY <1>1, <1>2
  <2>4. Range(live'[s]) = {} /\ Range(text'[s]) = {}
    BY <1>1, <1>2, RangeEmpty DEF LiveAfter, TextAfter
  <2> HIDE DEF line
  <2>5. Range(past[s] \o line) = Range(past[s]) \cup Range(line)
    BY <2>1, <2>2, RangeConcatenation
  <2> QED BY <1>2, <2>2, <2>3, <2>4, <2>5
<1>3. CASE p \notin Newline
  <2>1. Range(live'[s]) = Range(live[s]) \cup {p}
    BY <1>1, <1>3, RangeAppend DEF LiveAfter, TypeOK
  <2>2. CASE p \in Packet
    <3>1. text'[s] = Append(text[s], p) /\ text[s] \in Seq(Packet)
      BY <1>1, <1>3, <2>2 DEF TextAfter, TypeOK
    <3>2. Range(text'[s]) = Range(text[s]) \cup {p}
      BY <2>2, <3>1, RangeAppend
    <3> QED BY <1>1, <1>3, <2>1, <2>2, <3>2
  <2>3. CASE p \notin Packet
    BY <1>1, <1>3, <2>1, <2>3 DEF TextAfter
  <2> QED BY <2>2, <2>3
<1> QED BY <1>2, <1>3

LEMMA TreatAccounted ==
    ASSUME Base, faults' = faults, Range(suspended) \subseteq kept, NEW s \in Server, Accounted(s),
           tr[s] = "loop", UNCHANGED <<tr, st, ids>>, NEW p \in AnyPacket, Treat(s, p),
           taken' = [taken EXCEPT ![s] = @ \cup ({p} \cap Packet)]
    PROVE  Range(suspended') \subseteq kept' /\ kept \subseteq kept' /\ Accounted(s)'
<1>1. taken'[s] = taken[s] \cup ({p} \cap Packet) /\ taken[s] \subseteq Packet
  BY DEF Base, TypeOK
<1>2. UNCHANGED <<ShuttingDown(s), Cancelled(s)>>
  BY DEF ShuttingDown, Cancelled
<1>3. CASE HandOver(s, p)
  <2> DEFINE q == Append(live[s], p)
  <2>1. q \in Seq(AnyPacket) /\ Range(q) = Range(live[s]) \cup {p}
    BY RangeAppend DEF Base, TypeOK
  <2>2. /\ Push(q) /\ ShuttingDown(s)
        /\ UNCHANGED <<past, text>>
    BY <1>3, FaultTyped DEF Base, TypeOK, HandOver, Fault
  <2> HIDE DEF q
  <2>3. Range(suspended') \subseteq kept' /\ kept' = kept \cup Range(q)
    BY <2>1, <2>2, PushKeeps DEF Base
  <2> QED BY <1>1, <1>2, <2>1, <2>2, <2>3 DEF Accounted
<1>4. CASE Skip(s, p)
  <2>1. p \in ids[s] /\ UNCHANGED <<live, text, past, suspended, kept>>
    BY <1>4 DEF Skip, listVars
  <2> QED BY <1>1, <1>2, <2>1 DEF Accounted
<1>5. CASE TranscribeOne(s, p)
  <2>1. ~ShuttingDown(s) /\ UNCHANGED <<suspended, kept>>
    BY <1>5 DEF TranscribeOne, listVars
  <2>2. CASE p \in Newline
    BY <1>1, <1>2, <1>5, <2>1, <2>2, TranscribeRanges DEF Base, Accounted
  <2>3. CASE p \notin Newline
    BY <1>1, <1>2, <1>5, <2>1, <2>3, TranscribeRanges DEF Base, Accounted
  <2> QED BY <2>2, <2>3
<1> QED BY <1>3, <1>4, <1>5 DEF Treat

LEMMA AccountedKept ==
    ASSUME Base, AllAccounted, [Next]_vars
    PROVE  AllAccounted'
<1> SUFFICES ASSUME faults' = 0
             PROVE  Range(suspended') \subseteq kept' /\ \A s \in Server : Accounted(s)'
  BY DEF AllAccounted
<1>1. faults = 0
  BY FaultsStay DEF Base
<1>2. Range(suspended) \subseteq kept /\ \A s \in Server : Accounted(s)
  BY <1>1 DEF AllAccounted
<1>3. ~Fault
  BY <1>1 DEF Fault
<1>4. CASE \/ Publish \/ FetchTranscript \/ RenewTranscript \/ DropTranscript \/ UNCHANGED vars
           \/ \E s \in Server : Signal(s)
  <2>1. UNCHANGED <<st, tr, live, text, past, taken, ids, suspended, kept>>
    BY <1>4 DEF Publish, Signal, FetchTranscript, RenewTranscript, DropTranscript, vars, trVars, listVars
  <2> QED BY <1>2, <2>1 DEF Accounted, ShuttingDown, Cancelled
<1>5. CASE Expire
  <2>1. UNCHANGED <<st, tr, live, text, past, taken, ids, kept>> /\ suspended' = <<>>
    BY <1>5 DEF Expire, trVars
  <2> QED BY <1>2, <2>1, RangeEmpty DEF Accounted, ShuttingDown, Cancelled
<1>6. ASSUME NEW s \in Server,
             \/ Shutdown(s) \/ Cancel(s) \/ End(s) \/ EndSession(s) \/ CloseClient(s) \/ SaveState(s)
             \/ Finish(s)
      PROVE  Range(suspended') \subseteq kept' /\ \A t \in Server : Accounted(t)'
  <2>1. UNCHANGED <<tr, live, text, past, taken, ids, suspended, kept>>
    BY <1>6 DEF Shutdown, Cancel, End, EndSession, CloseClient, SaveState, Finish, StoreTranscript,
       LimitTranscript, trVars, listVars
  <2>2. /\ \A t \in Server \ {s} : st'[t] = st[t]
        /\ Cancelled(s) => Cancelled(s)'
        /\ ~ShuttingDown(s) /\ ShuttingDown(s)' => ~Cancelled(s)
        /\ ShuttingDown(s) => ShuttingDown(s)'
    BY <1>6 DEF Base, TypeOK, Shutdown, Cancel, End, EndSession, CloseClient, SaveState, Finish,
       StoreTranscript, LimitTranscript, ShuttingDown, Cancelled
  <2>3. Accounted(s)'
    BY <1>2, <2>1, <2>2 DEF Accounted
  <2>4. \A t \in Server \ {s} : Accounted(t)'
    BY <1>2, <2>1, <2>2 DEF Accounted, ShuttingDown, Cancelled
  <2> QED BY <1>2, <2>1, <2>3, <2>4
<1>7. ASSUME NEW s \in Server, Start(s) \/ Forget(s)
      PROVE  Range(suspended') \subseteq kept' /\ \A t \in Server : Accounted(t)'
  <2>1. UNCHANGED <<suspended, kept>> /\ OnlyAt(s)
    BY <1>7 DEF Base, TypeOK, Start, Forget, OnlyAt, listVars
  <2>2. tr'[s] # "stopped" /\ taken'[s] = {} /\ live'[s] = <<>> /\ ids'[s] = {}
    BY <1>7 DEF Base, TypeOK, BlankOutside, Blank, Start, Forget
  <2> QED BY <1>2, <2>1, <2>2, RangeEmpty, OthersAccounted DEF Accounted
<1>8. ASSUME NEW s \in Server, First(s) \/ LoadPackets(s) \/ LimitPackets(s)
      PROVE  Range(suspended') \subseteq kept' /\ \A t \in Server : Accounted(t)'
  <2>1. UNCHANGED <<st, live, text, past, taken, suspended, kept>> /\ OnlyAt(s)
    BY <1>8 DEF Base, TypeOK, First, LoadPackets, LimitPackets, Receive, OnlyAt, listVars
  <2>2. tr[s] # "stopped" /\ tr'[s] # "stopped"
        /\ (ids'[s] = ids[s] \/ ids'[s] = Range(suspended))
    BY <1>8 DEF Base, TypeOK, First, LoadPackets, LimitPackets
  <2>3. Accounted(s)'
    BY <1>2, <2>1, <2>2 DEF Accounted, ShuttingDown, Cancelled
  <2> QED BY <1>2, <2>1, <2>3, OthersAccounted
<1>9. ASSUME NEW s \in Server, Take(s)
      PROVE  Range(suspended') \subseteq kept' /\ \A t \in Server : Accounted(t)'
  <2>1. PICK p \in AnyPacket : Receive(s, p) /\ Treat(s, p)
                               /\ taken' = [taken EXCEPT ![s] = @ \cup ({p} \cap Packet)]
    BY <1>9 DEF Take, Treat, AnyPacket
  <2>2. tr[s] = "loop" /\ UNCHANGED <<tr, st, ids>>
    BY <1>9 DEF Take
  <2>3. Range(suspended') \subseteq kept' /\ kept \subseteq kept' /\ Accounted(s)'
    BY <1>1, <1>2, <2>1, <2>2, TreatAccounted
  <2>4. OnlyAt(s)
    BY <2>1, <2>2 DEF Base, TypeOK, Receive, Treat, HandOver, Skip, TranscribeOne, OnlyAt
  <2> QED BY <1>2, <2>3, <2>4, OthersAccounted
<1>10. ASSUME NEW s \in Server, Done(s)
      PROVE  Range(suspended') \subseteq kept' /\ \A t \in Server : Accounted(t)'
  <2>1. /\ UNCHANGED <<st, live, text, past, taken, ids>> /\ OnlyAt(s)
        /\ Cancelled(s) /\ tr[s] = "loop" /\ tr'[s] = "stopped"
    BY <1>10 DEF Base, TypeOK, Done, OnlyAt
  <2>2. CASE ShuttingDown(s) /\ live[s] # <<>>
    <3>1. Push(live[s])
      BY <1>3, <1>10, <2>2 DEF Done
    <3>2. Range(suspended') \subseteq kept' /\ kept' = kept \cup Range(live[s])
      BY <1>2, <3>1, PushKeeps DEF Base, TypeOK
    <3>3. Accounted(s)'
      BY <1>2, <2>1, <3>2 DEF Accounted, ShuttingDown, Cancelled
    <3> QED BY <1>2, <2>1, <3>2, <3>3, OthersAccounted
  <2>3. CASE ~(ShuttingDown(s) /\ live[s] # <<>>)
    <3>1. UNCHANGED <<suspended, kept>>
      BY <1>10, <2>3 DEF Done, listVars
    <3>2. ~ShuttingDown(s) \/ Range(live[s]) = {}
      BY <2>3, RangeEmpty
    <3>3. Accounted(s)'
      BY <1>2, <2>1, <3>1, <3>2 DEF Accounted, ShuttingDown, Cancelled
    <3> QED BY <1>2, <2>1, <3>1, <3>3, OthersAccounted
  <2> QED BY <2>2, <2>3
<1> QED
  BY <1>4, <1>5, <1>6, <1>7, <1>8, <1>9, <1>10 DEF Next, Suspend, Exit, Panic, Crash, Transcriber

(* A packet that was pushed is on the list, or was read there, or came to  *)
(* a list that had been read; what expires is of the last two kinds.       *)
ReadFirst ==
    /\ kept \cap Packet \subseteq Range(suspended) \cup read \cup late
    /\ WasRead => Range(suspended) \cap Packet \subseteq read \cup late

LEMMA PushReadFirst ==
    ASSUME TypeOK, ReadFirst, NEW q \in Seq(AnyPacket), Push(q), WasRead' = WasRead
    PROVE  ReadFirst'
<1>1. Range(suspended') = Range(suspended) \cup Range(q)
  BY RangeConcatenation DEF TypeOK, Push, PushListMembers
<1>2. kept' = kept \cup Range(q) /\ read' = read /\ late \subseteq late'
  BY DEF Push
<1>3. WasRead => Range(q) \cap Packet \subseteq late'
  BY DEF Push
<1> QED BY <1>1, <1>2, <1>3 DEF ReadFirst

LEMMA SameReadFirst ==
    ASSUME ReadFirst, UNCHANGED <<suspended, kept, read, late>>, WasRead' => WasRead
    PROVE  ReadFirst'
BY DEF ReadFirst

LEMMA ReadFirstKept ==
    ASSUME TypeOK, ReadFirst, [Next]_vars
    PROVE  ReadFirst'
<1>1. CASE \/ Publish \/ FetchTranscript \/ RenewTranscript \/ DropTranscript \/ UNCHANGED vars
           \/ \E s \in Server : Signal(s)
  <2>1. UNCHANGED <<tr, suspended, expiring, kept, read, late>>
    BY <1>1 DEF Publish, FetchTranscript, RenewTranscript, DropTranscript, vars, Signal, trVars, listVars
  <2> QED BY <2>1, SameReadFirst DEF WasRead
<1>2. ASSUME NEW s \in Server,
             \/ Start(s) \/ Shutdown(s) \/ Cancel(s) \/ End(s) \/ EndSession(s) \/ CloseClient(s)
             \/ SaveState(s) \/ Finish(s) \/ Forget(s) \/ First(s)
      PROVE  ReadFirst'
  <2>1. /\ UNCHANGED <<suspended, expiring, kept, read, late>>
        /\ \A t \in Server : tr'[t] = "limit" => tr[t] = "limit"
    BY <1>2 DEF TypeOK, Start, Shutdown, Cancel, End, EndSession, CloseClient, SaveState, Finish,
       StoreTranscript, LimitTranscript, Forget, First, trVars, listVars
  <2> QED BY <2>1, SameReadFirst DEF WasRead
<1>3. CASE Expire
  <2>1. /\ expiring /\ suspended' = <<>> /\ UNCHANGED <<kept, read, late>>
    BY <1>3 DEF Expire
  <2> QED BY <2>1, RangeEmpty DEF ReadFirst, WasRead
<1>4. ASSUME NEW s \in Server, LoadPackets(s) PROVE ReadFirst'
  <2>1. UNCHANGED <<suspended, expiring, kept, late>>
    BY <1>4 DEF LoadPackets
  <2>2. CASE read' = read \cup (Range(suspended) \cap Packet)
    BY <2>1, <2>2 DEF ReadFirst
  <2>3. CASE read' = read /\ tr' = [tr EXCEPT ![s] = "loop"]
    <3>1. \A t \in Server : tr'[t] = "limit" => tr[t] = "limit"
      BY <2>3 DEF TypeOK
    <3> QED BY <2>1, <2>3, <3>1, SameReadFirst DEF WasRead
  <2> QED BY <1>4, <2>2, <2>3 DEF LoadPackets
<1>5. ASSUME NEW s \in Server, LimitPackets(s) PROVE ReadFirst'
  <2>1. UNCHANGED <<suspended, kept, read, late>> /\ WasRead
    BY <1>5 DEF LimitPackets, WasRead
  <2> QED BY <2>1 DEF ReadFirst
<1>6. ASSUME NEW s \in Server, Take(s) PROVE ReadFirst'
  <2>1. UNCHANGED tr
    BY <1>6 DEF Take
  <2>2. PICK p \in AnyPacket : HandOver(s, p) \/ Skip(s, p) \/ TranscribeOne(s, p)
    BY <1>6 DEF Take, AnyPacket
  <2>3. CASE UNCHANGED listVars
    BY <2>1, <2>3, SameReadFirst DEF listVars, WasRead
  <2>4. CASE Push(Append(live[s], p))
    <3>1. live[s] \in Seq(AnyPacket)
      BY DEF TypeOK
    <3> DEFINE q == Append(live[s], p)
    <3>2. q \in Seq(AnyPacket)
      BY <3>1
    <3>3. Push(q)
      BY <2>4
    <3> HIDE DEF q
    <3>4. WasRead' = WasRead
      BY <2>1, <3>3 DEF Push, WasRead
    <3> QED BY <3>2, <3>3, <3>4, PushReadFirst
  <2> QED BY <2>2, <2>3, <2>4 DEF HandOver, Skip, TranscribeOne
<1>7. ASSUME NEW s \in Server, Done(s) PROVE ReadFirst'
  <2>1. \A t \in Server : tr'[t] = "limit" <=> tr[t] = "limit"
    BY <1>7 DEF TypeOK, Done
  <2>2. CASE UNCHANGED listVars
    BY <2>1, <2>2, SameReadFirst DEF listVars, WasRead
  <2>3. CASE Push(live[s])
    <3>1. live[s] \in Seq(AnyPacket)
      BY DEF TypeOK
    <3>2. WasRead' = WasRead
      BY <2>1, <2>3 DEF Push, WasRead
    <3> QED BY <2>3, <3>1, <3>2, PushReadFirst
  <2> QED BY <1>7, <2>2, <2>3 DEF Done
<1> QED
  BY <1>1, <1>2, <1>3, <1>4, <1>5, <1>6, <1>7 DEF Next, Suspend, Exit, Panic, Crash, Transcriber

(* A transcriber that stops in a hand-over leaves every packet it took     *)
(* where it is not lost, if no storage command fails: in the past text, on *)
(* the list, or read there by a next server before the list expired,       *)
(* whether the select gets to the cancellation before or after a packet,   *)
(* and whatever the transcriber of an earlier server does meanwhile.  Only *)
(* what is pushed on a list that was read already may go unread.           *)
THEOREM TakenIsKeptHolds == Spec => []TakenIsKept
<1>1. Init => AllAccounted /\ ReadFirst
  BY RangeEmpty DEF Init, AllAccounted, Accounted, ReadFirst, WasRead
<1>2. Base /\ AllAccounted /\ [Next]_vars => AllAccounted'
  BY AccountedKept
<1>3. Base /\ ReadFirst /\ [Next]_vars => ReadFirst'
  BY ReadFirstKept DEF Base
<1>4. Base /\ AllAccounted /\ ReadFirst => TakenIsKept
  <2> SUFFICES ASSUME Base, AllAccounted, ReadFirst, NEW s \in Server,
                      faults = 0, tr[s] = "stopped", ShuttingDown(s)
               PROVE  taken[s] \subseteq Range(past[s]) \cup Range(suspended) \cup read \cup late
    BY DEF TakenIsKept
  <2>1. taken[s] \subseteq Range(past[s]) \cup kept /\ taken[s] \subseteq Packet
    BY DEF AllAccounted, Accounted, Base, TypeOK
  <2> QED BY <2>1 DEF ReadFirst
<1> QED BY <1>1, <1>2, <1>3, <1>4, BaseAlways, PTL DEF Spec

-----------------------------------------------------------------------------
(* The order of packets *)

(* The packets of the whisperer among those of a sequence, and that they   *)
(* are in the order of publication.                                        *)
Packets(q) == Range(q) \cap Packet

Rises(q) == \A i, j \in DOMAIN q : i < j /\ q[i] \in Packet /\ q[j] \in Packet => q[i] < q[j]

Below(A, B) == \A a \in A, b \in B : a < b

Said(s) == past[s] \o text[s]

(* Of one server: what it has said comes before what it has still to take, *)
(* and its live packets are between the past text and those.               *)
Ordered(s) ==
    /\ Rising(Said(s)) /\ Rises(live[s]) /\ Rises(cr[s])
    /\ Below(Range(past[s]), Packets(live[s]))
    /\ Below(Range(past[s]) \cup Range(text[s]) \cup Packets(live[s]), Packets(cr[s]))
    /\ Range(past[s]) \cup Range(text[s]) \cup Packets(live[s]) \cup Packets(cr[s]) \subseteq 1 .. published

AllOrdered ==
    /\ \A s \in Server : Ordered(s)
    /\ stored # NoState => Rising(stored) /\ Range(stored) \subseteq 1 .. published

LEMMA EmptyOrdered == Rising(<<>>) /\ Rises(<<>>) /\ Packets(<<>>) = {}
BY RangeEmpty DEF Rising, Rises, Packets

LEMMA RisingAppend ==
    ASSUME NEW q \in Seq(Packet), Rising(q), NEW p \in Packet, Below(Range(q), {p})
    PROVE  Rising(Append(q, p))
<1>1. \A i \in DOMAIN q : q[i] < p
  BY DEF Range, Below
<1> QED BY <1>1 DEF Rising

LEMMA RisingPrefix ==
    ASSUME NEW a \in Seq(Packet), NEW b \in Seq(Packet), Rising(a \o b)
    PROVE  Rising(a)
<1>1. \A i \in DOMAIN a : i \in DOMAIN (a \o b) /\ (a \o b)[i] = a[i]
  OBVIOUS
<1> QED BY <1>1 DEF Rising

LEMMA AppendOrdered ==
    ASSUME NEW q \in Seq(AnyPacket), NEW p \in AnyPacket, Rises(q), Below(Packets(q), {p} \cap Packet)
    PROVE  Rises(Append(q, p)) /\ Packets(Append(q, p)) = Packets(q) \cup ({p} \cap Packet)
<1>1. \A i \in DOMAIN q : q[i] \in Packet /\ p \in Packet => q[i] < p
  BY DEF Range, Below, Packets
<1>2. Rises(Append(q, p))
  BY <1>1 DEF Rises
<1>3. Range(Append(q, p)) = Range(q) \cup {p}
  BY RangeAppend
<1> QED BY <1>2, <1>3 DEF Packets

LEMMA TailOrdered ==
    ASSUME NEW q \in Seq(AnyPacket), q # <<>>, Rises(q)
    PROVE  /\ Rises(Tail(q)) /\ Below({Head(q)} \cap Packet, Packets(Tail(q)))
           /\ Packets(q) = Packets(Tail(q)) \cup ({Head(q)} \cap Packet)
<1>1. /\ \A i \in DOMAIN Tail(q) : i + 1 \in DOMAIN q /\ i + 1 > 1 /\ Tail(q)[i] = q[i + 1]
      /\ \A i \in DOMAIN q : i = 1 \/ (i - 1 \in DOMAIN Tail(q) /\ Tail(q)[i - 1] = q[i])
      /\ 1 \in DOMAIN q /\ Head(q) = q[1] /\ DOMAIN Tail(q) \subseteq Nat
  OBVIOUS
<1>2. Rises(Tail(q))
  BY <1>1 DEF Rises
<1>3. \A i \in DOMAIN Tail(q) : Head(q) \in Packet /\ Tail(q)[i] \in Packet => Head(q) < Tail(q)[i]
  BY <1>1 DEF Rises
<1>4. Range(q) = Range(Tail(q)) \cup {Head(q)}
  <2> DEFINE u == Tail(q)
             h == Head(q)
  <2>1. \A i \in DOMAIN u : \E j \in DOMAIN q : u[i] = q[j]
    BY <1>1
  <2>2. \A i \in DOMAIN q : q[i] = h \/ \E j \in DOMAIN u : q[i] = u[j]
    BY <1>1
  <2>3. \E i \in DOMAIN q : h = q[i]
    BY <1>1
  <2> HIDE DEF u, h
  <2>4. Range(u) \subseteq Range(q) /\ Range(q) \subseteq Range(u) \cup {h} /\ h \in Range(q)
    BY <2>1, <2>2, <2>3 DEF Range
  <2> QED BY <2>4 DEF u, h
<1> QED BY <1>2, <1>3, <1>4 DEF Range, Packets, Below

(* A receive takes the first packet off the channel.                       *)
LEMMA ReceiveOrdered ==
    ASSUME TypeOK, NEW s \in Server, Rises(cr[s]), NEW p \in AnyPacket, Receive(s, p)
    PROVE  /\ Rises(cr'[s]) /\ Below({p} \cap Packet, Packets(cr'[s]))
           /\ Packets(cr[s]) = Packets(cr'[s]) \cup ({p} \cap Packet)
           /\ \A t \in Server \ {s} : cr'[t] = cr[t]
<1>1. cr[s] \in Seq(AnyPacket)
  BY DEF TypeOK, AnyPacket
<1>2. CASE cr[s] # <<>> /\ p = Head(cr[s]) /\ cr' = [cr EXCEPT ![s] = Tail(@)]
  <2>1. cr'[s] = Tail(cr[s]) /\ \A t \in Server \ {s} : cr'[t] = cr[t]
    BY <1>2 DEF TypeOK
  <2> QED BY <1>1, <1>2, <2>1, TailOrdered
<1>3. CASE p = ZeroPacket /\ UNCHANGED cr
  BY <1>3, PacketsAreNumbers DEF Below
<1> QED BY <1>2, <1>3 DEF Receive

LEMMA SaidRange ==
    ASSUME TypeOK, NEW s \in Server
    PROVE  Said(s) \in Seq(Packet) /\ Range(Said(s)) = Range(past[s]) \cup Range(text[s])
<1>1. past[s] \in Seq(Packet) /\ text[s] \in Seq(Packet)
  BY DEF TypeOK
<1> QED BY <1>1, RangeConcatenation DEF Said

(* One packet is added to what a server has said, whether or not it ends   *)
(* the line.                                                               *)
LEMMA SaidMore ==
    ASSUME NEW a \in Seq(Packet), NEW b \in Seq(Packet), NEW p \in Packet
    PROVE  a \o Append(b, p) = Append(a \o b, p) /\ (a \o Append(b, p)) \o <<>> = Append(a \o b, p)
<1>1. a \o Append(b, p) = Append(a \o b, p)
  OBVIOUS
<1>2. a \o Append(b, p) \in Seq(Packet)
  OBVIOUS
<1> QED BY <1>1, <1>2, ConcatEmptySeq

LEMMA TreatOrdered ==
    ASSUME TypeOK, NEW s \in Server, Ordered(s), NEW p \in AnyPacket, Receive(s, p), Treat(s, p),
           published' = published
    PROVE  Ordered(s)'
<1>1. /\ Rises(cr'[s]) /\ Below({p} \cap Packet, Packets(cr'[s]))
      /\ Packets(cr[s]) = Packets(cr'[s]) \cup ({p} \cap Packet)
  BY ReceiveOrdered DEF Ordered
<1>2. /\ live[s] \in Seq(AnyPacket) /\ past[s] \in Seq(Packet) /\ text[s] \in Seq(Packet)
      /\ Said(s) \in Seq(Packet) /\ Range(Said(s)) = Range(past[s]) \cup Range(text[s])
  BY SaidRange DEF TypeOK
<1>3. /\ Below(Range(past[s]), {p} \cap Packet) /\ Below(Range(text[s]), {p} \cap Packet)
      /\ Below(Packets(live[s]), {p} \cap Packet)
  BY <1>1 DEF Ordered, Below
<1>4. /\ Rises(Append(live[s], p)) /\ Packets(Append(live[s], p)) = Packets(live[s]) \cup ({p} \cap Packet)
  BY <1>2, <1>3, AppendOrdered DEF Ordered
<1>5. CASE HandOver(s, p) \/ Skip(s, p)
  <2>1. /\ past'[s] = past[s] /\ text'[s] = text[s]
        /\ live'[s] \in {live[s], <<>>, Append(live[s], p)}
    BY <1>5 DEF TypeOK, HandOver, Skip
  <2>2. /\ Rises(live'[s]) /\ Packets(live'[s]) \subseteq Packets(live[s]) \cup ({p} \cap Packet)
    BY <1>4, <2>1, EmptyOrdered DEF Ordered
  <2>3. Rising(Said(s)')
    BY <2>1 DEF Ordered, Said
  <2> QED BY <1>1, <1>3, <2>1, <2>2, <2>3 DEF Ordered, Below
<1>6. CASE TranscribeOne(s, p)
  <2>1. /\ past'[s] = IF p \in Newline THEN past[s] \o Append(text[s], p) ELSE past[s]
        /\ text'[s] = TextAfter(s, p) /\ live'[s] = LiveAfter(s, p)
    BY <1>6 DEF TypeOK, TranscribeOne
  <2>2. Rises(live'[s]) /\ Packets(live'[s]) \subseteq Packets(live[s]) \cup ({p} \cap Packet)
        /\ (p \in Newline => Packets(live'[s]) = {})
    BY <1>4, <2>1, EmptyOrdered DEF LiveAfter
  <2>3. CASE p \in Packet
    <3>1. Said(s)' = Append(Said(s), p)
      <4> DEFINE a == past[s]
                 b == text[s]
      <4>0. /\ a \o Append(b, p) = Append(a \o b, p)
            /\ (a \o Append(b, p)) \o <<>> = Append(a \o b, p)
        <5> HIDE DEF a, b
        <5>1. a \in Seq(Packet) /\ b \in Seq(Packet)
          BY <1>2 DEF a, b
        <5> QED BY <2>3, <5>1, SaidMore
      <4>1. CASE p \in Newline
        <5>1. past'[s] = a \o Append(b, p) /\ text'[s] = <<>>
          BY <2>1, <4>1 DEF TextAfter
        <5>2. Said(s)' = (a \o Append(b, p)) \o <<>>
          BY <5>1, Zenon DEF Said
        <5> QED BY <4>0, <5>2, Zenon DEF Said
      <4>2. CASE p \notin Newline
        <5>1. past'[s] = a /\ text'[s] = Append(b, p)
          BY <2>1, <2>3, <4>2 DEF TextAfter
        <5>2. Said(s)' = a \o Append(b, p)
          BY <5>1, Zenon DEF Said
        <5> QED BY <4>0, <5>2, Zenon DEF Said
      <4> QED BY <4>1, <4>2
    <3>2. Rising(Said(s)')
      BY <1>2, <1>3, <2>3, <3>1, RisingAppend DEF Ordered, Below
    <3>3. Range(Said(s)') = Range(past[s]) \cup Range(text[s]) \cup {p}
      BY <1>2, <2>3, <3>1, RangeAppend
    <3>4. Range(past'[s]) \cup Range(text'[s]) = Range(Said(s)')
      <4>1. past'[s] \in Seq(Packet) /\ text'[s] \in Seq(Packet)
        BY TreatTyped
      <4> QED BY <4>1, RangeConcatenation DEF Said
    <3>5. p \in Newline \/ Range(past'[s]) = Range(past[s])
      BY <2>1
    <3> QED BY <1>1, <1>3, <2>2, <2>3, <3>2, <3>3, <3>4, <3>5 DEF Ordered, Below
  <2>4. CASE p \notin Packet
    <3>1. past'[s] = past[s] /\ text'[s] = text[s]
      BY <2>1, <2>4, PacketsAreNumbers DEF TextAfter
    <3>2. Rising(Said(s)')
      BY <3>1 DEF Ordered, Said
    <3> QED BY <1>1, <1>3, <2>2, <2>4, <3>1, <3>2 DEF Ordered, Below
  <2> QED BY <2>3, <2>4
<1> QED BY <1>5, <1>6 DEF Treat

(* What a server has is unchanged, and no packet is unpublished. *)
LEMMA SameOrdered ==
    ASSUME NEW s, Ordered(s), published \in Nat, published' \in Nat, published' >= published,
           cr'[s] = cr[s], live'[s] = live[s], text'[s] = text[s], past'[s] = past[s]
    PROVE  Ordered(s)'
<1>1. 1 .. published \subseteq 1 .. published'
  OBVIOUS
<1>2. Said(s)' = Said(s)
  BY Zenon DEF Said
<1> QED BY <1>1, <1>2 DEF Ordered

(* The hub adds a packet to the channel. *)
LEMMA ArrivalOrdered ==
    ASSUME TypeOK, TypeOK', NEW s \in Server, Ordered(s), NEW p \in AnyPacket,
           p \in Packet => p = published + 1 /\ published' = p,
           published' >= published, cr'[s] = Append(cr[s], p),
           live'[s] = live[s], text'[s] = text[s], past'[s] = past[s]
    PROVE  Ordered(s)' /\ Packets(cr'[s]) = Packets(cr[s]) \cup ({p} \cap Packet)
<1>1. published \in Nat /\ published' \in Nat /\ cr[s] \in Seq(AnyPacket)
  BY PacketBounds DEF TypeOK, AnyPacket
<1>2. Below(1 .. published, {p} \cap Packet) /\ {p} \cap Packet \subseteq 1 .. published'
      /\ 1 .. published \subseteq 1 .. published'
  BY <1>1 DEF Below
<1>3. Below(Packets(cr[s]), {p} \cap Packet)
  BY <1>2 DEF Ordered, Below
<1>4. Rises(cr'[s]) /\ Packets(cr'[s]) = Packets(cr[s]) \cup ({p} \cap Packet)
  BY <1>1, <1>3, AppendOrdered DEF Ordered
<1>5. Said(s)' = Said(s)
  BY Zenon DEF Said
<1> QED BY <1>2, <1>4, <1>5 DEF Ordered, Below

LEMMA OrderKept ==
    ASSUME Base, AllOrdered, [Next]_vars
    PROVE  AllOrdered'
<1>0. TypeOK /\ TypeOK' /\ published \in Nat /\ published' \in Nat
  <2>1. TypeOK /\ TypeOK'
    BY NextTyped DEF Base
  <2>2. published \in Nat /\ published' \in Nat
    BY <2>1, PacketBounds DEF TypeOK
  <2> QED BY <2>1, <2>2
<1>1. CASE Publish
  <2>1. /\ published' = published + 1 /\ published' \in Packet /\ published' \in AnyPacket
        /\ UNCHANGED <<live, text, past, stored>>
        /\ \A s \in Server : cr'[s] = IF Listening(s) THEN Append(cr[s], published + 1) ELSE cr[s]
    BY <1>0, <1>1 DEF Publish, trVars, TypeOK, Packet, AnyPacket
  <2>2. ASSUME NEW s \in Server, Listening(s) PROVE Ordered(s)'
    <3> DEFINE p == published + 1
    <3>1. p \in AnyPacket /\ published' = p
      BY <2>1
    <3>2. published' >= published
      BY <1>0, <2>1
    <3>3. cr'[s] = Append(cr[s], p)
      BY <2>1, <2>2
    <3>4. live'[s] = live[s] /\ text'[s] = text[s] /\ past'[s] = past[s] /\ Ordered(s)
      BY <2>1 DEF AllOrdered
    <3>5. p = published + 1
      OBVIOUS
    <3> HIDE DEF p
    <3> QED BY <1>0, <3>1, <3>2, <3>3, <3>4, <3>5, ArrivalOrdered
  <2>3. \A s \in Server : ~Listening(s) => Ordered(s)'
    BY <1>0, <2>1, SameOrdered DEF AllOrdered
  <2> QED BY <1>0, <2>1, <2>2, <2>3 DEF AllOrdered
<1>2. ASSUME NEW s \in Server, Signal(s) PROVE AllOrdered'
  <2>1. /\ published' = published /\ AttachPacket \notin Packet /\ AttachPacket \in AnyPacket
        /\ UNCHANGED <<live, text, past, stored>> /\ cr'[s] = Append(cr[s], AttachPacket)
        /\ \A t \in Server \ {s} : cr'[t] = cr[t]
    BY <1>2, PacketsAreNumbers DEF Base, TypeOK, Signal, trVars, AnyPacket
  <2>2. Ordered(s)'
    BY <1>0, <2>1, ArrivalOrdered DEF AllOrdered
  <2>3. \A t \in Server \ {s} : Ordered(t)'
    BY <1>0, <2>1, SameOrdered DEF AllOrdered
  <2> QED BY <2>1, <2>2, <2>3 DEF AllOrdered
<1>3. CASE \/ Expire \/ FetchTranscript \/ RenewTranscript \/ DropTranscript \/ UNCHANGED vars
           \/ \E s \in Server : \/ Shutdown(s) \/ Cancel(s) \/ End(s) \/ EndSession(s) \/ CloseClient(s)
                             \/ Finish(s) \/ LoadPackets(s) \/ LimitPackets(s) \/ Done(s)
  <2>1. UNCHANGED <<published, cr, live, text, past, stored>>
    BY <1>3 DEF Expire, FetchTranscript, RenewTranscript, DropTranscript, vars, Shutdown, Cancel, End,
       EndSession, CloseClient, Finish, StoreTranscript, LimitTranscript, LoadPackets, LimitPackets, Done,
       hubVars, trVars
  <2>2. \A s \in Server : Ordered(s)'
    BY <1>0, <2>1, SameOrdered DEF AllOrdered
  <2> QED BY <2>1, <2>2 DEF AllOrdered
<1>4. ASSUME NEW s \in Server, SaveState(s) PROVE AllOrdered'
  <2>1. /\ UNCHANGED <<published, cr, live, text, past>>
        /\ stored' = past[s] \/ stored' = stored
    BY <1>4 DEF SaveState, hubVars, trVars
  <2>2. \A t \in Server : Ordered(t)'
    BY <1>0, <2>1, SameOrdered DEF AllOrdered
  <2>3. Rising(past[s]) /\ Range(past[s]) \subseteq 1 .. published
    BY <1>0, RisingPrefix DEF TypeOK, AllOrdered, Ordered, Said
  <2> QED BY <2>1, <2>2, <2>3 DEF AllOrdered
<1>5. ASSUME NEW s \in Server, Start(s) \/ Forget(s) PROVE AllOrdered'
  <2>1. /\ UNCHANGED published /\ OnlyAt(s)
        /\ stored' = NoState \/ stored' = stored
        /\ cr'[s] = <<>> /\ live'[s] = <<>> /\ text'[s] = <<>>
        /\ past'[s] = <<>> \/ (stored # NoState /\ past'[s] = stored)
    BY <1>5 DEF Base, TypeOK, BlankOutside, Blank, Start, Forget, OnlyAt
  <2>2. past'[s] \in Seq(Packet) /\ Said(s)' = past'[s] \o <<>>
    BY <1>0, <2>1 DEF TypeOK, Said
  <2>3. Said(s)' = past'[s]
    BY <2>2, ConcatEmptySeq
  <2>4. Rising(past'[s]) /\ Range(past'[s]) \subseteq 1 .. published
    BY <2>1, EmptyOrdered, RangeEmpty DEF AllOrdered
  <2>5. Ordered(s)'
    BY <2>1, <2>3, <2>4, EmptyOrdered, RangeEmpty DEF Ordered, Below
  <2>6. \A t \in Server \ {s} : Ordered(t)'
    BY <1>0, <2>1, SameOrdered DEF AllOrdered, OnlyAt
  <2> QED BY <2>1, <2>5, <2>6 DEF AllOrdered
<1>6. ASSUME NEW s \in Server, First(s) PROVE AllOrdered'
  <2>1. PICK p \in AnyPacket : Receive(s, p)
    BY <1>6 DEF First, AnyPacket
  <2>2. UNCHANGED <<published, live, text, past, stored>>
    BY <1>6 DEF First, hubVars
  <2>3. /\ Rises(cr'[s]) /\ Packets(cr[s]) = Packets(cr'[s]) \cup ({p} \cap Packet)
        /\ \A t \in Server \ {s} : cr'[t] = cr[t]
    BY <1>0, <2>1, ReceiveOrdered DEF AllOrdered, Ordered
  <2>4. Ordered(s)'
    BY <2>2, <2>3 DEF AllOrdered, Ordered, Below, Said
  <2>5. \A t \in Server \ {s} : Ordered(t)'
    BY <1>0, <2>2, <2>3, SameOrdered DEF AllOrdered
  <2> QED BY <2>2, <2>4, <2>5 DEF AllOrdered
<1>7. ASSUME NEW s \in Server, Take(s) PROVE AllOrdered'
  <2>1. PICK p \in AnyPacket : Receive(s, p) /\ Treat(s, p)
    BY <1>7 DEF Take, Treat, AnyPacket
  <2>2. UNCHANGED <<published, stored>>
    BY <1>7 DEF Take, hubVars
  <2>3. Ordered(s)'
    BY <1>0, <2>1, <2>2, TreatOrdered DEF AllOrdered
  <2>4. \A t \in Server \ {s} :
          cr'[t] = cr[t] /\ live'[t] = live[t] /\ text'[t] = text[t] /\ past'[t] = past[t]
    BY <1>0, <2>1 DEF TypeOK, Receive, Treat, HandOver, Skip, TranscribeOne
  <2>5. \A t \in Server \ {s} : Ordered(t)'
    BY <1>0, <2>2, <2>4, SameOrdered DEF AllOrdered
  <2> QED BY <2>2, <2>3, <2>5 DEF AllOrdered
<1> QED
  BY <1>1, <1>2, <1>3, <1>4, <1>5, <1>6, <1>7 DEF Next, Suspend, Exit, Panic, Crash, Transcriber

LEMMA InitOrdered == Init => AllOrdered
<1> SUFFICES ASSUME Init PROVE AllOrdered
  OBVIOUS
<1>1. \A s \in Server : cr[s] = <<>> /\ live[s] = <<>> /\ text[s] = <<>> /\ past[s] = <<>>
  BY DEF Init
<1>2. <<>> \o <<>> = <<>>
  OBVIOUS
<1>3. \A s \in Server : Said(s) = <<>>
  BY <1>1, <1>2 DEF Said
<1>4. \A s \in Server : Ordered(s)
  BY <1>1, <1>3, EmptyOrdered, RangeEmpty DEF Ordered, Below
<1> QED BY <1>4, EmptyOrdered, RangeEmpty DEF AllOrdered, Init

LEMMA OrderAlways == Spec => [](Base /\ AllOrdered)
BY InitBase, NextBase, InitOrdered, OrderKept, PTL DEF Spec

(* What a session has transcribed is in the order of publication, with     *)
(* nothing twice, however often it changes servers, whatever fails and     *)
(* wherever a server crashes: a server that starts gets only packets that  *)
(* are published after the state it starts from was saved.                 *)
THEOREM TranscribedInOrderAlways == Spec => []TranscribedInOrder
<1>1. Base /\ AllOrdered => TranscribedInOrder
  BY DEF AllOrdered, Ordered, Said, TranscribedInOrder
<1> QED BY <1>1, OrderAlways, PTL
-----------------------------------------------------------------------------
(* Every packet is handed over once *)

(* What the transcriber of a server has still to say, and what it said.    *)
Active(s) == tr[s] # "stopped"

Pending(s) == Packets(live[s]) \cup Packets(cr[s])

Spoken(s) == Range(past[s]) \cup Range(text[s])

Kept == kept \cap Packet

(* A server has not kept a line it has in its past text, and has kept      *)
(* nothing of what it has still to say.                                    *)
OnceHere(s) ==
    /\ Range(past[s]) \cap Kept = {}
    /\ Active(s) => Pending(s) \cap Kept = {}
    /\ Active(s) /\ ~ShuttingDown(s) => Range(text[s]) \cap Kept = {}

OnceStored(s) == stored # NoState /\ Active(s) => Pending(s) \cap Range(stored) = {}

(* What server s has still to say, no other server has or has said.        *)
OnceBetween(s, t) ==
    Active(s) => /\ Pending(s) \cap Spoken(t) = {}
                 /\ Active(t) => Pending(s) \cap Pending(t) = {}

Once ==
    /\ \A s \in Server : OnceHere(s) /\ OnceStored(s)
    /\ \A s, t \in Server : s # t => OnceBetween(s, t)
    /\ stored # NoState => Range(stored) \cap Kept = {}
    /\ Kept \subseteq 1 .. published

ListOnce ==
    /\ Range(suspended) \subseteq kept
    /\ \A i, j \in DOMAIN suspended : suspended[i] \in Packet /\ suspended[i] = suspended[j] => i = j

LEMMA PushOnce ==
    ASSUME TypeOK, ListOnce, NEW q \in Seq(AnyPacket), Rises(q), Packets(q) \cap Kept = {}, Push(q)
    PROVE  ListOnce' /\ Kept' = Kept \cup Packets(q)
<1>1. Range(suspended') \subseteq kept' /\ kept' = kept \cup Range(q)
  BY PushKeeps DEF ListOnce
<1>2. suspended' = suspended \o q /\ suspended \in Seq(AnyPacket)
  BY DEF TypeOK, Push, PushListMembers
<1>3. \A i, j \in DOMAIN q : q[i] \in Packet /\ q[i] = q[j] => i = j
  <2>1. \A m \in Packet : ~(m < m)
    BY PacketsAreNumbers
  <2>2. \A i, j \in DOMAIN q : i < j \/ i = j \/ j < i
    OBVIOUS
  <2> QED BY <2>1, <2>2 DEF Rises
<1>4. \A i \in DOMAIN suspended, j \in DOMAIN q : suspended[i] \in Packet => suspended[i] # q[j]
  BY DEF ListOnce, Kept, Packets, Range
<1>5. \A i, j \in DOMAIN suspended' :
        suspended'[i] \in Packet /\ suspended'[i] = suspended'[j] => i = j
  <2> DEFINE n == Len(suspended)
  <2>1. /\ n \in Nat /\ DOMAIN suspended = 1 .. n /\ DOMAIN suspended' \subseteq Nat
        /\ \A i \in DOMAIN suspended' :
             \/ i <= n /\ i \in DOMAIN suspended /\ suspended'[i] = suspended[i]
             \/ i > n /\ (i - n) \in DOMAIN q /\ suspended'[i] = q[i - n]
    BY <1>2
  <2> HIDE DEF n
  <2> QED BY <1>3, <1>4, <2>1 DEF ListOnce
<1> QED BY <1>1, <1>5 DEF ListOnce, Kept, Packets

(* A step of the transcriber of s: what it says or keeps was pending.      *)
Moves(s) ==
    /\ Active(s) /\ OnlyAt(s) /\ UNCHANGED <<published, st, stored>>
    /\ Pending(s)' \subseteq Pending(s)
    /\ Spoken(s)' \subseteq Spoken(s) \cup Pending(s)
    /\ Kept' \subseteq Kept \cup Pending(s)

LEMMA SameAt ==
    ASSUME NEW s, NEW t \in Server \ {s}, OnlyAt(s)
    PROVE  /\ Active(t)' = Active(t) /\ Pending(t)' = Pending(t) /\ Spoken(t)' = Spoken(t)
           /\ past'[t] = past[t] /\ text'[t] = text[t] /\ ShuttingDown(t)' = ShuttingDown(t)
<1>1. /\ tr'[t] = tr[t] /\ live'[t] = live[t] /\ cr'[t] = cr[t] /\ past'[t] = past[t]
      /\ text'[t] = text[t] /\ st'[t] = st[t]
  BY DEF OnlyAt
<1> QED BY <1>1, Zenon DEF Active, Pending, Spoken, Packets, ShuttingDown

LEMMA MovesOnce ==
    ASSUME Once, NEW s \in Server, AllOrdered, Moves(s), OnceHere(s)'
    PROVE  Once'
<1>1. /\ Active(s) /\ Pending(s)' \subseteq Pending(s) /\ Spoken(s)' \subseteq Spoken(s) \cup Pending(s)
      /\ Kept' \subseteq Kept \cup Pending(s) /\ stored' = stored /\ published' = published
  BY DEF Moves
<1>2. \A t \in Server \ {s} :
        /\ Active(t)' = Active(t) /\ Pending(t)' = Pending(t) /\ Spoken(t)' = Spoken(t)
        /\ past'[t] = past[t] /\ text'[t] = text[t] /\ ShuttingDown(t)' = ShuttingDown(t)
  BY SameAt DEF Moves
<1>3. ASSUME NEW t \in Server \ {s}
      PROVE  OnceHere(t)' /\ OnceStored(t)' /\ OnceBetween(s, t)' /\ OnceBetween(t, s)'
  <2>1. /\ OnceHere(t) /\ OnceStored(t) /\ OnceBetween(s, t) /\ OnceBetween(t, s)
    BY DEF Once
  <2>2. Pending(s) \cap Spoken(t) = {} /\ (Active(t) => Pending(s) \cap Pending(t) = {})
    BY <1>1, <2>1 DEF OnceBetween
  <2>3. OnceHere(t)'
    BY <1>1, <1>2, <2>1, <2>2 DEF OnceHere, Spoken
  <2>4. OnceStored(t)'
    BY <1>1, <1>2, <2>1 DEF OnceStored
  <2>5. OnceBetween(s, t)' /\ OnceBetween(t, s)'
    BY <1>1, <1>2, <2>1, <2>2 DEF OnceBetween
  <2> QED BY <2>3, <2>4, <2>5
<1>4. OnceStored(s)'
  BY <1>1 DEF Once, OnceStored
<1>5. \A t, u \in Server \ {s} : t # u => OnceBetween(t, u)'
  BY <1>2 DEF Once, OnceBetween
<1>6. stored # NoState => Range(stored) \cap Kept' = {}
  BY <1>1 DEF Once, OnceStored
<1>7. Kept' \subseteq 1 .. published'
  BY <1>1 DEF Once, AllOrdered, Ordered, Pending
<1> QED BY <1>1, <1>3, <1>4, <1>5, <1>6, <1>7 DEF Once

LEMMA BelowApart ==
    ASSUME NEW A, NEW B, A \subseteq Packet, Below(A, B)
    PROVE  A \cap B = {}
<1>1. \A m \in Packet : ~(m < m)
  BY PacketsAreNumbers
<1> QED BY <1>1 DEF Below

(* Of one server, nothing is both said and to be said, or both live and    *)
(* on the channel.                                                         *)
LEMMA OrderedApart ==
    ASSUME TypeOK, NEW s \in Server, Ordered(s)
    PROVE  /\ Range(past[s]) \cap Pending(s) = {}
           /\ Packets(live[s]) \cap Packets(cr[s]) = {}
<1>1. Range(past[s]) \subseteq Packet /\ Packets(live[s]) \subseteq Packet
  BY RangeOfSeq DEF TypeOK, Packets
<1>2. /\ Below(Range(past[s]), Packets(live[s])) /\ Below(Range(past[s]), Packets(cr[s]))
      /\ Below(Packets(live[s]), Packets(cr[s]))
  BY DEF Ordered, Below
<1> QED BY <1>1, <1>2, BelowApart DEF Pending

LEMMA TreatOnce ==
    ASSUME TypeOK, NEW s \in Server, Ordered(s), OnceHere(s), ListOnce, tr[s] = "loop",
           UNCHANGED <<tr, st, stored, published>>, NEW p \in AnyPacket, Receive(s, p), Treat(s, p)
    PROVE  /\ Pending(s)' \subseteq Pending(s) /\ Spoken(s)' \subseteq Spoken(s) \cup Pending(s)
           /\ Kept' \subseteq Kept \cup Pending(s) /\ OnceHere(s)' /\ ListOnce'
<1>1. /\ Packets(cr[s]) = Packets(cr'[s]) \cup ({p} \cap Packet)
      /\ Below({p} \cap Packet, Packets(cr'[s]))
  BY ReceiveOrdered DEF Ordered
<1>2. {p} \cap Packets(cr'[s]) = {}
  <2>1. ({p} \cap Packet) \cap Packets(cr'[s]) = {}
    BY <1>1, BelowApart
  <2> QED BY <2>1 DEF Packets
<1>3. /\ Range(past[s]) \cap Pending(s) = {} /\ Packets(live[s]) \cap Packets(cr[s]) = {}
  BY OrderedApart
<1>4. /\ Range(past[s]) \cap Kept = {} /\ Pending(s) \cap Kept = {}
      /\ ~ShuttingDown(s) => Range(text[s]) \cap Kept = {}
  BY DEF OnceHere, Active
<1>5. UNCHANGED <<Active(s), ShuttingDown(s)>>
  BY DEF Active, ShuttingDown
<1>6. CASE HandOver(s, p)
  <2> DEFINE q == Append(live[s], p)
  <2>1. /\ q \in Seq(AnyPacket) /\ Rises(q) /\ Packets(q) = Packets(live[s]) \cup ({p} \cap Packet)
    <3>1. live[s] \in Seq(AnyPacket) /\ Rises(live[s]) /\ Below(Packets(live[s]), {p} \cap Packet)
      BY <1>1 DEF TypeOK, Ordered, Below
    <3> QED BY <3>1, AppendOrdered
  <2>2. /\ ShuttingDown(s) /\ UNCHANGED <<past, text>>
        /\ \/ Push(q) /\ live'[s] = <<>>
           \/ live'[s] = q /\ UNCHANGED <<suspended, kept>>
    BY <1>6 DEF TypeOK, HandOver, listVars
  <2>3. Packets(q) \subseteq Pending(s) /\ Packets(q) \cap Packets(cr'[s]) = {}
    BY <1>1, <1>2, <1>3, <2>1 DEF Pending
  <2> HIDE DEF q
  <2>4. CASE Push(q) /\ live'[s] = <<>>
    <3>1. ListOnce' /\ Kept' = Kept \cup Packets(q)
      BY <1>4, <2>1, <2>3, <2>4, PushOnce
    <3>2. Pending(s)' = Packets(cr'[s])
      BY <2>4, EmptyOrdered DEF Pending, Packets
    <3>3. Pending(s)' \subseteq Pending(s) /\ Spoken(s)' = Spoken(s)
      BY <1>1, <2>2, <3>2 DEF Pending, Spoken
    <3>4. OnceHere(s)'
      BY <1>3, <1>4, <1>5, <2>2, <2>3, <3>1, <3>2, <3>3 DEF OnceHere
    <3> QED BY <2>3, <3>1, <3>3, <3>4
  <2>5. CASE live'[s] = q /\ UNCHANGED <<suspended, kept>>
    <3>1. Kept' = Kept /\ ListOnce'
      BY <2>5 DEF Kept, ListOnce
    <3>2. Pending(s)' = Packets(q) \cup Packets(cr'[s])
      BY <2>5 DEF Pending, Packets
    <3>3. Pending(s)' \subseteq Pending(s) /\ Spoken(s)' = Spoken(s)
      BY <1>1, <2>2, <2>3, <3>2 DEF Pending, Spoken
    <3>4. OnceHere(s)'
      BY <1>4, <1>5, <2>2, <3>1, <3>3 DEF OnceHere
    <3> QED BY <3>1, <3>3, <3>4
  <2> QED BY <2>2, <2>4, <2>5
<1>7. CASE Skip(s, p)
  <2>1. UNCHANGED <<live, past, text, suspended, kept>>
    BY <1>7 DEF Skip, listVars
  <2>2. Kept' = Kept /\ ListOnce'
    BY <2>1 DEF Kept, ListOnce
  <2>3. Pending(s)' \subseteq Pending(s) /\ Spoken(s)' = Spoken(s)
    BY <1>1, <2>1 DEF Pending, Spoken, Packets
  <2>4. OnceHere(s)'
    BY <1>4, <1>5, <2>1, <2>2, <2>3 DEF OnceHere
  <2> QED BY <2>2, <2>3, <2>4
<1>8. CASE TranscribeOne(s, p)
  <2>1. ~ShuttingDown(s) /\ UNCHANGED <<suspended, kept>>
    BY <1>8 DEF TranscribeOne, listVars
  <2>2. Kept' = Kept /\ ListOnce'
    BY <2>1 DEF Kept, ListOnce
  <2>3. /\ Packets(live'[s]) \subseteq Packets(live[s]) \cup ({p} \cap Packet)
        /\ Spoken(s)' = Spoken(s) \cup ({p} \cap Packet)
    <3>1. CASE p \in Newline
      BY <1>8, <3>1, TranscribeRanges, PacketsAreNumbers DEF Spoken, Packets
    <3>2. CASE p \notin Newline
      BY <1>8, <3>2, TranscribeRanges DEF Spoken, Packets
    <3> QED BY <3>1, <3>2
  <2>4. {p} \cap Packet \subseteq Pending(s) /\ Pending(s)' \subseteq Pending(s)
    BY <1>1, <2>3 DEF Pending, Packets
  <2>5. Spoken(s)' \cap Kept = {}
    BY <1>4, <2>1, <2>3, <2>4 DEF Spoken
  <2>6. OnceHere(s)'
    BY <1>4, <2>2, <2>4, <2>5 DEF OnceHere, Spoken
  <2> QED BY <2>2, <2>3, <2>4, <2>6
<1> QED BY <1>6, <1>7, <1>8 DEF Treat

LEMMA DoneOnce ==
    ASSUME TypeOK, NEW s \in Server, Ordered(s), OnceHere(s), ListOnce, Done(s)
    PROVE  /\ Pending(s)' \subseteq Pending(s) /\ Spoken(s)' \subseteq Spoken(s) \cup Pending(s)
           /\ Kept' \subseteq Kept \cup Pending(s) /\ OnceHere(s)' /\ ListOnce'
<1>1. /\ UNCHANGED <<cr, live, past, text, st>> /\ tr[s] = "loop" /\ tr'[s] = "stopped"
      /\ (ShuttingDown(s) /\ Push(live[s])) \/ UNCHANGED <<suspended, kept>>
  BY DEF TypeOK, Done, listVars
<1>2. /\ Range(past[s]) \cap Kept = {} /\ Pending(s) \cap Kept = {}
      /\ ~ShuttingDown(s) => Range(text[s]) \cap Kept = {}
  BY <1>1 DEF OnceHere, Active
<1>3. UNCHANGED <<Pending(s), Spoken(s), ShuttingDown(s)>> /\ ~Active(s)'
  BY <1>1 DEF Pending, Packets, Spoken, ShuttingDown, Active
<1>4. CASE Push(live[s])
  <2>1. live[s] \in Seq(AnyPacket) /\ Rises(live[s]) /\ Packets(live[s]) \subseteq Pending(s)
    BY DEF TypeOK, Ordered, Pending
  <2>2. ListOnce' /\ Kept' = Kept \cup Packets(live[s])
    BY <1>2, <1>4, <2>1, PushOnce
  <2>3. OnceHere(s)'
    BY <1>1, <1>2, <1>3, <2>1, <2>2, OrderedApart DEF OnceHere
  <2> QED BY <1>3, <2>1, <2>2, <2>3
<1>5. CASE UNCHANGED <<suspended, kept>>
  <2>1. Kept' = Kept /\ ListOnce'
    BY <1>5 DEF Kept, ListOnce
  <2>2. OnceHere(s)'
    BY <1>1, <1>2, <1>3, <2>1 DEF OnceHere
  <2> QED BY <1>3, <2>1, <2>2
<1> QED BY <1>1, <1>4, <1>5

(* The session of s begins or is forgotten: it has said nothing but what   *)
(* storage had, which is then no longer there.                             *)
LEMMA FreshOnce ==
    ASSUME Once, NEW s \in Server, OnlyAt(s), UNCHANGED <<published, kept>>,
           Pending(s)' = {}, stored' = NoState \/ stored' = stored,
           Spoken(s)' = {} \/ (stored # NoState /\ Spoken(s)' = Range(stored) /\ stored' = NoState),
           Range(past'[s]) \subseteq Spoken(s)', Range(text'[s]) = {}
    PROVE  Once'
<1>1. Kept' = Kept
  BY DEF Kept
<1>2. \A t \in Server \ {s} :
        /\ Active(t)' = Active(t) /\ Pending(t)' = Pending(t) /\ Spoken(t)' = Spoken(t)
        /\ past'[t] = past[t] /\ text'[t] = text[t] /\ ShuttingDown(t)' = ShuttingDown(t)
  BY SameAt
<1>3. OnceHere(s)' /\ OnceStored(s)'
  BY <1>1 DEF Once, OnceHere, OnceStored
<1>4. \A t \in Server \ {s} : OnceHere(t)' /\ OnceStored(t)'
  BY <1>1, <1>2 DEF Once, OnceHere, OnceStored
<1>5. \A t \in Server \ {s} : OnceBetween(s, t)' /\ OnceBetween(t, s)'
  BY <1>2 DEF Once, OnceBetween, OnceStored
<1>6. \A t, u \in Server \ {s} : t # u => OnceBetween(t, u)'
  BY <1>2 DEF Once, OnceBetween
<1> QED BY <1>1, <1>3, <1>4, <1>5, <1>6 DEF Once

LEMMA SameOnce ==
    ASSUME Once, UNCHANGED <<published, cr, live, text, past, stored, kept>>,
           \A s \in Server : ShuttingDown(s) => ShuttingDown(s)',
           \A s \in Server : Active(s)' = Active(s)
    PROVE  Once'
<1>1. /\ Kept' = Kept
      /\ \A s \in Server : UNCHANGED <<Pending(s), Spoken(s)>>
  BY DEF Kept, Pending, Packets, Spoken
<1>2. \A s \in Server : OnceHere(s)' /\ OnceStored(s)'
  BY <1>1 DEF Once, OnceHere, OnceStored
<1>3. \A s, t \in Server : s # t => OnceBetween(s, t)'
  BY <1>1 DEF Once, OnceBetween
<1> QED BY <1>1, <1>2, <1>3 DEF Once

LEMMA PublishOnce ==
    ASSUME Base, Base', AllOrdered, Once, Publish
    PROVE  Once'
<1> DEFINE n == published + 1
<1>1. /\ published' = n /\ n \in Packet /\ n \notin 1 .. published /\ 1 .. published \subseteq 1 .. n
      /\ UNCHANGED <<st, tr, live, past, text, stored, kept>>
  BY PacketBounds DEF Base, TypeOK, Publish, trVars, listVars, Packet
<1>2. \A s \in Server :
        cr'[s] = IF Listening(s) THEN Append(cr[s], n) ELSE cr[s]
  BY DEF Base, TypeOK, Publish
<1>3. \A s \in Server : cr[s] \in Seq(AnyPacket)
  BY DEF Base, TypeOK, AnyPacket
<1>4. /\ Kept' = Kept
      /\ \A s \in Server : UNCHANGED <<Active(s), Spoken(s), ShuttingDown(s)>>
  BY <1>1 DEF Kept, Active, Spoken, ShuttingDown
<1> HIDE DEF n
<1>5. \A s \in Server : Listening(s) => Pending(s)' = Pending(s) \cup {n}
  <2> SUFFICES ASSUME NEW s \in Server, Listening(s) PROVE Pending(s)' = Pending(s) \cup {n}
    OBVIOUS
  <2>1. n \in AnyPacket
    BY <1>1 DEF AnyPacket
  <2>2. Range(cr'[s]) = Range(cr[s]) \cup {n}
    BY <1>2, <1>3, <2>1, RangeAppend
  <2> QED BY <1>1, <2>2 DEF Pending, Packets
<1>6. \A s \in Server : ~Listening(s) => Pending(s)' = Pending(s)
  BY <1>1, <1>2 DEF Pending, Packets
<1>7. \A s \in Server : n \notin Pending(s) /\ n \notin Spoken(s)
  BY <1>1 DEF AllOrdered, Ordered, Pending, Spoken
<1>8. n \notin Kept /\ (stored # NoState => n \notin Range(stored))
  BY <1>1 DEF Once, AllOrdered
<1>9. \A s \in Server : OnceHere(s)' /\ OnceStored(s)'
  BY <1>1, <1>4, <1>5, <1>6, <1>7, <1>8 DEF Once, OnceHere, OnceStored
<1>10. \A s, t \in Server : Listening(s) /\ Listening(t) => s = t
  BY ListenerHolds DEF Base, InTurns
<1>11. \A s, t \in Server : s # t => OnceBetween(s, t)'
  BY <1>4, <1>5, <1>6, <1>7, <1>10 DEF Once, OnceBetween
<1>12. Kept' \subseteq 1 .. published'
  BY <1>1, <1>4 DEF Once
<1> QED BY <1>1, <1>4, <1>9, <1>11, <1>12 DEF Once

LEMMA ListKept ==
    ASSUME ListOnce, UNCHANGED <<suspended, kept>>
    PROVE  ListOnce'
BY DEF ListOnce

LEMMA OnceKept ==
    ASSUME Base, AllOrdered, Once, ListOnce, [Next]_vars
    PROVE  Once' /\ ListOnce'
<1>0. Base' /\ TypeOK
  BY NextBase DEF Base
<1>1. CASE Publish
  <2>1. ListOnce'
    BY <1>1, ListKept DEF Publish, listVars
  <2> QED BY <1>0, <1>1, <2>1, PublishOnce
<1>2. ASSUME NEW s \in Server, Signal(s) PROVE Once' /\ ListOnce'
  <2>1. /\ UNCHANGED <<published, st, tr, live, past, text, stored, suspended, kept>> /\ OnlyAt(s)
        /\ cr'[s] = Append(cr[s], AttachPacket) /\ cr[s] \in Seq(AnyPacket)
        /\ \A t \in Server \ {s} : cr'[t] = cr[t]
    BY <1>0, <1>2 DEF TypeOK, Signal, trVars, listVars, OnlyAt, AnyPacket
  <2>2. Range(cr'[s]) = Range(cr[s]) \cup {AttachPacket}
    BY <2>1, RangeAppend DEF AnyPacket
  <2>3. Packets(cr'[s]) = Packets(cr[s]) /\ \A t \in Server \ {s} : Packets(cr'[t]) = Packets(cr[t])
    BY <2>1, <2>2, PacketsAreNumbers DEF Packets
  <2>4. /\ Kept' = Kept /\ ListOnce'
        /\ \A t \in Server : UNCHANGED <<Active(t), Spoken(t), ShuttingDown(t)>>
    BY <2>1, ListKept DEF Kept, Active, Spoken, ShuttingDown
  <2>5. \A t \in Server : Pending(t)' = Pending(t)
    BY <2>1, <2>3 DEF Pending, Packets
  <2>6. \A t \in Server : OnceHere(t)' /\ OnceStored(t)'
    BY <2>1, <2>4, <2>5 DEF Once, OnceHere, OnceStored
  <2>7. \A t, u \in Server : t # u => OnceBetween(t, u)'
    BY <2>4, <2>5 DEF Once, OnceBetween
  <2> QED BY <2>1, <2>4, <2>6, <2>7 DEF Once
<1>3. CASE \/ FetchTranscript \/ RenewTranscript \/ DropTranscript \/ UNCHANGED vars
           \/ \E s \in Server : \/ Shutdown(s) \/ Cancel(s) \/ End(s) \/ EndSession(s) \/ CloseClient(s)
                             \/ Finish(s) \/ LoadPackets(s) \/ LimitPackets(s)
  <2>1. UNCHANGED <<published, cr, live, text, past, stored, suspended, kept>>
    BY <1>3 DEF FetchTranscript, RenewTranscript, DropTranscript, vars, Shutdown, Cancel, End,
       EndSession, CloseClient, Finish, StoreTranscript, LimitTranscript, LoadPackets, LimitPackets,
       hubVars, trVars, listVars
  <2>2. \A s \in Server : ShuttingDown(s) => ShuttingDown(s)'
    BY <1>0, <1>3 DEF TypeOK, FetchTranscript, RenewTranscript, DropTranscript, vars, Shutdown, Cancel,
       End, EndSession, CloseClient, Finish, StoreTranscript, LimitTranscript, LoadPackets, LimitPackets,
       ShuttingDown
  <2>3. \A s \in Server : Active(s)' = Active(s)
    BY <1>0, <1>3 DEF TypeOK, FetchTranscript, RenewTranscript, DropTranscript, vars, Shutdown, Cancel,
       End, EndSession, CloseClient, Finish, StoreTranscript, LimitTranscript, LoadPackets, LimitPackets,
       trVars, Active
  <2> QED BY <2>1, <2>2, <2>3, SameOnce, ListKept
<1>4. CASE Expire
  <2>1. /\ UNCHANGED <<st, published, tr, cr, live, text, past, stored, kept>> /\ suspended' = <<>>
    BY <1>4 DEF Expire, hubVars, trVars
  <2>2. ListOnce'
    BY <2>1, RangeEmpty DEF ListOnce
  <2>3. \A s \in Server : Active(s)' = Active(s) /\ ShuttingDown(s)' = ShuttingDown(s)
    BY <2>1 DEF Active, ShuttingDown
  <2> QED BY <2>1, <2>2, <2>3, SameOnce
<1>5. ASSUME NEW s \in Server, SaveState(s) PROVE Once' /\ ListOnce'
  <2>1. /\ UNCHANGED <<published, tr, cr, live, text, past, suspended, kept>>
        /\ stored' = past[s] \/ stored' = stored
    BY <1>5 DEF SaveState, hubVars, trVars, listVars
  <2>2. \A t \in Server : ShuttingDown(t)' = ShuttingDown(t)
    BY <1>0, <1>5 DEF TypeOK, SaveState, ShuttingDown
  <2>3. /\ Kept' = Kept /\ ListOnce'
        /\ \A t \in Server : UNCHANGED <<Active(t), Pending(t), Spoken(t)>>
    BY <2>1, ListKept DEF Kept, Active, Pending, Packets, Spoken
  <2>4. CASE stored' = stored
    BY <2>1, <2>2, <2>3, <2>4, SameOnce
  <2>5. CASE stored' = past[s]
    <3>1. \A t \in Server : OnceHere(t)'
      BY <2>1, <2>2, <2>3 DEF Once, OnceHere
    <3>2. \A t \in Server : OnceStored(t)'
      BY <1>0, <2>3, <2>5, OrderedApart DEF Once, OnceStored, OnceBetween, Spoken, AllOrdered
    <3>3. \A t, u \in Server : t # u => OnceBetween(t, u)'
      BY <2>3 DEF Once, OnceBetween
    <3> QED BY <2>1, <2>3, <2>5, <3>1, <3>2, <3>3 DEF Once, OnceHere
  <2> QED BY <2>1, <2>4, <2>5
<1>6. ASSUME NEW s \in Server, Start(s) \/ Forget(s) PROVE Once' /\ ListOnce'
  <2>1. /\ UNCHANGED <<published, suspended, kept>> /\ OnlyAt(s)
        /\ cr'[s] = <<>> /\ live'[s] = <<>> /\ text'[s] = <<>>
        /\ \/ past'[s] = <<>> /\ stored' = stored
           \/ stored # NoState /\ past'[s] = stored /\ stored' = NoState
    <3>1. CASE Start(s)
      <4>1. Blank(s)
        BY <3>1 DEF Base, BlankOutside, Start
      <4> QED BY <1>0, <3>1, <4>1 DEF TypeOK, Blank, Start, listVars, OnlyAt
    <3>2. CASE Forget(s)
      BY <1>0, <3>2 DEF TypeOK, Forget, listVars, OnlyAt
    <3> QED BY <1>6, <3>1, <3>2
  <2>2. Pending(s)' = {} /\ Spoken(s)' = Range(past'[s]) /\ Range(text'[s]) = {}
    BY <2>1, EmptyOrdered, RangeEmpty DEF Pending, Packets, Spoken
  <2>3. Once'
    BY <2>1, <2>2, RangeEmpty, FreshOnce
  <2> QED BY <2>1, <2>3, ListKept
<1>7. ASSUME NEW s \in Server, First(s) PROVE Once' /\ ListOnce'
  <2>1. PICK p \in AnyPacket : Receive(s, p)
    BY <1>7 DEF First, AnyPacket
  <2>2. /\ UNCHANGED <<published, st, live, text, past, stored, suspended, kept>> /\ OnlyAt(s)
        /\ tr[s] = "first" /\ tr'[s] = "load"
    BY <1>0, <1>7 DEF TypeOK, First, Receive, hubVars, listVars, OnlyAt
  <2>3. Packets(cr'[s]) \subseteq Packets(cr[s])
    BY <1>0, <2>1, ReceiveOrdered DEF AllOrdered, Ordered
  <2>4. /\ Kept' = Kept /\ UNCHANGED <<Spoken(s), ShuttingDown(s)>> /\ Active(s) /\ Active(s)'
        /\ Pending(s)' \subseteq Pending(s)
    BY <2>2, <2>3 DEF Kept, Spoken, ShuttingDown, Active, Pending, Packets
  <2>5. Moves(s)
    BY <2>2, <2>4 DEF Moves
  <2>6. OnceHere(s)'
    BY <2>2, <2>4 DEF Once, OnceHere
  <2> QED BY <2>2, <2>5, <2>6, MovesOnce, ListKept
<1>8. ASSUME NEW s \in Server, Take(s) PROVE Once' /\ ListOnce'
  <2>1. PICK p \in AnyPacket : Receive(s, p) /\ Treat(s, p)
    BY <1>8 DEF Take, Treat, AnyPacket
  <2>2. UNCHANGED <<published, st, tr, stored, ids>> /\ tr[s] = "loop"
    BY <1>8 DEF Take, hubVars
  <2>3. OnlyAt(s)
    BY <1>0, <1>8, <2>1, <2>2 DEF TypeOK, Take, Receive, Treat, HandOver, Skip, TranscribeOne, OnlyAt
  <2>4. /\ Pending(s)' \subseteq Pending(s) /\ Spoken(s)' \subseteq Spoken(s) \cup Pending(s)
        /\ Kept' \subseteq Kept \cup Pending(s) /\ OnceHere(s)' /\ ListOnce'
    BY <1>0, <2>1, <2>2, TreatOnce DEF AllOrdered, Once
  <2>5. Moves(s)
    BY <2>2, <2>3, <2>4 DEF Moves, Active
  <2> QED BY <2>4, <2>5, MovesOnce
<1>9. ASSUME NEW s \in Server, Done(s) PROVE Once' /\ ListOnce'
  <2>1. /\ UNCHANGED <<published, st, stored>> /\ tr[s] = "loop" /\ OnlyAt(s)
    BY <1>0, <1>9 DEF TypeOK, Done, hubVars, OnlyAt
  <2>2. /\ Pending(s)' \subseteq Pending(s) /\ Spoken(s)' \subseteq Spoken(s) \cup Pending(s)
        /\ Kept' \subseteq Kept \cup Pending(s) /\ OnceHere(s)' /\ ListOnce'
    BY <1>0, <1>9, DoneOnce DEF AllOrdered, Once
  <2>3. Moves(s)
    BY <2>1, <2>2 DEF Moves, Active
  <2> QED BY <2>2, <2>3, MovesOnce
<1> QED
  BY <1>1, <1>2, <1>3, <1>4, <1>5, <1>6, <1>7, <1>8, <1>9
  DEF Next, Suspend, Exit, Panic, Crash, Transcriber

LEMMA InitOnce == Init => Once /\ ListOnce
<1> SUFFICES ASSUME Init PROVE Once /\ ListOnce
  OBVIOUS
<1>1. \A s \in Server : cr[s] = <<>> /\ live[s] = <<>> /\ text[s] = <<>> /\ past[s] = <<>>
  BY DEF Init
<1>2. stored = <<>> /\ suspended = <<>> /\ kept = {}
  BY DEF Init
<1>3. \A s \in Server : Pending(s) = {} /\ Spoken(s) = {} /\ Range(past[s]) = {} /\ Range(text[s]) = {}
  BY <1>1, EmptyOrdered, RangeEmpty DEF Pending, Spoken
<1>4. Once
  BY <1>2, <1>3, RangeEmpty DEF Once, OnceHere, OnceStored, OnceBetween, Kept
<1>5. ListOnce
  BY <1>2, RangeEmpty DEF ListOnce
<1> QED BY <1>4, <1>5

(* No packet is handed over twice, nor one whose line is in a past text,   *)
(* even if saves fail and are repeated with the next packet, if a list     *)
(* outlives the server it was for, or the transcriber of an earlier server *)
(* still runs: what it has still to say no other server ever hears.        *)
THEOREM HandedOverOnceAlways == Spec => []HandedOverOnce
<1>1. Once /\ ListOnce => HandedOverOnce
  BY DEF Once, OnceHere, ListOnce, Kept, HandedOverOnce
<1>2. (Base /\ AllOrdered) /\ (Once /\ ListOnce) /\ [Next]_vars => (Once /\ ListOnce)'
  BY OnceKept
<1> QED BY <1>1, <1>2, InitOnce, OrderAlways, PTL DEF Spec
=============================================================================

------------------------- MODULE ParticipantsProofs -------------------------
(***************************************************************************)
(* Proofs about Participants, for any clients, presence changes, removals, *)
(* failures and ends of the session, as long as a client has one request   *)
(* served at a time.                                                       *)
(***************************************************************************)
EXTENDS Participants, FiniteSetTheorems, TLAPS

(* The kinds of the values, variable by variable. *)
PartType == {None} \cup [role : Role, online : BOOLEAN]
HubType  == {None} \cup [whisper : BOOLEAN, attached : BOOLEAN]
CallPc   == {"idle", "hub", "insert", "online", "asking"}
CallType == [pc : CallPc, role : Role, attached : BOOLEAN, seen : SUBSET Client]

(* What a request in progress finds: nobody else has touched its client.   *)
CallsOwn ==
    \A c \in Client :
        /\ call[c].pc \in {"hub", "insert", "online"} =>
             part[c] # None /\ part[c].role = call[c].role
        /\ call[c].pc \in {"hub", "insert"} => hub[c] = None
        /\ call[c].pc = "online" => hub[c] # None
        /\ call[c].pc # "idle" => removing[c] = "no"
        /\ removing[c] = "state" => hub[c] = None /\ part[c] # None /\ starting = {}

(* A participant of the saved state that start has still to add.           *)
StartersWait ==
    \A c \in starting :
        /\ part[c] # None /\ call[c].pc # "asking"
        /\ call[c].pc = "idle" => hub[c] = None

(* Who was refused was refused by a session that had ended, and so nobody  *)
(* is taken out of that one who was.                                       *)
RefusedAtEnd ==
    \A c \in Client : c \in refused => ended /\ removing[c] = "no"

IInv == TypeOK /\ CallsOwn /\ StartersWait /\ RefusedAtEnd /\ HubAgrees

-----------------------------------------------------------------------------
(* Types *)

LEMMA InitTyped == Init => TypeOK
<1> SUFFICES ASSUME Init PROVE TypeOK
  OBVIOUS
<1> DEFINE S == {<<c, TRUE>> : c \in {d \in Client : present[d]}}
<1>1. messages \in Seq(Client \X BOOLEAN)
  <2>1. IsFiniteSet(Client \X {TRUE})
    BY FiniteClients, FS_Singleton, FS_Product, Zenon
  <2>2. IsFiniteSet(S)
    <3>1. \A d \in Client : <<d, TRUE>> \in Client \X {TRUE}
      BY Zenon
    <3>2. S \in SUBSET (Client \X {TRUE})
      BY <3>1
    <3> QED BY <2>1, <3>2, FS_Subset
  <2>3. Cardinality(S) \in Nat
    BY <2>2, FS_CardinalityType
  <2>4. messages \in [1 .. Cardinality(S) -> S]
    BY DEF Init, SetToSeqs
  <2>5. S \subseteq Client \X BOOLEAN
    <3>1. \A d \in Client : <<d, TRUE>> \in Client \X BOOLEAN
      BY Zenon
    <3> QED BY <3>1
  <2> HIDE DEF S
  <2> QED BY <2>3, <2>4, <2>5
<1>2. /\ part \in [Client -> {None} \cup [role : Role, online : BOOLEAN]]
      /\ waitlist \in SUBSET Client
      /\ hub \in [Client -> {None} \cup [whisper : BOOLEAN, attached : BOOLEAN]]
      /\ removing \in [Client -> {"no", "state"}]
      /\ starting \in SUBSET Client
      /\ present \in [Client -> BOOLEAN]
  BY DEF Init, Role
<1>3. call \in [Client -> [pc : {"idle", "hub", "insert", "online", "asking"},
                           role : Role, attached : BOOLEAN, seen : SUBSET Client]]
  BY DEF Init, NoCall, Role
<1>4. /\ sr \in Seq(Client \X BOOLEAN)
      /\ told \in SUBSET (Client \cup {WhispererName})
      /\ announced \in SUBSET Client
      /\ resumed \in SUBSET Client
      /\ removed \in SUBSET Client
  BY DEF Init
<1>5. token \in [Client -> {"none", "subscribe", "publish"}]
  BY DEF Init
<1>6. moves \in 0 .. MaxMoves
  BY Bounds DEF Init
<1>7. unheard \in BOOLEAN /\ ended \in BOOLEAN /\ refused \in SUBSET Client
  BY DEF Init
<1> QED BY <1>1, <1>2, <1>3, <1>4, <1>5, <1>6, <1>7 DEF TypeOK

(* The notice of pending requests goes to a name, or to nobody. *)
LEMMA ToldTyped ==
    ASSUME told \in SUBSET (Client \cup {WhispererName}), NEW p, NEW w,
           NotifyNeedsAuth(p, w) \/ UNCHANGED told
    PROVE  told' \in SUBSET (Client \cup {WhispererName})
BY DEF NotifyNeedsAuth, SendControl

(* A call moves; the calls of the other clients do not. *)
LEMMA GoToMoves ==
    ASSUME call \in [Client -> CallType], NEW c \in Client, NEW p \in CallPc, GoTo(c, p)
    PROVE  /\ call' \in [Client -> CallType]
           /\ call'[c].pc = p /\ call'[c].role = call[c].role
           /\ \A d \in Client : d # c => call'[d] = call[d]
BY DEF GoTo, CallType

-----------------------------------------------------------------------------
(* One lemma for each action.  The parts of the invariant follow from what *)
(* the action leaves of part, hub, call, removing and starting.            *)

(* The parts about requests, together. *)
Agreement == CallsOwn /\ StartersWait /\ RefusedAtEnd /\ HubAgrees

(* Nothing that the invariant speaks of has changed. *)
LEMMA Unaffected ==
    ASSUME Agreement, UNCHANGED <<part, hub, calls, refused, ended>>
    PROVE  Agreement'
BY DEF Agreement, CallsOwn, StartersWait, RefusedAtEnd, HubAgrees, calls

LEMMA JoinKeeps ==
    ASSUME IInv, InTurn, NEW c \in Client, NEW role \in Role, Join(c, role)
    PROVE  IInv'
<1> USE DEF IInv, Role
<1>1. TypeOK'
  <2>1. told' \in SUBSET (Client \cup {WhispererName})
    BY ToldTyped DEF TypeOK, Join
  <2>2. part' \in [Client -> PartType]
    <3>1. [role |-> role, online |-> FALSE] \in PartType
      BY DEF PartType
    <3>2. part \in [Client -> PartType]
      BY DEF TypeOK, PartType
    <3> QED BY <3>1, <3>2 DEF Join
  <2>3. call' \in [Client -> CallType]
    <3>1. [NoCall EXCEPT !.pc = "hub", !.role = role] \in CallType
      BY DEF CallType, CallPc, NoCall
    <3>2. call \in [Client -> CallType]
      BY DEF TypeOK, CallType, CallPc
    <3> QED BY <3>1, <3>2 DEF Join
  <2>4. waitlist' \in SUBSET Client
    BY DEF TypeOK, Join
  <2> QED
    BY <2>1, <2>2, <2>3, <2>4 DEF TypeOK, Join, PartType, CallType, CallPc, channels, notices, history
<1>2. CASE part[c] # None
  <2>1. UNCHANGED <<part, hub, calls, refused, ended>>
    BY <1>2 DEF Join, calls, channels, history
  <2> QED BY <1>1, <2>1, Unaffected DEF Agreement
<1>3. CASE part[c] = None
  <2>1. /\ part' = [part EXCEPT ![c] = [role |-> role, online |-> FALSE]]
        /\ call' = [call EXCEPT ![c] = [NoCall EXCEPT !.pc = "hub", !.role = role]]
        /\ UNCHANGED <<hub, removing, starting, refused, ended>>
        /\ starting = {} /\ call[c].pc = "idle" /\ removing[c] = "no"
    BY <1>3 DEF Join, Request, InFlight, channels, history
  <2>2. hub[c] = None
    BY <1>3, <2>1 DEF HubAgrees
  <2>3. part'[c] # None /\ part'[c].role = role
    <3>1. part'[c] = [role |-> role, online |-> FALSE]
      BY <2>1 DEF TypeOK
    <3>2. [role |-> role, online |-> FALSE] # None
      <4>1. [role |-> role, online |-> FALSE] \in [role : {"whisperer", "listener"}, online : BOOLEAN]
        OBVIOUS
      <4> QED BY <4>1, NoneIsNothing
    <3> QED BY <3>1, <3>2
  <2>4. call'[c].pc = "hub" /\ call'[c].role = role
    BY <2>1 DEF TypeOK, NoCall
  <2>5. \A d \in Client : d # c => part'[d] = part[d] /\ call'[d] = call[d]
    BY <2>1 DEF TypeOK
  <2>6. CallsOwn'
    BY <2>1, <2>2, <2>3, <2>4, <2>5 DEF CallsOwn
  <2>7. StartersWait'
    BY <2>1 DEF StartersWait
  <2>8. HubAgrees'
    BY <2>1, <2>2, <2>3, <2>4, <2>5 DEF HubAgrees
  <2>9. RefusedAtEnd'
    BY <2>1 DEF RefusedAtEnd
  <2> QED BY <1>1, <2>6, <2>7, <2>8, <2>9
<1> QED BY <1>2, <1>3

LEMMA ResumeKeeps ==
    ASSUME IInv, NEW c \in Client, Resume(c)
    PROVE  IInv'
<1> USE DEF IInv
<1>1. /\ part[c] # None /\ part[c] \in [role : Role, online : BOOLEAN]
      /\ hub[c] = None /\ call[c].pc = "idle" /\ removing[c] = "no"
  BY DEF Resume, StartersWait, InFlight, TypeOK
<1>2. call' = [call EXCEPT ![c] = [NoCall EXCEPT !.pc = "hub", !.role = part[c].role]]
  BY DEF Resume
<1>3. UNCHANGED <<part, hub, removing, starting, refused, ended>>
  BY DEF Resume, known, channels, history
<1>4. call' \in [Client -> CallType]
  BY <1>1, <1>2 DEF TypeOK, CallType, CallPc, NoCall
<1>5. call'[c].pc = "hub" /\ call'[c].role = part[c].role
  BY <1>2 DEF TypeOK, NoCall
<1>6. \A d \in Client : d # c => call'[d] = call[d]
  BY <1>2 DEF TypeOK
<1>7. TypeOK'
  BY <1>4 DEF TypeOK, Resume, CallType, CallPc, known, channels, notices, history
<1>8. CallsOwn'
  BY <1>1, <1>3, <1>5, <1>6 DEF CallsOwn
<1>9. StartersWait'
  <2>1. starting \in SUBSET Client
    BY DEF TypeOK
  <2> QED BY <2>1, <1>3, <1>5, <1>6 DEF StartersWait
<1>10. HubAgrees'
  BY <1>1, <1>3, <1>5, <1>6 DEF HubAgrees
<1>11. RefusedAtEnd'
  BY <1>3 DEF RefusedAtEnd
<1> QED BY <1>7, <1>8, <1>9, <1>10, <1>11

(* In turn, the hub does not know the client that it is asked about.       *)
LEMMA AskHubKeeps ==
    ASSUME IInv, NEW c \in Client, AskHub(c)
    PROVE  IInv'
<1> USE DEF IInv
<1>1. hub[c] = None /\ call[c].pc = "hub"
  BY DEF AskHub, CallsOwn
<1>2. UpdatePresence(c) /\ UNCHANGED <<part, hub, removing, starting, refused, ended>>
  BY <1>1 DEF AskHub, channels, history
<1>3. PICK on \in BOOLEAN : call' = [call EXCEPT ![c].pc = "insert", ![c].attached = on]
  BY <1>2 DEF UpdatePresence, TypeOK
<1>4. call' \in [Client -> CallType]
  <2>1. [call[c] EXCEPT !.pc = "insert", !.attached = on] \in CallType
    <3> DEFINE k == [call[c] EXCEPT !.pc = "insert"]
    <3>1. call[c] \in CallType
      BY DEF TypeOK, CallType, CallPc
    <3>2. k \in CallType
      BY <3>1 DEF CallType, CallPc
    <3> HIDE DEF k
    <3>3. [k EXCEPT !.attached = on] \in CallType
      BY <3>2 DEF CallType
    <3> QED BY <3>3, Zenon DEF k
  <2>2. call \in [Client -> CallType]
    BY DEF TypeOK, CallType, CallPc
  <2>3. call' = [call EXCEPT ![c] = [call[c] EXCEPT !.pc = "insert", !.attached = on]]
    BY <1>3, <2>2
  <2> QED BY <2>1, <2>2, <2>3
<1>5. call'[c].pc = "insert" /\ call'[c].role = call[c].role
  BY <1>3 DEF TypeOK
<1>6. \A d \in Client : d # c => call'[d] = call[d]
  BY <1>3 DEF TypeOK
<1>7. TypeOK'
  BY <1>2, <1>3, <1>4 DEF TypeOK, AskHub, CallType, CallPc, channels, notices, history
<1>8. CallsOwn'
  BY <1>1, <1>2, <1>5, <1>6 DEF CallsOwn
<1>9. StartersWait'
  <2>1. starting \in SUBSET Client
    BY DEF TypeOK
  <2> QED BY <2>1, <1>2, <1>5, <1>6 DEF StartersWait
<1>10. HubAgrees'
  BY <1>1, <1>2, <1>5, <1>6 DEF HubAgrees
<1>11. RefusedAtEnd'
  BY <1>2 DEF RefusedAtEnd
<1> QED BY <1>7, <1>8, <1>9, <1>10, <1>11

(* One that cannot be added stays a participant, and is remembered.        *)
LEMMA AddFailsKeeps ==
    ASSUME IInv, NEW c \in Client, AddFails(c)
    PROVE  IInv'
<1> USE DEF IInv
<1>1. /\ call[c].pc = "hub" /\ hub[c] = None /\ part[c] # None
      /\ part[c] \in [role : Role, online : BOOLEAN] /\ removing[c] = "no"
  BY DEF AddFails, CallsOwn, TypeOK
<1>2. /\ part' = [part EXCEPT ![c].online = FALSE]
      /\ call' = [call EXCEPT ![c] = NoCall]
      /\ refused' = refused \cup {c} /\ UNCHANGED <<hub, removing, starting, ended>> /\ ended
  BY <1>1 DEF AddFails, channels
<1>3. /\ part' \in [Client -> PartType]
      /\ part'[c] \in [role : Role, online : BOOLEAN] /\ part'[c].role = part[c].role
      /\ \A d \in Client : d # c => part'[d] = part[d]
  BY <1>1, <1>2 DEF TypeOK, PartType
<1>4. part'[c] # None
  BY <1>3, NoneIsNothing DEF Role
<1>5. /\ call' \in [Client -> CallType] /\ call'[c].pc = "idle"
      /\ \A d \in Client : d # c => call'[d] = call[d]
  BY <1>2 DEF TypeOK, CallType, CallPc, NoCall, Role
<1>6. told' \in SUBSET (Client \cup {WhispererName})
  BY ToldTyped DEF AddFails, TypeOK
<1>7. TypeOK'
  BY <1>2, <1>3, <1>5, <1>6
     DEF TypeOK, AddFails, PartType, CallType, CallPc, channels, notices
<1>8. CallsOwn'
  BY <1>1, <1>2, <1>3, <1>4, <1>5 DEF CallsOwn
<1>9. StartersWait'
  <2>1. starting \in SUBSET Client
    BY DEF TypeOK
  <2> QED BY <2>1, <1>1, <1>2, <1>3, <1>4, <1>5 DEF StartersWait
<1>10. HubAgrees'
  <2>1. c \in refused' /\ \A d \in Client : d # c => (d \in refused' <=> d \in refused)
    BY <1>2
  <2> QED BY <1>1, <1>2, <1>3, <1>4, <1>5, <2>1 DEF HubAgrees
<1>11. RefusedAtEnd'
  BY <1>1, <1>2 DEF RefusedAtEnd
<1> QED BY <1>7, <1>8, <1>9, <1>10, <1>11

LEMMA InsertHubKeeps ==
    ASSUME IInv, NEW c \in Client, InsertHub(c)
    PROVE  IInv'
<1> USE DEF IInv
<1>1. /\ call[c].pc = "insert" /\ call[c].role \in Role /\ call[c].attached \in BOOLEAN
      /\ part[c] # None /\ part[c].role = call[c].role /\ removing[c] = "no"
  BY DEF InsertHub, CallsOwn, TypeOK
<1>2. /\ hub' = [hub EXCEPT ![c] = Entry(call[c].role, call[c].attached)]
      /\ UNCHANGED <<part, removing, starting, refused, ended>>
  BY DEF InsertHub, channels, history
<1>3. hub' \in [Client -> HubType]
  BY <1>1, <1>2 DEF TypeOK, HubType, Entry
<1>4. hub'[c] # None /\ (hub'[c].whisper <=> call[c].role = "whisperer")
  <2>1. hub'[c] = Entry(call[c].role, call[c].attached)
    BY <1>2 DEF TypeOK
  <2>2. Entry(call[c].role, call[c].attached) \in [whisper : BOOLEAN, attached : BOOLEAN]
    BY <1>1 DEF Entry
  <2>3. Entry(call[c].role, call[c].attached).whisper = (call[c].role = "whisperer")
    BY DEF Entry
  <2> QED BY <2>1, <2>2, <2>3, NoneIsNothing, Zenon
<1>5. /\ call' \in [Client -> CallType]
      /\ call'[c].pc = "online" /\ call'[c].role = call[c].role
      /\ \A d \in Client : d # c => call'[d] = call[d]
  BY GoToMoves DEF InsertHub, TypeOK, CallType, CallPc
<1>6. \A d \in Client : d # c => hub'[d] = hub[d]
  BY <1>2 DEF TypeOK
<1>7. TypeOK'
  BY <1>2, <1>3, <1>5 DEF TypeOK, InsertHub, HubType, CallType, CallPc, channels, notices, history
<1>8. CallsOwn'
  BY <1>1, <1>2, <1>4, <1>5, <1>6 DEF CallsOwn
<1>9. StartersWait'
  <2>1. starting \in SUBSET Client
    BY DEF TypeOK
  <2> QED BY <2>1, <1>2, <1>5, <1>6 DEF StartersWait
<1>10. HubAgrees'
  BY <1>1, <1>2, <1>4, <1>5, <1>6 DEF HubAgrees
<1>11. RefusedAtEnd'
  BY <1>2 DEF RefusedAtEnd
<1> QED BY <1>7, <1>8, <1>9, <1>10, <1>11

LEMMA SetOnlineKeeps ==
    ASSUME IInv, NEW c \in Client, SetOnline(c)
    PROVE  IInv'
<1> USE DEF IInv
<1>1. /\ call[c].pc = "online" /\ call[c].attached \in BOOLEAN /\ hub[c] # None
      /\ part[c] # None /\ part[c] \in [role : Role, online : BOOLEAN]
      /\ part[c].role = call[c].role /\ removing[c] = "no"
  BY DEF SetOnline, CallsOwn, TypeOK
<1>2. /\ part' = [part EXCEPT ![c].online = call[c].attached]
      /\ call' = [call EXCEPT ![c] = NoCall]
      /\ starting' = starting \ {c} /\ UNCHANGED <<hub, removing, refused, ended>>
  BY <1>1 DEF SetOnline, channels, history
<1>3. /\ part' \in [Client -> PartType]
      /\ part'[c] \in [role : Role, online : BOOLEAN] /\ part'[c].role = part[c].role
      /\ \A d \in Client : d # c => part'[d] = part[d]
  BY <1>1, <1>2 DEF TypeOK, PartType
<1>4. part'[c] # None
  BY <1>3, NoneIsNothing DEF Role
<1>5. /\ call' \in [Client -> CallType] /\ call'[c].pc = "idle"
      /\ \A d \in Client : d # c => call'[d] = call[d]
  BY <1>2 DEF TypeOK, CallType, CallPc, NoCall, Role
<1>6. told' \in SUBSET (Client \cup {WhispererName})
  BY ToldTyped DEF SetOnline, TypeOK
<1>7. TypeOK'
  BY <1>2, <1>3, <1>5, <1>6 DEF TypeOK, SetOnline, PartType, CallType, CallPc, channels, notices, history
<1>8. CallsOwn'
  BY <1>1, <1>2, <1>3, <1>4, <1>5 DEF CallsOwn
<1>9. StartersWait'
  <2>1. starting \in SUBSET Client
    BY DEF TypeOK
  <2> QED BY <2>1, <1>2, <1>3, <1>5 DEF StartersWait
<1>10. HubAgrees'
  BY <1>1, <1>2, <1>3, <1>4, <1>5 DEF HubAgrees
<1>11. RefusedAtEnd'
  BY <1>2 DEF RefusedAtEnd
<1> QED BY <1>7, <1>8, <1>9, <1>10, <1>11

LEMMA ReadWaitlistKeeps ==
    ASSUME IInv, InTurn, NEW c \in Client, ReadWaitlist(c)
    PROVE  IInv'
<1> USE DEF IInv
<1>1. starting = {} /\ call[c].pc = "idle" /\ removing[c] = "no"
  BY DEF ReadWaitlist, Request, InFlight
<1>2. /\ call' = [call EXCEPT ![c] = [NoCall EXCEPT !.pc = "asking", !.seen = waitlist]]
      /\ UNCHANGED <<part, hub, removing, starting, refused, ended>>
  BY DEF ReadWaitlist, known, channels, history
<1>3. /\ call' \in [Client -> CallType] /\ call'[c].pc = "asking"
      /\ \A d \in Client : d # c => call'[d] = call[d]
  BY <1>2 DEF TypeOK, CallType, CallPc, NoCall, Role
<1>4. TypeOK'
  BY <1>3 DEF TypeOK, ReadWaitlist, CallType, CallPc, known, channels, notices, history
<1>5. CallsOwn'
  BY <1>1, <1>2, <1>3 DEF CallsOwn
<1>6. StartersWait'
  BY <1>1, <1>2 DEF StartersWait
<1>7. HubAgrees'
  BY <1>1, <1>2, <1>3 DEF HubAgrees
<1>8. RefusedAtEnd'
  BY <1>2 DEF RefusedAtEnd
<1> QED BY <1>4, <1>5, <1>6, <1>7, <1>8

LEMMA WriteWaitlistKeeps ==
    ASSUME IInv, NEW c \in Client, WriteWaitlist(c)
    PROVE  IInv'
<1> USE DEF IInv
<1>1. /\ call[c].pc = "asking" /\ call[c].seen \in SUBSET Client
      /\ c \notin starting /\ removing[c] = "no"
  BY DEF WriteWaitlist, CallsOwn, StartersWait, TypeOK
<1>2. /\ call' = [call EXCEPT ![c] = NoCall]
      /\ UNCHANGED <<part, hub, removing, starting, refused, ended>>
  BY DEF WriteWaitlist, channels, history
<1>3. /\ call' \in [Client -> CallType] /\ call'[c].pc = "idle"
      /\ \A d \in Client : d # c => call'[d] = call[d]
  BY <1>2 DEF TypeOK, CallType, CallPc, NoCall, Role
<1>4. told' \in SUBSET (Client \cup {WhispererName})
  BY ToldTyped DEF WriteWaitlist, TypeOK
<1>5. TypeOK'
  BY <1>1, <1>3, <1>4 DEF TypeOK, WriteWaitlist, CallType, CallPc, channels, notices, history
<1>6. CallsOwn'
  BY <1>1, <1>2, <1>3 DEF CallsOwn
<1>7. StartersWait'
  <2>1. starting \in SUBSET Client
    BY DEF TypeOK
  <2> QED BY <2>1, <1>1, <1>2, <1>3 DEF StartersWait
<1>8. HubAgrees'
  BY <1>1, <1>2, <1>3 DEF HubAgrees
<1>9. RefusedAtEnd'
  BY <1>2 DEF RefusedAtEnd
<1> QED BY <1>5, <1>6, <1>7, <1>8, <1>9

LEMMA RemoveFromHubKeeps ==
    ASSUME IInv, InTurn, NEW c \in Client, RemoveFromHub(c)
    PROVE  IInv'
<1> USE DEF IInv
<1>1. starting = {} /\ call[c].pc = "idle" /\ removing[c] = "no" /\ part[c] # None /\ c \notin refused
  BY DEF RemoveFromHub, InFlight, RefusedAtEnd
<1>2. /\ hub' = [hub EXCEPT ![c] = None] /\ removing' = [removing EXCEPT ![c] = "state"]
      /\ UNCHANGED <<part, call, starting, refused, ended>>
  BY DEF RemoveFromHub, channels, history
<1>3. /\ hub'[c] = None /\ removing'[c] = "state"
      /\ \A d \in Client : d # c => hub'[d] = hub[d] /\ removing'[d] = removing[d]
  BY <1>2 DEF TypeOK
<1>4. TypeOK'
  BY <1>2 DEF TypeOK, RemoveFromHub, channels, notices, history
<1>5. CallsOwn'
  BY <1>1, <1>2, <1>3 DEF CallsOwn
<1>6. StartersWait'
  BY <1>1, <1>2 DEF StartersWait
<1>7. HubAgrees'
  BY <1>1, <1>2, <1>3 DEF HubAgrees
<1>8. RefusedAtEnd'
  BY <1>1, <1>2, <1>3 DEF RefusedAtEnd
<1> QED BY <1>4, <1>5, <1>6, <1>7, <1>8

LEMMA RemoveFromStateKeeps ==
    ASSUME IInv, NEW c \in Client, RemoveFromState(c)
    PROVE  IInv'
<1> USE DEF IInv
<1>1. hub[c] = None /\ starting = {} /\ call[c].pc = "idle" /\ c \notin refused
  BY DEF RemoveFromState, CallsOwn, RefusedAtEnd
<1>2. /\ part' = [part EXCEPT ![c] = None] /\ removing' = [removing EXCEPT ![c] = "no"]
      /\ UNCHANGED <<hub, call, starting, refused, ended>>
  BY DEF RemoveFromState, channels
<1>3. /\ part'[c] = None /\ removing'[c] = "no"
      /\ \A d \in Client : d # c => part'[d] = part[d] /\ removing'[d] = removing[d]
  BY <1>2 DEF TypeOK
<1>4. TypeOK'
  BY <1>2 DEF TypeOK, RemoveFromState, channels, notices
<1>5. CallsOwn'
  BY <1>1, <1>2, <1>3 DEF CallsOwn
<1>6. StartersWait'
  BY <1>1, <1>2 DEF StartersWait
<1>7. HubAgrees'
  BY <1>1, <1>2, <1>3 DEF HubAgrees
<1>8. RefusedAtEnd'
  BY <1>2, <1>3 DEF RefusedAtEnd
<1> QED BY <1>4, <1>5, <1>6, <1>7, <1>8

LEMMA RemoveWaitingKeeps ==
    ASSUME IInv, NEW c \in Client, RemoveWaiting(c)
    PROVE  IInv'
<1>1. TypeOK'
  BY DEF IInv, TypeOK, RemoveWaiting, calls, channels, notices, history
<1>2. UNCHANGED <<part, hub, calls, refused, ended>>
  BY DEF RemoveWaiting, channels, history
<1> QED BY <1>1, <1>2, Unaffected DEF IInv, Agreement

LEMMA GetTokenKeeps ==
    ASSUME IInv, NEW c \in Client, GetToken(c)
    PROVE  IInv'
<1>1. TypeOK'
  BY DEF IInv, TypeOK, GetToken, known, calls, channels, notices, history
<1>2. UNCHANGED <<part, hub, calls, refused, ended>>
  BY DEF GetToken, known, channels, history
<1> QED BY <1>1, <1>2, Unaffected DEF IInv, Agreement

LEMMA MoveKeeps ==
    ASSUME IInv, NEW c \in Client, Move(c)
    PROVE  IInv'
<1> USE DEF IInv
<1>1. present' \in [Client -> BOOLEAN]
  <2>1. present \in [Client -> BOOLEAN] /\ (~present[c]) \in BOOLEAN
    BY DEF TypeOK
  <2>2. present' = [present EXCEPT ![c] = ~present[c]]
    BY DEF Move
  <2> QED BY <2>1, <2>2
<1>2. messages' \in Seq(Client \X BOOLEAN)
  <2>1. <<c, ~present[c]>> \in Client \X BOOLEAN
    BY DEF TypeOK
  <2> QED BY <2>1 DEF TypeOK, Move
<1>3. moves' \in 0 .. MaxMoves
  BY Bounds DEF TypeOK, Move
<1>4. TypeOK'
  BY <1>1, <1>2, <1>3 DEF TypeOK, Move, known, calls, notices, history
<1>5. UNCHANGED <<part, hub, calls, refused, ended>>
  BY DEF Move, known, history
<1> QED BY <1>4, <1>5, Unaffected DEF Agreement

(* The head of a sequence of statuses, and what is left of it. *)
LEMMA StatusTyped ==
    ASSUME NEW q \in Seq(Client \X BOOLEAN), q # <<>>
    PROVE  Head(q)[1] \in Client /\ Head(q)[2] \in BOOLEAN /\ Tail(q) \in Seq(Client \X BOOLEAN)
OBVIOUS

LEMMA HandlePresenceKeeps ==
    ASSUME IInv, HandlePresence
    PROVE  IInv'
<1> USE DEF IInv
<1> DEFINE c == Head(messages)[1]
           on == Head(messages)[2]
<1>1. c \in Client /\ on \in BOOLEAN /\ messages' \in Seq(Client \X BOOLEAN)
  BY StatusTyped DEF HandlePresence, TypeOK
<1>2. /\ UNCHANGED <<part, waitlist, calls, present, ended, moves, token, told, notices, history>>
      /\ UNCHANGED <<part, call, removing, starting, refused, ended>>
  BY DEF HandlePresence, calls, history
<1>3. CASE UNCHANGED <<hub, sr>>
  <2>1. TypeOK'
    BY <1>1, <1>2, <1>3 DEF TypeOK, calls, notices, history
  <2> QED BY <1>2, <1>3, <2>1, Unaffected DEF Agreement
<1>4. CASE hub[c] # None /\ hub' = [hub EXCEPT ![c].attached = on] /\ PassOn(c, on)
  <2> HIDE DEF c, on
  <2>1. hub[c] \in [whisper : BOOLEAN, attached : BOOLEAN]
    BY <1>1, <1>4 DEF TypeOK
  <2>2. /\ hub' \in [Client -> HubType]
        /\ hub'[c] \in [whisper : BOOLEAN, attached : BOOLEAN]
        /\ \A d \in Client : d # c => hub'[d] = hub[d]
    BY <1>1, <1>4, <2>1 DEF TypeOK, HubType
  <2>3. hub'[c].whisper = hub[c].whisper
    BY <1>1, <1>4, <2>1 DEF TypeOK
  <2>4. hub'[c] # None
    BY <2>2, NoneIsNothing
  <2>5. sr' \in Seq(Client \X BOOLEAN)
    BY <1>1, <1>4 DEF TypeOK, PassOn
  <2>6. TypeOK'
    BY <1>1, <1>2, <2>2, <2>5 DEF TypeOK, HubType, calls, notices, history
  <2>7. CallsOwn'
    BY <1>2, <1>4, <2>2, <2>4 DEF CallsOwn
  <2>8. StartersWait'
    <3>1. starting \in SUBSET Client
      BY DEF TypeOK
    <3> QED BY <1>2, <1>4, <2>2, <3>1 DEF StartersWait
  <2>9. HubAgrees'
    BY <1>2, <1>4, <2>2, <2>3, <2>4 DEF HubAgrees
  <2>10. RefusedAtEnd'
    BY <1>2 DEF RefusedAtEnd
  <2> QED BY <2>6, <2>7, <2>8, <2>9, <2>10
<1> QED BY <1>3, <1>4 DEF HandlePresence

LEMMA MonitorStatusKeeps ==
    ASSUME IInv, MonitorStatus
    PROVE  IInv'
<1> USE DEF IInv
<1> DEFINE c == Head(sr)[1]
           on == Head(sr)[2]
<1>1. c \in Client /\ on \in BOOLEAN /\ sr' \in Seq(Client \X BOOLEAN)
  BY StatusTyped DEF MonitorStatus, TypeOK
<1>2. /\ UNCHANGED <<waitlist, hub, calls, present, messages, ended, moves, token, history>>
      /\ UNCHANGED <<hub, call, removing, starting, refused, ended>>
  BY DEF MonitorStatus, calls, history
<1>3. CASE UNCHANGED <<part, told, notices>>
  <2>1. TypeOK'
    BY <1>1, <1>2, <1>3 DEF TypeOK, calls, notices, history
  <2> QED BY <1>2, <1>3, <2>1, Unaffected DEF Agreement
<1>4. CASE /\ part[c] # None
           /\ part' = [part EXCEPT ![c].online = on]
           /\ IF on /\ part[c].role = "whisperer"
              THEN NotifyNeedsAuth(part', waitlist) ELSE UNCHANGED told
           /\ BroadcastControl
  <2> HIDE DEF c, on
  <2>1. part[c] \in [role : Role, online : BOOLEAN]
    BY <1>1, <1>4 DEF TypeOK
  <2>2. /\ part' \in [Client -> PartType]
        /\ part'[c] \in [role : Role, online : BOOLEAN] /\ part'[c].role = part[c].role
        /\ \A d \in Client : d # c => part'[d] = part[d]
    BY <1>1, <1>4, <2>1 DEF TypeOK, PartType
  <2>3. part'[c] # None
    BY <2>2, NoneIsNothing DEF Role
  <2>4. told' \in SUBSET (Client \cup {WhispererName})
    BY <1>4, ToldTyped DEF TypeOK
  <2>5. announced' \in SUBSET Client /\ unheard' \in BOOLEAN
    BY <1>4 DEF BroadcastControl, BroadcastFails, TypeOK
  <2>6. TypeOK'
    BY <1>1, <1>2, <2>2, <2>4, <2>5 DEF TypeOK, PartType, calls, notices, history
  <2>7. CallsOwn'
    BY <1>2, <1>4, <2>2, <2>3 DEF CallsOwn
  <2>8. StartersWait'
    <3>1. starting \in SUBSET Client
      BY DEF TypeOK
    <3> QED BY <1>2, <1>4, <2>2, <2>3, <3>1 DEF StartersWait
  <2>9. HubAgrees'
    BY <1>2, <1>4, <2>2, <2>3 DEF HubAgrees
  <2>10. RefusedAtEnd'
    BY <1>2 DEF RefusedAtEnd
  <2> QED BY <2>6, <2>7, <2>8, <2>9, <2>10
<1> QED BY <1>3, <1>4 DEF MonitorStatus

LEMMA EndSessionKeeps ==
    ASSUME IInv, EndSession
    PROVE  IInv'
<1>1. UNCHANGED <<part, hub, call, removing, starting, refused>> /\ ended'
  BY DEF EndSession, known, calls, history
<1>2. TypeOK'
  BY DEF IInv, TypeOK, EndSession, known, calls, notices, history
<1>3. CallsOwn' /\ StartersWait' /\ HubAgrees'
  BY <1>1 DEF IInv, CallsOwn, StartersWait, HubAgrees
<1>4. RefusedAtEnd'
  BY <1>1 DEF IInv, RefusedAtEnd
<1> QED BY <1>2, <1>3, <1>4 DEF IInv

-----------------------------------------------------------------------------
(* The invariant *)

LEMMA InitIInv == Init => IInv
<1>1. Init => CallsOwn
  BY DEF Init, CallsOwn, NoCall
<1>2. Init => StartersWait
  BY DEF Init, StartersWait, NoCall
<1>3. Init => HubAgrees
  BY DEF Init, HubAgrees, NoCall
<1>4. Init => RefusedAtEnd
  BY DEF Init, RefusedAtEnd
<1> QED BY <1>1, <1>2, <1>3, <1>4, InitTyped DEF IInv

LEMMA NextIInv ==
    ASSUME IInv, InTurn, [Next]_vars
    PROVE  IInv'
<1>1. CASE HandlePresence
  BY <1>1, HandlePresenceKeeps
<1>2. CASE MonitorStatus
  BY <1>2, MonitorStatusKeeps
<1>3. CASE \E c \in Client : Join(c, "whisperer") \/ Join(c, "listener")
  BY <1>3, JoinKeeps DEF Role
<1>4. CASE \E c \in Client : ReadWaitlist(c)
  BY <1>4, ReadWaitlistKeeps
<1>5. CASE \E c \in Client : RemoveFromHub(c)
  BY <1>5, RemoveFromHubKeeps
<1>6. CASE \E c \in Client : RemoveWaiting(c)
  BY <1>6, RemoveWaitingKeeps
<1>7. CASE \E c \in Client : GetToken(c)
  BY <1>7, GetTokenKeeps
<1>8. CASE \E c \in Client : Move(c)
  BY <1>8, MoveKeeps
<1>9. CASE \E c \in Client : Handler(c)
  BY <1>9, ResumeKeeps, AskHubKeeps, AddFailsKeeps, InsertHubKeeps, SetOnlineKeeps, WriteWaitlistKeeps,
     RemoveFromStateKeeps DEF Handler
<1>10. CASE UNCHANGED vars
  <2>1. TypeOK'
    BY <1>10 DEF IInv, TypeOK, vars, known, calls, channels, notices, history
  <2>2. UNCHANGED <<part, hub, calls, refused, ended>>
    BY <1>10 DEF vars, known, channels, history
  <2> QED BY <2>1, <2>2, Unaffected DEF IInv, Agreement
<1>11. CASE EndSession
  BY <1>11, EndSessionKeeps
<1> QED BY <1>1, <1>2, <1>3, <1>4, <1>5, <1>6, <1>7, <1>8, <1>9, <1>10, <1>11 DEF Next

LEMMA Invariant == ASSUME InTurn PROVE Spec => []IInv
BY InitIInv, NextIInv, PTL DEF Spec

(* Every variable keeps its kind of value, whoever comes and goes, as long *)
(* as the requests about a client are served in turn.                      *)
THEOREM TypeCorrect == ASSUME InTurn PROVE Spec => []TypeOK
BY Invariant, PTL DEF IInv

(* The pubsub session knows the participants of the session, with their    *)
(* roles, for any clients and any joins, refusals, removals, failures and  *)
(* presence changes, and whenever the session ends: AddWhisperer,          *)
(* AddListener, RemoveClient and start change both sides of a client, no   *)
(* two of them run for one client, and the one that can change one side    *)
(* only, a join that the pubsub manager fails, answers with the error.     *)
THEOREM HubAgreesHolds == ASSUME InTurn PROVE Spec => []HubAgrees
BY Invariant, PTL DEF IInv

-----------------------------------------------------------------------------
(* What the messages about a client amount to.  Only one who has a token   *)
(* can enter the channel, and it gets the token once its join has been     *)
(* answered; from then on the presence messages lead from the status that  *)
(* the hub has to the one the client has, and the statuses passed on lead  *)
(* from the one the session has to that of the hub.                        *)

Attached(c) == hub[c] # None /\ hub[c].attached
Online(c)   == part[c] # None /\ part[c].online

(* One who joined this session, and is not on the way out of it.           *)
Fresh(c) == c \notin resumed \cup removed /\ removing[c] = "no"

NoneAbout(c, q) == \A i \in 1 .. Len(q) : q[i][1] # c

LastAbout(c, q, i) ==
    /\ i \in 1 .. Len(q) /\ q[i][1] = c
    /\ \A j \in 1 .. Len(q) : j > i => q[j][1] # c

(* Who goes through the messages ends with the status "to". *)
LeadsTo(c, q, from, to) ==
    /\ NoneAbout(c, q) => from = to
    /\ \A i \in 1 .. Len(q) : LastAbout(c, q, i) => q[i][2] = to

(* Who may not enter yet. *)
Outside(c) ==
    token[c] = "none" =>
        ~present[c] /\ NoneAbout(c, messages) /\ NoneAbout(c, sr)

Joining(c) ==
    /\ hub[c] = None \/ call[c].pc \in {"hub", "insert", "online"} => token[c] = "none"
    /\ call[c].pc \in {"insert", "online"} => ~call[c].attached

Chain(c) ==
    /\ Outside(c) /\ Joining(c)
    /\ LeadsTo(c, messages, Attached(c), present[c])
    /\ LeadsTo(c, sr, Online(c), Attached(c))
    /\ ~unheard => (c \in announced <=> Online(c))

Chained ==
    /\ starting \subseteq resumed
    /\ \A c \in Client : Fresh(c) => Chain(c)

Queue == Seq(Client \X BOOLEAN)

(* The queues: a message about c is the last about it; one about another   *)
(* changes nothing for c; and one taken off the head is where c now is.    *)
LEMMA AppendOther ==
    ASSUME NEW q \in Queue, NEW c \in Client, NEW e \in Client, NEW on \in BOOLEAN, e # c,
           NEW from, NEW to
    PROVE  /\ NoneAbout(c, q) => NoneAbout(c, Append(q, <<e, on>>))
           /\ LeadsTo(c, q, from, to) => LeadsTo(c, Append(q, <<e, on>>), from, to)
<1> DEFINE r == Append(q, <<e, on>>)
<1>1. /\ Len(q) \in Nat /\ Len(r) = Len(q) + 1 /\ r[Len(q) + 1][1] = e
      /\ \A i \in 1 .. Len(q) : r[i] = q[i]
  BY DEF Queue
<1> HIDE DEF r
<1>2. NoneAbout(c, q) <=> NoneAbout(c, r)
  BY <1>1 DEF NoneAbout
<1>3. ASSUME NEW i \in 1 .. Len(r), LastAbout(c, r, i)
      PROVE  i \in 1 .. Len(q) /\ LastAbout(c, q, i) /\ r[i] = q[i]
  <2>1. i \in 1 .. Len(q)
    BY <1>1, <1>3 DEF LastAbout
  <2>2. \A j \in 1 .. Len(q) : j \in 1 .. Len(r) /\ r[j] = q[j]
    BY <1>1
  <2> QED BY <1>3, <2>1, <2>2 DEF LastAbout
<1>4. LeadsTo(c, q, from, to) => LeadsTo(c, r, from, to)
  BY <1>2, <1>3 DEF LeadsTo
<1> QED BY <1>2, <1>4 DEF r

LEMMA AppendOwn ==
    ASSUME NEW q \in Queue, NEW c \in Client, NEW on \in BOOLEAN, NEW from
    PROVE  LeadsTo(c, Append(q, <<c, on>>), from, on)
<1> DEFINE r == Append(q, <<c, on>>)
<1>1. Len(q) \in Nat /\ Len(r) = Len(q) + 1 /\ r[Len(r)][1] = c /\ r[Len(r)][2] = on
  BY DEF Queue
<1> HIDE DEF r
<1>2. ~NoneAbout(c, r)
  BY <1>1 DEF NoneAbout
<1>3. ASSUME NEW i \in 1 .. Len(r), LastAbout(c, r, i)
      PROVE  r[i][2] = on
  <2>1. i = Len(r)
    BY <1>1, <1>3 DEF LastAbout
  <2> QED BY <1>1, <2>1
<1>4. LeadsTo(c, r, from, on)
  BY <1>2, <1>3 DEF LeadsTo
<1> QED BY <1>4 DEF r

LEMMA TailIs ==
    ASSUME NEW q \in Queue, q # <<>>
    PROVE  /\ Len(q) \in Nat /\ Len(Tail(q)) \in Nat /\ Len(q) = Len(Tail(q)) + 1
           /\ Head(q) = q[1]
           /\ \A i \in 1 .. Len(Tail(q)) : Tail(q)[i] = q[i + 1]
BY DEF Queue

LEMMA TailKeeps ==
    ASSUME NEW q \in Queue, q # <<>>, NEW c \in Client, NEW from, NEW to, LeadsTo(c, q, from, to)
    PROVE  /\ NoneAbout(c, q) => NoneAbout(c, Tail(q)) /\ Head(q)[1] # c
           /\ Head(q)[1] # c => LeadsTo(c, Tail(q), from, to)
           /\ Head(q)[1] = c => LeadsTo(c, Tail(q), Head(q)[2], to)
<1> DEFINE r == Tail(q)
<1>1. /\ Len(q) \in Nat /\ Len(r) \in Nat /\ Len(q) = Len(r) + 1
      /\ Head(q) = q[1]
      /\ \A i \in 1 .. Len(r) : r[i] = q[i + 1]
  BY TailIs, Zenon
<1> HIDE DEF r
<1>2. NoneAbout(c, q) => NoneAbout(c, r) /\ Head(q)[1] # c
  BY <1>1 DEF NoneAbout
<1>3. NoneAbout(c, r) /\ Head(q)[1] # c => NoneAbout(c, q)
  <2> SUFFICES ASSUME NoneAbout(c, r), Head(q)[1] # c, NEW i \in 1 .. Len(q) PROVE q[i][1] # c
    BY DEF NoneAbout
  <2>1. CASE i = 1
    BY <1>1, <2>1
  <2>2. CASE i # 1
    <3>1. i - 1 \in 1 .. Len(r) /\ r[i - 1] = q[i]
      BY <1>1, <2>2
    <3> QED BY <3>1 DEF NoneAbout
  <2> QED BY <2>1, <2>2
<1>4. ASSUME NEW i \in 1 .. Len(r), LastAbout(c, r, i)
      PROVE  r[i][2] = to
  <2>1. i + 1 \in 1 .. Len(q) /\ q[i + 1] = r[i]
    BY <1>1
  <2>2. ASSUME NEW j \in 1 .. Len(q), j > i + 1 PROVE q[j][1] # c
    <3>1. j - 1 \in 1 .. Len(r) /\ j - 1 > i /\ r[j - 1] = q[j]
      BY <1>1, <2>2
    <3> QED BY <1>4, <3>1 DEF LastAbout
  <2>3. LastAbout(c, q, i + 1)
    BY <1>4, <2>1, <2>2 DEF LastAbout
  <2> QED BY <2>1, <2>3 DEF LeadsTo
<1>5. Head(q)[1] = c /\ NoneAbout(c, r) => Head(q)[2] = to
  <2> SUFFICES ASSUME Head(q)[1] = c, NoneAbout(c, r) PROVE Head(q)[2] = to
    OBVIOUS
  <2>1. ASSUME NEW j \in 1 .. Len(q), j > 1 PROVE q[j][1] # c
    <3>1. j - 1 \in 1 .. Len(r) /\ r[j - 1] = q[j]
      BY <1>1, <2>1
    <3> QED BY <3>1 DEF NoneAbout
  <2>2. 1 \in 1 .. Len(q) /\ LastAbout(c, q, 1)
    BY <1>1, <2>1 DEF LastAbout
  <2> QED BY <1>1, <2>2 DEF LeadsTo
<1>6. Head(q)[1] # c => LeadsTo(c, r, from, to)
  <2>1. Head(q)[1] # c /\ NoneAbout(c, r) => from = to
    BY <1>3 DEF LeadsTo
  <2> QED BY <1>4, <2>1 DEF LeadsTo
<1>7. Head(q)[1] = c => LeadsTo(c, r, Head(q)[2], to)
  BY <1>4, <1>5 DEF LeadsTo
<1> QED BY <1>2, <1>6, <1>7 DEF r

LEMMA EmptyLeads ==
    ASSUME NEW c, NEW s
    PROVE  NoneAbout(c, <<>>) /\ LeadsTo(c, <<>>, s, s)
BY DEF NoneAbout, LeadsTo, LastAbout

(* Without messages about it, a client is where it was. *)
LEMMA NoneLeads ==
    ASSUME NEW c, NEW q, NoneAbout(c, q), NEW s
    PROVE  LeadsTo(c, q, s, s)
BY DEF NoneAbout, LeadsTo, LastAbout

-----------------------------------------------------------------------------
(* The chain of a client, action by action. *)

LEMMA InitChained == Init => Chained
<1> SUFFICES ASSUME Init PROVE Chained
  OBVIOUS
<1>1. starting \subseteq resumed
  BY DEF Init
<1>2. ASSUME NEW c \in Client, Fresh(c) PROVE Chain(c)
  <2>1. /\ c \notin resumed /\ part[c] = None /\ hub[c] = None /\ present[c] = FALSE
        /\ call[c] = NoCall /\ token[c] = "none" /\ sr = <<>> /\ announced = {}
    BY <1>2 DEF Init, Fresh
  <2> DEFINE S == {<<d, TRUE>> : d \in {e \in Client : present[e]}}
  <2>2. Cardinality(S) \in Nat
    <3>1. IsFiniteSet(Client \X {TRUE})
      BY FiniteClients, FS_Singleton, FS_Product, Zenon
    <3>2. \A d \in Client : <<d, TRUE>> \in Client \X {TRUE}
      BY Zenon
    <3>3. S \in SUBSET (Client \X {TRUE})
      BY <3>2
    <3> QED BY <3>1, <3>3, FS_Subset, FS_CardinalityType
  <2>3. messages \in [1 .. Cardinality(S) -> S]
    BY DEF Init, SetToSeqs
  <2>4. ASSUME NEW m \in S PROVE m[1] # c
    <3>1. PICK d \in {e \in Client : present[e]} : m = <<d, TRUE>>
      OBVIOUS
    <3>2. present[d] /\ m[1] = d
      BY <3>1
    <3> QED BY <2>1, <3>2
  <2> HIDE DEF S
  <2>5. NoneAbout(c, messages)
    BY <2>2, <2>3, <2>4 DEF NoneAbout
  <2>6. Outside(c) /\ Joining(c)
    BY <2>1, <2>5, EmptyLeads DEF Outside, Joining, NoCall
  <2>7. Attached(c) = FALSE /\ Online(c) = FALSE
    BY <2>1 DEF Attached, Online
  <2>8. LeadsTo(c, messages, FALSE, FALSE) /\ LeadsTo(c, <<>>, FALSE, FALSE)
    BY <2>5, NoneLeads, EmptyLeads
  <2> QED BY <2>1, <2>6, <2>7, <2>8 DEF Chain
<1> QED BY <1>1, <1>2 DEF Chained

(* An action leaves a client alone, or all that its chain depends on. *)
LEMMA ChainKept ==
    ASSUME NEW c \in Client, Chain(c),
           token'[c] = token[c], present'[c] = present[c],
           Attached(c)' = Attached(c), Online(c)' = Online(c), Joining(c)',
           messages' = messages, sr' = sr, UNCHANGED notices
    PROVE  Chain(c)'
BY DEF Chain, Outside, notices

LEMMA LeftAlone ==
    ASSUME NEW c \in Client, Chain(c),
           hub'[c] = hub[c], part'[c] = part[c], call'[c] = call[c],
           token'[c] = token[c], UNCHANGED <<channels, notices>>
    PROVE  Chain(c)'
<1>1. Attached(c)' = Attached(c) /\ Online(c)' = Online(c)
  BY DEF Attached, Online
<1>2. Joining(c)'
  BY DEF Chain, Joining
<1>3. present' = present /\ messages' = messages /\ sr' = sr /\ UNCHANGED notices
  BY DEF channels
<1> QED BY <1>1, <1>2, <1>3, ChainKept

(* Nobody becomes fresh in a session that is running. *)
LEMMA FreshBefore ==
    ASSUME NEW c \in Client, Fresh(c)', UNCHANGED resumed, removed \subseteq removed',
           removing'[c] = removing[c]
    PROVE  Fresh(c)
BY DEF Fresh

LEMMA JoinChains ==
    ASSUME IInv, InTurn, Chained, NEW c \in Client, NEW role \in Role, Join(c, role)
    PROVE  Chained'
<1>1. UNCHANGED <<hub, removing, starting, channels, token, notices, resumed, removed>>
  BY DEF Join, history
<1>2. ASSUME NEW d \in Client, Fresh(d)' PROVE Chain(d)'
  <2>1. Chain(d)
    BY <1>1, <1>2, FreshBefore DEF Chained
  <2>2. CASE part[c] # None \/ d # c
    <3>1. part'[d] = part[d] /\ call'[d] = call[d]
      BY <2>2 DEF Join, IInv, TypeOK
    <3> QED BY <1>1, <2>1, <3>1, LeftAlone
  <2>3. CASE part[c] = None /\ d = c
    <3>1. /\ part' = [part EXCEPT ![c] = [role |-> role, online |-> FALSE]]
          /\ call' = [call EXCEPT ![c] = [NoCall EXCEPT !.pc = "hub", !.role = role]]
          /\ starting = {} /\ call[c].pc = "idle" /\ removing[c] = "no"
      BY <2>3 DEF Join, Request, InFlight
    <3>2. hub[c] = None
      BY <2>3, <3>1 DEF IInv, HubAgrees
    <3>3. Online(c)' = Online(c)
      BY <2>3, <3>1 DEF Online, IInv, TypeOK
    <3>4. Attached(c)' = Attached(c)
      BY <1>1 DEF Attached
    <3>5. call'[c].pc = "hub"
      BY <3>1 DEF IInv, TypeOK, NoCall
    <3>6. token[c] = "none"
      BY <2>1, <2>3, <3>2 DEF Chain, Joining
    <3>7. Joining(c)'
      BY <1>1, <3>5, <3>6 DEF Joining
    <3> QED BY <1>1, <2>1, <2>3, <3>3, <3>4, <3>7, ChainKept DEF channels
  <2> QED BY <2>2, <2>3
<1> QED BY <1>1, <1>2 DEF Chained

LEMMA ResumeChains ==
    ASSUME IInv, Chained, NEW c \in Client, Resume(c)
    PROVE  Chained'
<1>1. /\ UNCHANGED <<part, hub, removing, starting, channels, token, notices, resumed, removed>>
      /\ c \in resumed
      /\ \A d \in Client : d # c => call'[d] = call[d]
  BY DEF Resume, known, history, Chained, IInv, TypeOK
<1>2. ASSUME NEW d \in Client, Fresh(d)' PROVE Chain(d)'
  <2>1. Chain(d) /\ d # c
    BY <1>1, <1>2, FreshBefore DEF Chained, Fresh
  <2> QED BY <1>1, <2>1, LeftAlone
<1> QED BY <1>1, <1>2 DEF Chained

(* The hub finds no newcomer on the channel. *)
LEMMA AskHubChains ==
    ASSUME IInv, Chained, NEW c \in Client, AskHub(c)
    PROVE  Chained'
<1>1. hub[c] = None /\ call[c].pc = "hub"
  BY DEF AskHub, CallsOwn, IInv
<1>2. /\ UpdatePresence(c)
      /\ UNCHANGED <<part, hub, removing, starting, channels, token, notices, resumed, removed>>
      /\ \A d \in Client : d # c => call'[d] = call[d]
  BY <1>1 DEF AskHub, history, UpdatePresence, IInv, TypeOK
<1>3. ASSUME NEW d \in Client, Fresh(d)' PROVE Chain(d)'
  <2>1. Chain(d)
    BY <1>2, <1>3, FreshBefore DEF Chained
  <2>2. CASE d # c
    BY <1>2, <2>1, <2>2, LeftAlone
  <2>3. CASE d = c
    <3>1. token[c] = "none"
      BY <1>1, <2>1, <2>3 DEF Chain, Joining
    <3>2. ~present[c]
      BY <2>1, <2>3, <3>1 DEF Chain, Outside
    <3>3. call'[c].pc = "insert" /\ ~call'[c].attached
      <4>1. present[c] = FALSE
        BY <3>2 DEF IInv, TypeOK
      <4>2. call' = [call EXCEPT ![c].pc = "insert", ![c].attached = FALSE]
        BY <1>2, <4>1 DEF UpdatePresence
      <4> QED BY <4>2 DEF IInv, TypeOK
    <3>4. Joining(c)'
      BY <1>2, <3>1, <3>3 DEF Joining
    <3>5. Attached(c)' = Attached(c) /\ Online(c)' = Online(c)
      BY <1>2 DEF Attached, Online
    <3> QED BY <1>2, <2>1, <2>3, <3>4, <3>5, ChainKept DEF channels
  <2> QED BY <2>2, <2>3
<1> QED BY <1>2, <1>3 DEF Chained

LEMMA InsertHubChains ==
    ASSUME IInv, Chained, NEW c \in Client, InsertHub(c)
    PROVE  Chained'
<1>1. /\ hub[c] = None /\ call[c].pc = "insert"
      /\ hub' = [hub EXCEPT ![c] = Entry(call[c].role, call[c].attached)]
      /\ call' = [call EXCEPT ![c].pc = "online"]
  BY DEF InsertHub, GoTo, CallsOwn, IInv
<1>2. /\ UNCHANGED <<part, removing, starting, channels, token, notices, resumed, removed>>
      /\ \A d \in Client : d # c => call'[d] = call[d] /\ hub'[d] = hub[d]
  BY <1>1 DEF InsertHub, history, IInv, TypeOK
<1>3. ASSUME NEW d \in Client, Fresh(d)' PROVE Chain(d)'
  <2>1. Chain(d)
    BY <1>2, <1>3, FreshBefore DEF Chained
  <2>2. CASE d # c
    BY <1>2, <2>1, <2>2, LeftAlone
  <2>3. CASE d = c
    <3>1. token[c] = "none" /\ ~call[c].attached
      BY <1>1, <2>1, <2>3 DEF Chain, Joining
    <3>2. call'[c].pc = "online" /\ call'[c].attached = call[c].attached
      BY <1>1 DEF IInv, TypeOK
    <3>3. Joining(c)'
      BY <1>2, <3>1, <3>2 DEF Joining
    <3>4. hub'[c].attached = call[c].attached
      BY <1>1 DEF IInv, TypeOK, Entry
    <3>5. Attached(c)' = Attached(c)
      BY <1>1, <3>1, <3>4 DEF Attached
    <3>6. Online(c)' = Online(c)
      BY <1>2 DEF Online
    <3> QED BY <1>2, <2>1, <2>3, <3>3, <3>5, <3>6, ChainKept DEF channels
  <2> QED BY <2>2, <2>3
<1> QED BY <1>2, <1>3 DEF Chained

(* The answer of the hub is what it was told: a newcomer is offline. *)
LEMMA SetOnlineChains ==
    ASSUME IInv, Chained, NEW c \in Client, SetOnline(c)
    PROVE  Chained'
<1>1. /\ call[c].pc = "online" /\ hub[c] # None
      /\ part[c] # None /\ part[c] \in [role : Role, online : BOOLEAN]
  BY DEF SetOnline, CallsOwn, IInv, TypeOK
<1>2. /\ part' = [part EXCEPT ![c].online = call[c].attached]
      /\ call' = [call EXCEPT ![c] = NoCall]
      /\ starting' \subseteq starting
  BY <1>1 DEF SetOnline
<1>3. /\ UNCHANGED <<hub, removing, channels, token, notices, resumed, removed>>
      /\ \A d \in Client : d # c => call'[d] = call[d] /\ part'[d] = part[d]
  BY <1>2 DEF SetOnline, history, IInv, TypeOK
<1>4. ASSUME NEW d \in Client, Fresh(d)' PROVE Chain(d)'
  <2>1. Chain(d)
    BY <1>3, <1>4, FreshBefore DEF Chained
  <2>2. CASE d # c
    BY <1>3, <2>1, <2>2, LeftAlone
  <2>3. CASE d = c
    <3>1. token[c] = "none" /\ ~call[c].attached
      BY <1>1, <2>1, <2>3 DEF Chain, Joining
    <3>2. ~present[c] /\ NoneAbout(c, messages) /\ NoneAbout(c, sr)
      BY <2>1, <2>3, <3>1 DEF Chain, Outside
    <3>3. Online(c) = Attached(c) /\ Attached(c) = present[c]
      BY <2>1, <2>3, <3>2 DEF Chain, LeadsTo
    <3>4. part'[c].online = call[c].attached
      BY <1>1, <1>2 DEF IInv, TypeOK
    <3>5. Online(c)' = Online(c)
      BY <3>1, <3>2, <3>3, <3>4 DEF Online
    <3>6. Attached(c)' = Attached(c)
      BY <1>3 DEF Attached
    <3>7. call'[c].pc = "idle"
      BY <1>2 DEF NoCall, IInv, TypeOK
    <3>8. Joining(c)'
      BY <1>1, <1>3, <3>7 DEF Joining
    <3> QED BY <1>3, <2>1, <2>3, <3>5, <3>6, <3>8, ChainKept DEF channels
  <2> QED BY <2>2, <2>3
<1> QED BY <1>2, <1>3, <1>4 DEF Chained

(* Nor is one online that could not be added. *)
LEMMA AddFailsChains ==
    ASSUME IInv, Chained, NEW c \in Client, AddFails(c)
    PROVE  Chained'
<1>1. /\ call[c].pc = "hub" /\ hub[c] = None
      /\ part[c] # None /\ part[c] \in [role : Role, online : BOOLEAN]
  BY DEF AddFails, CallsOwn, IInv, TypeOK
<1>2. part' = [part EXCEPT ![c].online = FALSE] /\ call' = [call EXCEPT ![c] = NoCall]
  BY <1>1 DEF AddFails
<1>3. /\ UNCHANGED <<hub, removing, starting, channels, token, notices, resumed, removed>>
      /\ \A d \in Client : d # c => call'[d] = call[d] /\ part'[d] = part[d]
  BY <1>2 DEF AddFails, IInv, TypeOK
<1>4. ASSUME NEW d \in Client, Fresh(d)' PROVE Chain(d)'
  <2>1. Chain(d)
    BY <1>3, <1>4, FreshBefore DEF Chained
  <2>2. CASE d # c
    BY <1>3, <2>1, <2>2, LeftAlone
  <2>3. CASE d = c
    <3>1. token[c] = "none"
      BY <1>1, <2>1, <2>3 DEF Chain, Joining
    <3>2. ~present[c] /\ NoneAbout(c, messages) /\ NoneAbout(c, sr)
      BY <2>1, <2>3, <3>1 DEF Chain, Outside
    <3>3. Online(c) = FALSE
      BY <1>1, <2>1, <2>3, <3>2 DEF Chain, LeadsTo, Attached
    <3>4. part'[c].online = FALSE
      BY <1>1, <1>2 DEF IInv, TypeOK
    <3>5. Online(c)' = Online(c)
      BY <3>3, <3>4 DEF Online
    <3>6. Attached(c)' = Attached(c)
      BY <1>3 DEF Attached
    <3>7. call'[c].pc = "idle"
      BY <1>2 DEF NoCall, IInv, TypeOK
    <3>8. Joining(c)'
      BY <1>1, <1>3, <3>1, <3>7 DEF Joining
    <3> QED BY <1>3, <2>1, <2>3, <3>5, <3>6, <3>8, ChainKept DEF channels
  <2> QED BY <2>2, <2>3
<1> QED BY <1>3, <1>4 DEF Chained

(* Asking to be admitted changes nothing of one's status. *)
LEMMA WaitlistChains ==
    ASSUME IInv, Chained, NEW c \in Client,
           (ReadWaitlist(c) /\ InTurn) \/ WriteWaitlist(c)
    PROVE  Chained'
<1>1. /\ UNCHANGED <<part, hub, removing, starting, channels, token, notices, resumed, removed>>
      /\ call'[c].pc \in {"idle", "asking"}
      /\ \A d \in Client : d # c => call'[d] = call[d]
  <2>1. CASE ReadWaitlist(c)
    <3>1. /\ UNCHANGED <<part, hub, removing, starting, channels, token, notices, resumed, removed>>
          /\ call' = [call EXCEPT ![c] = [NoCall EXCEPT !.pc = "asking", !.seen = waitlist]]
      BY <2>1 DEF ReadWaitlist, known, history
    <3>2. call'[c].pc = "asking" /\ \A d \in Client : d # c => call'[d] = call[d]
      BY <3>1 DEF NoCall, IInv, TypeOK
    <3> QED BY <3>1, <3>2
  <2>2. CASE WriteWaitlist(c)
    <3>1. /\ UNCHANGED <<part, hub, removing, starting, channels, token, notices, resumed, removed>>
          /\ call' = [call EXCEPT ![c] = NoCall]
      BY <2>2 DEF WriteWaitlist, history
    <3>2. call'[c].pc = "idle" /\ \A d \in Client : d # c => call'[d] = call[d]
      BY <3>1 DEF NoCall, IInv, TypeOK
    <3> QED BY <3>1, <3>2
  <2> QED BY <2>1, <2>2
<1>2. ASSUME NEW d \in Client, Fresh(d)' PROVE Chain(d)'
  <2>1. Chain(d)
    BY <1>1, <1>2, FreshBefore DEF Chained
  <2>2. Joining(d)'
    BY <1>1, <2>1 DEF Chain, Joining
  <2>3. Attached(d)' = Attached(d) /\ Online(d)' = Online(d)
    BY <1>1 DEF Attached, Online
  <2> QED BY <1>1, <2>1, <2>2, <2>3, ChainKept DEF channels
<1> QED BY <1>1, <1>2 DEF Chained

LEMMA RemoveChains ==
    ASSUME IInv, Chained, NEW c \in Client, RemoveFromHub(c) \/ RemoveFromState(c)
    PROVE  Chained'
<1>1. /\ UNCHANGED <<call, starting, channels, token, notices, resumed>>
      /\ removed \subseteq removed'
      /\ c \in removed' \/ removing'[c] = "state"
      /\ \A d \in Client : d # c =>
           hub'[d] = hub[d] /\ part'[d] = part[d] /\ removing'[d] = removing[d]
  BY DEF RemoveFromHub, RemoveFromState, history, IInv, TypeOK
<1>2. ASSUME NEW d \in Client, Fresh(d)' PROVE Chain(d)'
  <2>1. d # c
    BY <1>1, <1>2 DEF Fresh
  <2>2. Chain(d)
    BY <1>1, <1>2, <2>1, FreshBefore DEF Chained
  <2> QED BY <1>1, <2>1, <2>2, LeftAlone
<1> QED BY <1>1, <1>2 DEF Chained

LEMMA OthersChain ==
    ASSUME Chained,
           UNCHANGED <<part, hub, call, removing, starting, channels, token, notices, history>>
    PROVE  Chained'
<1>1. resumed' = resumed /\ removed' = removed
  BY DEF history
<1>2. ASSUME NEW d \in Client, Fresh(d)' PROVE Chain(d)'
  BY <1>1, <1>2, FreshBefore, LeftAlone DEF Chained
<1> QED BY <1>1, <1>2 DEF Chained

(* In turn, a token is given to one whose join has been answered. *)
LEMMA GetTokenChains ==
    ASSUME IInv, InTurn, Chained, NEW c \in Client, GetToken(c)
    PROVE  Chained'
<1>1. /\ UNCHANGED <<part, hub, call, removing, starting, channels, notices, resumed, removed>>
      /\ call[c].pc = "idle" /\ hub[c] # None
      /\ \A d \in Client : d # c => token'[d] = token[d]
  BY DEF GetToken, known, calls, history, IInv, TypeOK
<1>2. token'[c] # "none"
  BY DEF GetToken, IInv, TypeOK
<1>3. ASSUME NEW d \in Client, Fresh(d)' PROVE Chain(d)'
  <2>1. Chain(d)
    BY <1>1, <1>3, FreshBefore DEF Chained
  <2>2. CASE d # c
    BY <1>1, <2>1, <2>2, LeftAlone
  <2>3. CASE d = c
    <3>1. Outside(c)' /\ Joining(c)'
      BY <1>1, <1>2 DEF Outside, Joining
    <3>2. Attached(c)' = Attached(c) /\ Online(c)' = Online(c)
      BY <1>1 DEF Attached, Online
    <3>3. present' = present /\ messages' = messages /\ sr' = sr
      BY <1>1 DEF channels
    <3> QED BY <1>1, <2>1, <2>3, <3>1, <3>2, <3>3 DEF Chain, notices
  <2> QED BY <2>2, <2>3
<1> QED BY <1>1, <1>3 DEF Chained

LEMMA MoveChains ==
    ASSUME IInv, Chained, NEW c \in Client, Move(c)
    PROVE  Chained'
<1> DEFINE on == ~present[c]
<1>1. /\ UNCHANGED <<part, hub, call, removing, starting, sr, token, notices, resumed, removed>>
      /\ token[c] # "none" /\ messages' = Append(messages, <<c, on>>)
  BY DEF Move, known, calls, notices, history
<1>2. /\ messages \in Queue /\ on \in BOOLEAN
      /\ present'[c] = on
      /\ \A d \in Client : d # c => present'[d] = present[d]
  BY DEF Move, IInv, TypeOK, Queue
<1> HIDE DEF on
<1>3. ASSUME NEW d \in Client, Fresh(d)' PROVE Chain(d)'
  <2>1. Chain(d)
    BY <1>1, <1>3, FreshBefore DEF Chained
  <2>2. /\ Attached(d)' = Attached(d) /\ Online(d)' = Online(d)
        /\ Joining(d)' = Joining(d)
    BY <1>1 DEF Attached, Online, Joining
  <2>3. CASE d # c
    <3>1. /\ NoneAbout(d, messages) => NoneAbout(d, messages')
          /\ LeadsTo(d, messages, Attached(d), present[d])
               => LeadsTo(d, messages', Attached(d), present[d])
      BY <1>1, <1>2, <2>3, AppendOther
    <3> QED BY <1>1, <1>2, <2>1, <2>2, <2>3, <3>1 DEF Chain, Outside, notices
  <2>4. CASE d = c
    <3>1. LeadsTo(c, messages', Attached(c), present'[c])
      BY <1>1, <1>2, AppendOwn
    <3> QED BY <1>1, <2>1, <2>2, <2>4, <3>1 DEF Chain, Outside, notices
  <2> QED BY <2>3, <2>4
<1> QED BY <1>1, <1>3 DEF Chained

(* The hub takes note of a change, and passes it on, or knows already. *)
LEMMA HandlePresenceChains ==
    ASSUME IInv, Chained, HandlePresence
    PROVE  Chained'
<1> DEFINE c == Head(messages)[1]
           on == Head(messages)[2]
<1>1. /\ c \in Client /\ on \in BOOLEAN /\ messages \in Queue /\ sr \in Queue
      /\ messages # <<>> /\ messages' = Tail(messages)
  BY StatusTyped DEF HandlePresence, IInv, TypeOK, Queue
<1>2. UNCHANGED <<part, call, removing, starting, present, token, notices, resumed, removed>>
  BY DEF HandlePresence, calls, notices, history
<1>3. \/ /\ hub[c] # None /\ on # hub[c].attached
         /\ hub' = [hub EXCEPT ![c].attached = on] /\ sr' = Append(sr, <<c, on>>)
      \/ /\ ~(hub[c] # None /\ on # hub[c].attached)
         /\ UNCHANGED <<hub, sr>>
  BY DEF HandlePresence, PassOn
<1>4. ASSUME NEW d \in Client, Fresh(d)' PROVE Chain(d)'
  <2>1. Chain(d)
    BY <1>2, <1>4, FreshBefore DEF Chained
  <2>2. Online(d)' = Online(d)
    BY <1>2 DEF Online
  <2>3. /\ NoneAbout(d, messages) => NoneAbout(d, messages') /\ c # d
        /\ c # d => LeadsTo(d, messages', Attached(d), present[d])
        /\ c = d => LeadsTo(d, messages', on, present[d])
    BY <1>1, <2>1, TailKeeps DEF Chain
  <2> HIDE DEF c, on
  <2>4. CASE d # c
    <3>1. hub'[d] = hub[d]
      BY <1>1, <1>3, <2>4 DEF IInv, TypeOK
    <3>2. Attached(d)' = Attached(d) /\ Joining(d)' = Joining(d)
      BY <1>2, <3>1 DEF Attached, Joining
    <3>3. /\ NoneAbout(d, sr) => NoneAbout(d, sr')
          /\ LeadsTo(d, sr, Online(d), Attached(d)) => LeadsTo(d, sr', Online(d), Attached(d))
      <4>1. CASE sr' = Append(sr, <<c, on>>)
        BY <1>1, <2>4, <4>1, AppendOther
      <4>2. CASE sr' = sr
        BY <4>2
      <4> QED BY <1>3, <4>1, <4>2
    <3> QED BY <1>2, <2>1, <2>2, <2>3, <2>4, <3>2, <3>3 DEF Chain, Outside, notices
  <2>5. CASE d = c
    <3>1. token[c] # "none"
      BY <2>1, <2>3, <2>5 DEF Chain, Outside
    <3>2. hub[c] # None /\ call[c].pc \notin {"hub", "insert", "online"}
      BY <2>1, <2>5, <3>1 DEF Chain, Joining
    <3>3. hub[c] \in [whisper : BOOLEAN, attached : BOOLEAN]
      BY <1>1, <3>2 DEF IInv, TypeOK
    <3>4. hub'[c] \in [whisper : BOOLEAN, attached : BOOLEAN] /\ hub'[c].attached = on
      <4>1. CASE hub' = [hub EXCEPT ![c].attached = on]
        BY <1>1, <3>3, <4>1 DEF IInv, TypeOK
      <4>2. CASE hub' = hub /\ on = hub[c].attached
        BY <3>3, <4>2
      <4> QED BY <1>3, <3>2, <4>1, <4>2
    <3>5. hub'[c] # None
      BY <3>4, NoneIsNothing
    <3>6. Attached(d)' = on
      BY <1>1, <2>5, <3>4, <3>5 DEF Attached
    <3>7. LeadsTo(c, sr', Online(c), on)
      <4>1. CASE sr' = Append(sr, <<c, on>>)
        BY <1>1, <4>1, AppendOwn
      <4>2. CASE sr' = sr /\ on = hub[c].attached
        <5>1. Attached(c) = on
          BY <3>2, <3>3, <4>2 DEF Attached
        <5> QED BY <2>1, <2>5, <4>2, <5>1 DEF Chain
      <4> QED BY <1>3, <3>2, <4>1, <4>2
    <3>8. Outside(d)' /\ Joining(d)'
      BY <1>2, <2>5, <3>1, <3>2, <3>5 DEF Outside, Joining
    <3> QED BY <1>2, <2>1, <2>2, <2>3, <2>5, <3>6, <3>7, <3>8 DEF Chain, notices
  <2> QED BY <2>4, <2>5
<1> QED BY <1>2, <1>4 DEF Chained

(* The session takes note of a status, and announces it. *)
LEMMA MonitorStatusChains ==
    ASSUME IInv, Chained, MonitorStatus
    PROVE  Chained'
<1> DEFINE c == Head(sr)[1]
           on == Head(sr)[2]
<1>1. /\ c \in Client /\ on \in BOOLEAN /\ sr \in Queue
      /\ sr # <<>> /\ sr' = Tail(sr)
  BY StatusTyped DEF MonitorStatus, IInv, TypeOK, Queue
<1>2. UNCHANGED <<hub, call, removing, starting, present, messages, token, resumed, removed>>
  BY DEF MonitorStatus, calls, notices, history
<1>3. \/ part[c] = None /\ UNCHANGED <<part, announced, unheard>>
      \/ /\ part[c] # None /\ part' = [part EXCEPT ![c].online = on]
         /\ ~unheard' => announced' = {d \in Client : Online(d)'}
  BY DEF MonitorStatus, BroadcastControl, BroadcastFails, Online, notices
<1>4. ASSUME NEW d \in Client, Fresh(d)' PROVE Chain(d)'
  <2>1. Chain(d)
    BY <1>2, <1>4, FreshBefore DEF Chained
  <2>2. Attached(d)' = Attached(d) /\ Joining(d)' = Joining(d)
    BY <1>2 DEF Attached, Joining
  <2>3. /\ NoneAbout(d, sr) => NoneAbout(d, sr') /\ c # d
        /\ c # d => LeadsTo(d, sr', Online(d), Attached(d))
        /\ c = d => LeadsTo(d, sr', on, Attached(d))
    BY <1>1, <2>1, TailKeeps DEF Chain
  <2> HIDE DEF c, on
  <2>4. CASE d # c
    <3>1. part'[d] = part[d]
      BY <1>1, <1>3, <2>4 DEF IInv, TypeOK
    <3>2. Online(d)' = Online(d)
      BY <3>1 DEF Online
    <3>3. ~unheard' => (d \in announced' <=> Online(d)')
      BY <1>3, <2>1, <3>2 DEF Chain
    <3> QED BY <1>2, <2>1, <2>2, <2>3, <2>4, <3>2, <3>3 DEF Chain, Outside
  <2>5. CASE d = c
    <3>1. token[c] # "none"
      BY <2>1, <2>3, <2>5 DEF Chain, Outside
    <3>2. hub[c] # None
      BY <2>1, <2>5, <3>1 DEF Chain, Joining
    <3>3. part[c] # None /\ part[c] \in [role : Role, online : BOOLEAN]
      BY <1>1, <3>2 DEF IInv, HubAgrees, TypeOK
    <3>4. part'[c] \in [role : Role, online : BOOLEAN] /\ part'[c].online = on
      BY <1>1, <1>3, <3>3 DEF IInv, TypeOK
    <3>5. part'[c] # None
      BY <3>4, NoneIsNothing DEF Role
    <3>6. Online(d)' = on
      BY <1>1, <2>5, <3>4, <3>5 DEF Online
    <3>7. ~unheard' => (d \in announced' <=> Online(d)')
      BY <1>3, <2>5, <3>3
    <3>8. Outside(d)'
      BY <1>2, <2>5, <3>1 DEF Outside
    <3> QED BY <1>2, <2>1, <2>2, <2>3, <2>5, <3>6, <3>7, <3>8 DEF Chain
  <2> QED BY <2>4, <2>5
<1> QED BY <1>2, <1>4 DEF Chained

(* The end leaves the queues as they are. *)
LEMMA EndSessionChains ==
    ASSUME Chained, EndSession
    PROVE  Chained'
<1>1. UNCHANGED <<part, hub, call, removing, starting, present, messages, sr, token, notices,
                 resumed, removed>>
  BY DEF EndSession, known, calls, history
<1>2. ASSUME NEW d \in Client, Fresh(d)' PROVE Chain(d)'
  <2>1. Chain(d)
    BY <1>1, <1>2, FreshBefore DEF Chained
  <2>2. Attached(d)' = Attached(d) /\ Online(d)' = Online(d) /\ Joining(d)'
    BY <1>1, <2>1 DEF Attached, Online, Chain, Joining
  <2> QED BY <1>1, <2>1, <2>2, ChainKept
<1> QED BY <1>1, <1>2 DEF Chained

LEMMA NextChained ==
    ASSUME IInv, InTurn, Chained, [Next]_vars
    PROVE  Chained'
<1>1. CASE HandlePresence
  BY <1>1, HandlePresenceChains
<1>2. CASE MonitorStatus
  BY <1>2, MonitorStatusChains
<1>3. CASE \E c \in Client : Join(c, "whisperer") \/ Join(c, "listener")
  BY <1>3, JoinChains DEF Role
<1>4. CASE \E c \in Client : ReadWaitlist(c) \/ WriteWaitlist(c)
  BY <1>4, WaitlistChains
<1>5. CASE \E c \in Client : RemoveFromHub(c) \/ RemoveFromState(c)
  BY <1>5, RemoveChains
<1>6. CASE \E c \in Client : RemoveWaiting(c)
  <2>1. UNCHANGED <<part, hub, call, removing, starting, channels, token, notices, history>>
    BY <1>6 DEF RemoveWaiting, calls
  <2> QED BY <2>1, OthersChain
<1>7. CASE \E c \in Client : GetToken(c)
  BY <1>7, GetTokenChains
<1>8. CASE \E c \in Client : Move(c)
  BY <1>8, MoveChains
<1>9. CASE \E c \in Client : Resume(c) \/ AskHub(c) \/ AddFails(c) \/ InsertHub(c) \/ SetOnline(c)
  BY <1>9, ResumeChains, AskHubChains, AddFailsChains, InsertHubChains, SetOnlineChains
<1>10. CASE UNCHANGED vars
  <2>1. UNCHANGED <<part, hub, call, removing, starting, channels, token, notices, history>>
    BY <1>10 DEF vars, known, calls
  <2> QED BY <2>1, OthersChain
<1>11. CASE EndSession
  BY <1>11, EndSessionChains
<1> QED
  BY <1>1, <1>2, <1>3, <1>4, <1>5, <1>6, <1>7, <1>8, <1>9, <1>10, <1>11 DEF Next, Handler

LEMMA ChainedInvariant == ASSUME InTurn PROVE Spec => [](IInv /\ Chained)
<1>1. Init => IInv /\ Chained
  BY InitIInv, InitChained
<1>2. IInv /\ Chained /\ [Next]_vars => IInv' /\ Chained'
  BY NextIInv, NextChained
<1> QED BY <1>1, <1>2, PTL DEF Spec

(* The chain of a client about whom nothing is under way has no links. *)
LEMMA SettledIs ==
    ASSUME IInv, Chained, NEW c \in Client \ (resumed \cup removed),
           part[c] # None, ~Pending(c)
    PROVE  part[c].online = present[c] /\ (~unheard => (c \in announced <=> present[c]))
<1>1. c \in Client /\ removing[c] = "no" /\ Fresh(c)
  BY DEF Pending, Fresh, IInv, TypeOK
<1>2. Chain(c)
  BY <1>1 DEF Chained
<1>3. NoneAbout(c, messages) /\ NoneAbout(c, sr)
  BY DEF Pending, NoneAbout, IInv, TypeOK
<1>4. Online(c) = Attached(c) /\ Attached(c) = present[c]
  BY <1>2, <1>3 DEF Chain, LeadsTo
<1>5. part[c] \in [role : Role, online : BOOLEAN] /\ present[c] \in BOOLEAN
  BY <1>1 DEF IInv, TypeOK
<1>6. Online(c) = part[c].online
  BY <1>5 DEF Online
<1>7. ~unheard => (c \in announced <=> Online(c))
  BY <1>2 DEF Chain
<1> QED BY <1>4, <1>5, <1>6, <1>7

(* Whoever has joined this session is online exactly if it is present,     *)
(* once the messages about it have been dealt with: the hub has taken      *)
(* every change of its presence in order, and passed on each one that      *)
(* was a change, and the session has set what it was passed.               *)
THEOREM StatusAlwaysSettles == ASSUME InTurn PROVE Spec => []StatusSettles
<1>1. IInv /\ Chained => StatusSettles
  BY SettledIs DEF StatusSettles, Settled
<1> QED BY <1>1, ChainedInvariant, PTL

(* By then everybody has been told who is online: if the last broadcast    *)
(* was published, it announced what the session has of everyone who has    *)
(* joined it, whatever broadcasts failed before.                           *)
THEOREM AnnouncementsAlwaysSettle == ASSUME InTurn PROVE Spec => []AnnouncementsSettle
<1>1. IInv /\ Chained => AnnouncementsSettle
  BY SettledIs DEF AnnouncementsSettle
<1> QED BY <1>1, ChainedInvariant, PTL
=============================================================================

--------------------------- MODULE OwnershipProofs ---------------------------
(***************************************************************************)
(* The hand-off implements SessionOwnership, for any servers,              *)
(* conversations, requests, session values and failures, if loads do not   *)
(* overlap and a failed delete does not go unnoticed.                      *)
(***************************************************************************)
EXTENDS SessionHandoffProofs

(* Server s keeps the session of c: in a session value, or in the hands of *)
(* a caller that has taken the state out of storage.                       *)
KeptBy(c, s) ==
    \/ \E o \in Obj : Holds(o) /\ obj[o].conv = c /\ obj[o].srv = s
    \/ \E k \in Caller : call[k].pc = "getConversation" /\ call[k].conv = c /\ At(k) = s

(* What Place says of each conversation. *)
PlaceFacts ==
    /\ \A c \in Conv : c \in stored => Place[c] = "storage"
    /\ \A c \in Conv, s \in Server : KeptBy(c, s) => c \notin stored /\ Place[c] = s
    /\ \A c \in Conv : c \notin stored /\ (\A s \in Server : ~KeptBy(c, s))
                         => Place[c] = "nowhere"
    /\ Place = [c \in Conv |-> Place[c]]

(* Session value o, or caller k, keeps what it keeps, and takes nothing.   *)
ObjStays(o) ==
    /\ Holds(o)' <=> Holds(o)
    /\ Holds(o) => obj'[o].srv = obj[o].srv /\ obj'[o].conv = obj[o].conv

CallStays(k) ==
    /\ call'[k].pc = "getConversation" <=> call[k].pc = "getConversation"
    /\ call[k].pc = "getConversation" => call'[k].conv = call[k].conv

(* What the step allows of the conversations outside C: nothing.           *)
SameOutside(C) ==
    \A c \in Conv \ C : /\ c \in stored' <=> c \in stored
                        /\ \A s \in Server : KeptBy(c, s)' <=> KeptBy(c, s)

(* A step of the abstract specification, or none. *)
Abstract == Ownership!Next \/ UNCHANGED Place

-----------------------------------------------------------------------------
(* Place and the keepers of a conversation *)

LEMMA KeeperSet ==
    ASSUME Base, NEW c, NEW s
    PROVE  s \in Keepers(c) <=> KeptBy(c, s)
BY DEF Keepers, KeptBy

LEMMA KeeperAlone ==
    ASSUME Base, Alone, NEW c, NEW s, NEW t, KeptBy(c, s), KeptBy(c, t)
    PROVE  s = t /\ s \in Server /\ c \notin stored
<1>1. \A o \in Obj : Holds(o) => obj[o].srv \in Server /\ obj[o].conv \notin stored
  BY DEF Base, SessionsOwn, Holds, Alone, OnePlace
<1>2. \A k \in Caller : call[k].pc = "getConversation" => call[k].conv \notin stored
  BY DEF Alone, LoadConsumes
<1> QED BY <1>1, <1>2, CallerAt DEF KeptBy, Alone, OnePlace, LoadConsumes

LEMMA PlaceFollows == Base /\ Alone => PlaceFacts
<1> SUFFICES ASSUME Base, Alone PROVE PlaceFacts
  OBVIOUS
<1>1. ASSUME NEW c \in Conv, NEW s \in Server, KeptBy(c, s)
      PROVE  c \notin stored /\ Place[c] = s
  <2>1. c \notin stored
    BY <1>1, KeeperAlone
  <2>2. s \in Keepers(c) /\ \A t \in Keepers(c) : t = s
    BY <1>1, KeeperSet, KeeperAlone
  <2> QED BY <2>1, <2>2 DEF Place
<1>2. ASSUME NEW c \in Conv, c \notin stored, \A s \in Server : ~KeptBy(c, s)
      PROVE  Place[c] = "nowhere"
  <2>1. \A s : ~KeptBy(c, s)
    BY <1>2, KeeperAlone
  <2>2. Keepers(c) = {}
    BY <2>1, KeeperSet
  <2> QED BY <1>2, <2>2 DEF Place
<1>3. \A c \in Conv : c \in stored => Place[c] = "storage"
  BY DEF Place
<1>4. Place = [c \in Conv |-> Place[c]]
  BY DEF Place
<1> QED BY <1>1, <1>2, <1>3, <1>4 DEF PlaceFacts

LEMMA PlaceFollowsNext == Base' /\ Alone' => PlaceFacts'
BY PlaceFollows, PTL

(* Outside C, the step leaves every session in its place. *)
LEMMA PlaceSame ==
    ASSUME PlaceFacts, PlaceFacts', NEW C, SameOutside(C)
    PROVE  \A c \in Conv \ C : Place'[c] = Place[c]
BY DEF PlaceFacts, SameOutside

LEMMA KeepersSame ==
    ASSUME NEW C,
           \A o \in Obj : \/ ObjStays(o)
                          \/ /\ Holds(o) => obj[o].conv \in C
                             /\ Holds(o)' => obj'[o].conv \in C,
           \A k \in Caller : \/ CallStays(k)
                             \/ /\ call[k].pc = "getConversation" => call[k].conv \in C
                                /\ call'[k].pc = "getConversation" => call'[k].conv \in C,
           \A c \in Conv \ C : c \in stored' <=> c \in stored
    PROVE  SameOutside(C)
<1>1. \A k \in Caller : At(k)' = At(k)
  BY DEF At
<1>2. ASSUME NEW c \in Conv \ C, NEW s \in Server, KeptBy(c, s) PROVE KeptBy(c, s)'
  BY <1>1, <1>2 DEF KeptBy, ObjStays, CallStays
<1>3. ASSUME NEW c \in Conv \ C, NEW s \in Server, KeptBy(c, s)' PROVE KeptBy(c, s)
  BY <1>1, <1>3 DEF KeptBy, ObjStays, CallStays
<1> QED BY <1>2, <1>3 DEF SameOutside

-----------------------------------------------------------------------------
(* The steps of the abstract specification *)

LEMMA Stutters ==
    ASSUME PlaceFacts, PlaceFacts', SameOutside({})
    PROVE  Abstract
<1>1. \A c \in Conv : Place'[c] = Place[c]
  BY PlaceSame
<1> QED BY <1>1 DEF PlaceFacts, Abstract

LEMMA Loses ==
    ASSUME PlaceFacts, PlaceFacts', NEW s \in Server, NEW C \in SUBSET Conv,
           SameOutside(C),
           \A c \in C : /\ KeptBy(c, s) /\ c \notin stored'
                        /\ \A t \in Server : ~KeptBy(c, t)'
    PROVE  Abstract
<1>1. CASE C = {}
  BY <1>1, Stutters
<1>2. CASE C # {}
  <2>1. \A c \in C : Place[c] = s /\ Place'[c] = "nowhere"
    BY DEF PlaceFacts
  <2>2. \A c \in Conv \ C : Place'[c] = Place[c]
    BY PlaceSame
  <2>3. Place' = [c \in Conv |-> IF c \in C THEN "nowhere" ELSE Place[c]]
    BY <2>1, <2>2 DEF PlaceFacts
  <2>4. Ownership!Lose(s, C)
    BY <1>2, <2>1, <2>3 DEF Ownership!Lose
  <2> QED BY <2>4 DEF Abstract, Ownership!Next
<1> QED BY <1>1, <1>2

LEMMA Takes ==
    ASSUME PlaceFacts, PlaceFacts', NEW s \in Server, NEW c \in Conv,
           SameOutside({c}), c \in stored, KeptBy(c, s)'
    PROVE  Abstract
<1>1. Place[c] = "storage" /\ Place'[c] = s
  BY DEF PlaceFacts
<1>2. \A d \in Conv \ {c} : Place'[d] = Place[d]
  BY PlaceSame
<1>3. Place' = [Place EXCEPT ![c] = s]
  BY <1>1, <1>2 DEF PlaceFacts
<1>4. Ownership!Take(s, c)
  BY <1>1, <1>3 DEF Ownership!Take
<1> QED BY <1>4 DEF Abstract, Ownership!Next

LEMMA Returns ==
    ASSUME PlaceFacts, PlaceFacts', NEW s \in Server, NEW c \in Conv,
           SameOutside({c}), KeptBy(c, s), c \in stored'
    PROVE  Abstract
<1>1. Place[c] = s /\ Place'[c] = "storage"
  BY DEF PlaceFacts
<1>2. \A d \in Conv \ {c} : Place'[d] = Place[d]
  BY PlaceSame
<1>3. Place' = [Place EXCEPT ![c] = "storage"]
  BY <1>1, <1>2 DEF PlaceFacts
<1>4. Ownership!Return(s, c)
  BY <1>1, <1>3 DEF Ownership!Return
<1> QED BY <1>4 DEF Abstract, Ownership!Next

-----------------------------------------------------------------------------
(* What the actions are for the abstract specification *)

(* Both states of the step are as IInv says. *)
Sound == Base /\ Alone /\ Base' /\ Alone'

LEMMA SoundPlaces == Sound => PlaceFacts /\ PlaceFacts'
BY PlaceFollows, PlaceFollowsNext DEF Sound

(* A caller that goes where it has no session in hand loses the one it had.*)
LEMMA CallerLeaves ==
    ASSUME Sound, NEW k \in Caller, OnlyMoves(k), call'[k].pc # "getConversation",
           \A o \in Obj : ObjStays(o), UNCHANGED stored
    PROVE  Abstract
<1> DEFINE C == IF call[k].pc = "getConversation" THEN {call[k].conv} ELSE {}
<1>1. PlaceFacts /\ PlaceFacts'
  BY SoundPlaces
<1>2. C \in SUBSET Conv
  BY DEF Sound, Base, CallersOwn, LoadPc
<1>3. SameOutside(C)
  BY KeepersSame DEF OnlyMoves, CallStays
<1>4. ASSUME NEW c \in C
      PROVE  /\ KeptBy(c, At(k)) /\ c \notin stored'
             /\ \A t \in Server : ~KeptBy(c, t)'
  <2>1. call[k].pc = "getConversation" /\ call[k].conv = c
    BY <1>4
  <2>2. KeptBy(c, At(k)) /\ c \notin stored'
    BY <2>1 DEF KeptBy, Sound, Alone, LoadConsumes
  <2>3. \A o \in Obj : Holds(o)' => obj'[o].conv # c
    BY <2>1 DEF Sound, Alone, OnePlace, ObjStays
  <2>4. \A j \in Caller : call'[j].pc = "getConversation" => call'[j].conv # c
    BY <2>1 DEF Sound, Alone, LoadConsumes, OnlyMoves
  <2> QED BY <2>2, <2>3, <2>4 DEF KeptBy
<1> HIDE DEF C
<1>5. At(k) \in Server
  BY CallerAt
<1> QED BY <1>1, <1>2, <1>3, <1>4, <1>5, Loses

(* A session value whose state is dropped is lost. *)
LEMMA ObjLost ==
    ASSUME Sound, NEW p \in Obj, Holds(p), SetFree(p),
           \A k \in Caller : CallStays(k), UNCHANGED stored
    PROVE  Abstract
<1>0. obj[p].srv \in Server /\ obj[p].conv \in Conv
  BY DEF Sound, Base, SessionsOwn, Holds
<1> PICK s \in Server, c \in Conv : obj[p].srv = s /\ obj[p].conv = c
  BY <1>0
<1>1. PlaceFacts /\ PlaceFacts'
  BY SoundPlaces
<1>2. KeptBy(c, s)
  BY DEF KeptBy
<1>3. ~Holds(p)' /\ \A o \in Obj : o # p => ObjStays(o)
  BY DEF SetFree, Holds, ObjStays
<1>4. SameOutside({c})
  BY <1>3, KeepersSame
<1>5. c \notin stored'
  BY DEF Sound, Alone, OnePlace
<1>6. \A o \in Obj : Holds(o)' => obj'[o].conv # c
  BY <1>3 DEF Sound, Alone, OnePlace, ObjStays
<1>7. \A j \in Caller : call'[j].pc = "getConversation" => call'[j].conv # c
  BY DEF Sound, Alone, OnePlace, CallStays
<1>8. \A t \in Server : ~KeptBy(c, t)'
  BY <1>6, <1>7 DEF KeptBy
<1> QED BY <1>1, <1>2, <1>4, <1>5, <1>8, Loses

(* Steps that keep every session in the hands it is in. *)
LEMMA NobodyMoves ==
    ASSUME Sound, \A o \in Obj : ObjStays(o), \A k \in Caller : CallStays(k),
           UNCHANGED stored
    PROVE  Abstract
<1>1. PlaceFacts /\ PlaceFacts'
  BY SoundPlaces
<1>2. SameOutside({})
  BY KeepersSame
<1> QED BY <1>1, <1>2, Stutters

LEMMA LoaderAbstract ==
    ASSUME Sound, NEW s \in Server,
           Startup(s) \/ TakeSuspended(s) \/ StopLoading(s) \/ RemoveSuspended(s)
    PROVE  Abstract
<1>1. call \in [Caller -> CallType] /\ s \in Caller
  BY DEF Sound, Base, TypeOK, Caller
<1>2. UNCHANGED <<obj, stored>>
  BY DEF Startup, TakeSuspended, StopLoading, RemoveSuspended, storage
<1>3. OnlyMoves(s) /\ call'[s].pc \in {"wait", "lookup", "stopped"}
  <2>1. CASE Startup(s)
    BY <1>1, <2>1 DEF Startup, GoTo, OnlyMoves, CallType
  <2>2. CASE TakeSuspended(s)
    BY <1>1, <2>2 DEF TakeSuspended, Enter, Idle, OnlyMoves
  <2>3. CASE StopLoading(s)
    BY <1>1, <2>3 DEF StopLoading, Enter, Idle, OnlyMoves
  <2>4. CASE RemoveSuspended(s)
    BY <1>1, <2>4 DEF RemoveSuspended, Enter, Idle, OnlyMoves
  <2> QED BY <2>1, <2>2, <2>3, <2>4
<1>4. \A o \in Obj : ObjStays(o)
  BY <1>2 DEF ObjStays, Holds
<1> QED BY <1>1, <1>2, <1>3, <1>4, CallerLeaves

(* Lookup and the read of the state give the caller nothing to keep. *)
LEMMA LookupAbstract ==
    ASSUME Sound, NEW k \in Caller, Lookup(k) \/ FetchState(k)
    PROVE  Abstract
<1>1. /\ call \in [Caller -> CallType] /\ At(k) \in Server
      /\ call[k].conv \in Conv
      /\ sessions[At(k)][call[k].conv] \in Obj \cup {None}
  BY CallerAt DEF Sound, Base, TypeOK, CallersOwn, Lookup, FetchState, LoadPc
<1>2. UNCHANGED <<obj, stored>>
  BY DEF Lookup, FetchState, storage
<1>3. OnlyMoves(k) /\ call'[k].pc # "getConversation"
  <2>1. ASSUME NEW o \in Obj \cup {None}, Return(k, o)
        PROVE  OnlyMoves(k) /\ call'[k].pc # "getConversation"
    BY <1>1, <2>1, ReturnMoves DEF OnlyMoves
  <2>2. CASE Lookup(k) /\ GoTo(k, "fetch")
    BY <1>1, <2>2 DEF GoTo, OnlyMoves, CallType
  <2>3. CASE call' = [call EXCEPT ![k] = [@ EXCEPT !.pc = "delete", !.joins = image[call[k].conv]]]
    BY <1>1, <2>3 DEF OnlyMoves, CallType
  <2> QED BY <1>1, <2>1, <2>2, <2>3 DEF Lookup, FetchState
<1>4. \A o \in Obj : ObjStays(o)
  BY <1>2 DEF ObjStays, Holds
<1> QED BY <1>2, <1>3, <1>4, CallerLeaves

(* The delete is what takes the session out of storage. *)
LEMMA DeleteAbstract ==
    ASSUME Sound, "delete" \notin Faults, NEW k \in Caller, DeleteState(k)
    PROVE  Abstract
<1>1. /\ call \in [Caller -> CallType] /\ call[k].conv \in Conv
      /\ At(k) \in Server /\ At(k)' = At(k)
  BY CallerAt DEF Sound, Base, TypeOK, CallersOwn, DeleteState, LoadPc, At
<1> PICK c \in Conv, s \in Server : call[k].conv = c /\ At(k) = s
  BY <1>1
<1>2. /\ UNCHANGED obj
      /\ stored' = stored \ {c} /\ c \in stored
      /\ call[k].pc = "delete"
      /\ call'[k].pc = "getConversation" /\ call'[k].conv = c
      /\ \A j \in Caller : j # k => call'[j] = call[j]
  BY <1>1 DEF DeleteState, Fault, GoTo, CallType, Sound, Alone, LoadConsumes
<1>3. KeptBy(c, s)'
  BY <1>1, <1>2 DEF KeptBy
<1>4. \A o \in Obj : ObjStays(o)
  BY <1>2 DEF ObjStays, Holds
<1>5. \A j \in Caller : j # k => CallStays(j)
  BY <1>2 DEF CallStays
<1>6. SameOutside({c})
  BY <1>2, <1>4, <1>5, KeepersSame
<1> QED BY <1>2, <1>3, <1>6, SoundPlaces, Takes

(* The new session value keeps what its caller had in hand. *)
LEMMA MakeAbstract ==
    ASSUME Sound, NEW k \in Caller, MakeSession(k)
    PROVE  Abstract
<1>1. /\ call \in [Caller -> CallType] /\ obj \in [Obj -> ObjType]
      /\ call[k].conv \in Conv /\ At(k) \in Server
  BY CallerAt DEF Sound, Base, TypeOK, CallersOwn, MakeSession, LoadPc
<1>2. call[k].pc = "getConversation" /\ UNCHANGED stored
  BY DEF MakeSession, storage
<1>3. CASE Return(k, None) /\ UNCHANGED obj
  <2>1. OnlyMoves(k) /\ call'[k].pc # "getConversation"
    BY <1>1, <1>3, ReturnMoves DEF OnlyMoves
  <2>2. \A o \in Obj : ObjStays(o)
    BY <1>3 DEF ObjStays, Holds
  <2> QED BY <1>2, <2>1, <2>2, CallerLeaves
<1>4. CASE ~(Return(k, None) /\ UNCHANGED obj)
  <2> PICK c \in Conv, s \in Server : call[k].conv = c /\ At(k) = s
    BY <1>1
  <2> DEFINE o == CHOOSE q \in Phase("free") : TRUE
             new == [phase |-> "starting", srv |-> At(k),
                     conv |-> call[k].conv, joins |-> call[k].joins]
  <2>1. /\ o \in Obj /\ obj[o].phase = "free"
        /\ obj' = [obj EXCEPT ![o] = new]
        /\ call' = [call EXCEPT ![k] = [@ EXCEPT !.pc = "startPubsub", !.obj = o]]
    BY <1>4, FreshIsFree DEF MakeSession
  <2> HIDE DEF o
  <2>2. /\ obj'[o].phase = "starting" /\ obj'[o].srv = s /\ obj'[o].conv = c
        /\ \A q \in Obj : q # o => obj'[q] = obj[q]
    BY <1>1, <2>1
  <2>3. /\ call'[k].pc = "startPubsub"
        /\ \A j \in Caller : j # k => call'[j] = call[j]
    BY <1>1, <2>1 DEF CallType
  <2>4. KeptBy(c, s) /\ KeptBy(c, s)'
    BY <1>2, <2>1, <2>2 DEF KeptBy, Holds
  <2> HIDE DEF new
  <2>5. ~Holds(o) /\ \A q \in Obj : q # o => ObjStays(q)
    BY <2>1, <2>2 DEF Holds, ObjStays
  <2>6. SameOutside({c})
    BY <1>2, <2>2, <2>3, <2>5, KeepersSame DEF CallStays
  <2>7. PlaceFacts /\ PlaceFacts'
    BY SoundPlaces
  <2>8. Place'[c] = Place[c]
    BY <1>1, <2>4, <2>7 DEF PlaceFacts
  <2>9. \A d \in Conv \ {c} : Place'[d] = Place[d]
    BY <2>6, <2>7, PlaceSame
  <2> QED BY <2>7, <2>8, <2>9 DEF PlaceFacts, Abstract
<1> QED BY <1>3, <1>4

(* A start that fails loses its session; one that goes on keeps it. *)
LEMMA StartAbstract ==
    ASSUME Sound, NEW k \in Caller, StartPubsub(k) \/ AddParticipants(k)
    PROVE  Abstract
<1>1. /\ call \in [Caller -> CallType] /\ obj \in [Obj -> ObjType]
      /\ call[k].pc \in StartPc /\ call[k].pc # "getConversation" /\ UNCHANGED stored
  BY DEF Sound, Base, TypeOK, StartPubsub, AddParticipants, StartPc, storage
<1>2. CASE GiveUp(k)
  <2>1. call[k].obj \in Obj /\ Holds(call[k].obj)
    BY <1>1, HubType DEF Sound
  <2>2. SetFree(call[k].obj)
    BY <1>1, <1>2, <2>1 DEF GiveUp, SetFree, NoSession
  <2>3. \A j \in Caller : CallStays(j)
    BY <1>1, <1>2, ReturnMoves DEF GiveUp, CallStays
  <2> QED BY <1>1, <2>1, <2>2, <2>3, ObjLost
<1>3. CASE ~GiveUp(k)
  <2>1. UNCHANGED obj /\ (GoTo(k, "addParticipants") \/ GoTo(k, "register"))
    BY <1>3 DEF StartPubsub, AddParticipants
  <2>2. \A j \in Caller : CallStays(j)
    BY <1>1, <2>1 DEF GoTo, CallType, CallStays
  <2>3. \A o \in Obj : ObjStays(o)
    BY <2>1 DEF ObjStays, Holds
  <2> QED BY <1>1, <2>2, <2>3, NobodyMoves
<1> QED BY <1>2, <1>3

LEMMA RegisterAbstract ==
    ASSUME Sound, NEW k \in Caller, Register(k)
    PROVE  Abstract
<1> DEFINE o == call[k].obj
<1>1. /\ call \in [Caller -> CallType] /\ obj \in [Obj -> ObjType]
      /\ call[k].pc = "register" /\ UNCHANGED stored
  BY DEF Sound, Base, TypeOK, Register, storage
<1>2. o \in Obj /\ obj[o].phase = "starting"
  BY <1>1 DEF Sound, Base, CallersOwn, StartPc
<1>3. SetPhase(o, "live") /\ Return(k, o)
  BY DEF Register
<1>4. \A j \in Caller : CallStays(j)
  BY <1>1, <1>2, <1>3, ReturnMoves DEF CallStays
<1> HIDE DEF o
<1>5. \A q \in Obj : ObjStays(q)
  BY <1>1, <1>2, <1>3, SetPhaseMoves DEF ObjPhase, ObjStays, Holds
<1> QED BY <1>1, <1>4, <1>5, NobodyMoves

LEMMA HandlerAbstract ==
    ASSUME Sound, NEW r \in Request,
           \/ NewParticipant(r) \/ AddToPubsub(r) \/ AddListenerRequest(r)
           \/ \E c \in Conv : Arrive(r, c)
    PROVE  Abstract
<1>1. call \in [Caller -> CallType] /\ obj \in [Obj -> ObjType] /\ r \in Caller
  BY DEF Sound, Base, TypeOK, Caller
<1>2. UNCHANGED stored
  BY DEF NewParticipant, AddToPubsub, AddListenerRequest, Arrive, storage
<1>3. SameHands
  <2>1. ASSUME obj' = [obj EXCEPT ![call[r].obj].joins = @ \cup {r}] PROVE SameHands
    BY <1>1, <2>1 DEF SameHands, ObjType
  <2>2. ASSUME UNCHANGED obj PROVE SameHands
    BY <2>2 DEF SameHands
  <2> QED BY <2>1, <2>2 DEF NewParticipant, AddToPubsub, AddListenerRequest, Arrive
<1>4. OnlyMoves(r) /\ call'[r].pc # "getConversation"
  <2>1. CASE NewParticipant(r)
    BY <1>1, <2>1 DEF NewParticipant, GoTo, OnlyMoves, CallType
  <2>2. CASE AddToPubsub(r)
    BY <1>1, <2>2 DEF AddToPubsub, Enter, Idle, OnlyMoves
  <2>3. CASE AddListenerRequest(r)
    BY <1>1, <2>3 DEF AddListenerRequest, Enter, Idle, OnlyMoves
  <2>4. ASSUME NEW c \in Conv, Arrive(r, c)
        PROVE  OnlyMoves(r) /\ call'[r].pc # "getConversation"
    BY <1>1, <2>4 DEF Arrive, Enter, Idle, OnlyMoves
  <2> QED BY <2>1, <2>2, <2>3, <2>4
<1>5. \A o \in Obj : ObjStays(o)
  BY <1>3 DEF SameHands, ObjStays, Holds
<1> QED BY <1>1, <1>2, <1>4, <1>5, CallerLeaves

(* A shutdown keeps its sessions until it saves them. *)
LEMMA ShutdownAbstract ==
    ASSUME Sound, NEW s \in Server, NEW c \in Conv, ShutdownSession(s, c)
    PROVE  Abstract
<1> DEFINE o == sessions[s][c]
<1>1. /\ o \in Obj /\ obj \in [Obj -> ObjType] /\ obj[o].phase = "live"
  BY RunningLive DEF Sound, ShutdownSession, Base, TypeOK
<1>2. SetPhase(o, "grace") /\ UNCHANGED <<call, stored>>
  BY DEF ShutdownSession, storage
<1> HIDE DEF o
<1>3. \A q \in Obj : ObjStays(q)
  BY <1>1, <1>2, SetPhaseMoves DEF ObjPhase, ObjStays, Holds
<1>4. \A k \in Caller : CallStays(k)
  BY <1>2 DEF CallStays
<1> QED BY <1>2, <1>3, <1>4, NobodyMoves

LEMMA EndGraceAbstract ==
    ASSUME Sound, NEW o \in Obj, EndGrace(o)
    PROVE  Abstract
<1>1. obj \in [Obj -> ObjType] /\ obj[o].phase = "grace"
  BY DEF Sound, Base, TypeOK, EndGrace
<1>2. SetPhase(o, "ended") /\ UNCHANGED <<call, stored>>
  BY DEF EndGrace, storage
<1>3. \A q \in Obj : ObjStays(q)
  BY <1>1, <1>2, SetPhaseMoves DEF ObjPhase, ObjStays, Holds
<1>4. \A k \in Caller : CallStays(k)
  BY <1>2 DEF CallStays
<1> QED BY <1>2, <1>3, <1>4, NobodyMoves

(* A save returns the session to storage; one that fails loses it. *)
LEMMA SaveAbstract ==
    ASSUME Sound, NEW o \in Obj, SaveState(o)
    PROVE  Abstract
<1>1. /\ obj \in [Obj -> ObjType] /\ obj[o].phase = "ended" /\ Holds(o)
      /\ obj[o].conv \in Conv /\ obj[o].srv \in Server
  BY DEF Sound, Base, TypeOK, SessionsOwn, SaveState, Holds
<1> PICK c \in Conv, s \in Server : obj[o].conv = c /\ obj[o].srv = s
  BY <1>1
<1>2. \A k \in Caller : CallStays(k)
  BY DEF SaveState, CallStays
<1>3. SetFree(o)
  <2>1. [obj[o] EXCEPT !.phase = "saved"].phase = "saved"
    BY <1>1 DEF ObjType
  <2>2. obj'[o].phase \in {"saved", "free"}
    BY <1>1, <2>1 DEF SaveState, NoSession
  <2> QED BY <1>1, <2>2 DEF SaveState, SetFree
<1>4. CASE UNCHANGED stored
  BY <1>1, <1>2, <1>3, <1>4, ObjLost
<1>5. CASE stored' = stored \cup {c}
  <2>1. \A q \in Obj : q # o => ObjStays(q)
    BY <1>3 DEF SetFree, ObjStays, Holds
  <2>2. ~Holds(o)'
    BY <1>3 DEF SetFree, Holds
  <2>3. SameOutside({c})
    BY <1>2, <1>5, <2>1, <2>2, KeepersSame
  <2>4. KeptBy(c, s)
    BY <1>1 DEF KeptBy
  <2> QED BY <1>5, <2>3, <2>4, SoundPlaces, Returns
<1> QED BY <1>4, <1>5 DEF SaveState, storage

(* A process that ends loses what it keeps. *)
LEMMA DieAbstract ==
    ASSUME Sound, NEW s \in Server, Die(s)
    PROVE  Abstract
<1>1. /\ \A k \in Caller : call'[k].pc = "cut" \/ (call'[k] = call[k]
           /\ (At(k) = s => call[k].pc \in {"idle", "ok", "asked", "error"}))
      /\ \A o \in Obj : IF obj[o].srv = s THEN obj'[o] = NoSession ELSE obj'[o] = obj[o]
      /\ UNCHANGED stored
  BY DieMoves DEF Sound, Base, Die, storage
<1>2. \A k \in Caller : At(k) # s => call'[k] = call[k]
  BY DEF Die
<1>3. \A k \in Caller : At(k)' = At(k)
  BY DEF At
<1>4. \A o \in Obj : Holds(o)' <=> Holds(o) /\ obj[o].srv # s
  BY <1>1 DEF Holds, NoSession
<1>5. \A c \in Conv, t \in Server : KeptBy(c, t)' <=> KeptBy(c, t) /\ t # s
  <2>1. ASSUME NEW c \in Conv, NEW t \in Server, KeptBy(c, t), t # s PROVE KeptBy(c, t)'
    BY <1>1, <1>2, <1>3, <1>4, <2>1 DEF KeptBy
  <2>2. ASSUME NEW c \in Conv, NEW t \in Server, KeptBy(c, t)' PROVE KeptBy(c, t) /\ t # s
    BY <1>1, <1>2, <1>3, <1>4, <2>2 DEF KeptBy
  <2> QED BY <2>1, <2>2
<1> DEFINE C == {c \in Conv : KeptBy(c, s)}
<1>6. \A c \in C : /\ c \notin stored
                   /\ \A t \in Server : KeptBy(c, t) => t = s
  BY KeeperAlone DEF Sound
<1>7. SameOutside(C)
  BY <1>1, <1>5 DEF SameOutside
<1>8. \A c \in C : /\ KeptBy(c, s) /\ c \notin stored'
                   /\ \A t \in Server : ~KeptBy(c, t)'
  BY <1>1, <1>5, <1>6
<1> HIDE DEF C
<1>9. C \in SUBSET Conv
  BY DEF C
<1> QED BY <1>7, <1>8, <1>9, SoundPlaces, Loses

-----------------------------------------------------------------------------
(* The refinement *)

LEMMA InitAbstract == Init => Ownership!Init
<1> SUFFICES ASSUME Init PROVE Ownership!Init
  OBVIOUS
<1>1. \A c \in Conv, s \in Server : ~KeptBy(c, s)
  BY DEF Init, KeptBy, Holds, NoSession, Idle
<1>2. PlaceFacts
  BY PlaceFollows, BaseInit, AloneInit
<1>3. \A c \in Conv : Place[c] \in {"storage", "nowhere"}
  BY <1>1, <1>2 DEF PlaceFacts
<1> QED BY <1>2, <1>3 DEF PlaceFacts, Ownership!Init

LEMMA StepAbstract ==
    ASSUME Sound, "delete" \notin Faults, [Next]_vars
    PROVE  Abstract
<1>1. CASE UNCHANGED <<obj, call, stored>>
  BY <1>1, NobodyMoves DEF ObjStays, CallStays, Holds
<1>2. ASSUME NEW s \in Server, Startup(s) \/ Crash(s) \/ Interrupt(s) \/ ShutdownAll(s)
                               \/ TakeSuspended(s) \/ StopLoading(s) \/ RemoveSuspended(s)
      PROVE  Abstract
  <2>1. CASE Startup(s) \/ TakeSuspended(s) \/ StopLoading(s) \/ RemoveSuspended(s)
    BY <2>1, LoaderAbstract
  <2>2. CASE Crash(s) \/ Exit(s)
    BY <2>2, DieAbstract DEF Crash, Exit
  <2>3. CASE Interrupt(s) \/ LoopDone(s) \/ QueueSuspended(s)
    BY <1>1, <2>3 DEF Interrupt, LoopDone, QueueSuspended, storage
  <2>4. CASE \E c \in Conv : ShutdownSession(s, c)
    BY <2>4, ShutdownAbstract
  <2> QED BY <1>2, <2>1, <2>2, <2>3, <2>4 DEF ShutdownAll
<1>3. ASSUME NEW k \in Caller, GetSession(k) PROVE Abstract
  BY <1>3, LookupAbstract, DeleteAbstract, MakeAbstract, StartAbstract, RegisterAbstract
     DEF GetSession
<1>4. ASSUME NEW r \in Request, Handler(r) \/ \E c \in Conv : Arrive(r, c) PROVE Abstract
  BY <1>3, <1>4, HandlerAbstract DEF Handler, Caller
<1>5. ASSUME NEW o \in Obj, Grace(o) PROVE Abstract
  BY <1>5, EndGraceAbstract, SaveAbstract DEF Grace
<1>6. CASE UNCHANGED vars
  BY <1>1, <1>6 DEF vars, storage
<1> QED BY <1>2, <1>3, <1>4, <1>5, <1>6 DEF Next, Loader, Caller

(* If loads do not overlap and a failed delete does not go unnoticed, the  *)
(* code of GetSession and of the shutdown hands each session from server   *)
(* to server by way of storage only, and never to two.                     *)
THEOREM ImplementsOwnershipHolds ==
    ASSUME "delete" \notin Faults
    PROVE  ApartSpec => ImplementsOwnership
<1>1. Init => Ownership!Init
  BY InitAbstract
<1>2. IInv /\ IInv' /\ [Next /\ LoadsApart']_vars => [Ownership!Next]_Place
  <2> SUFFICES ASSUME IInv, IInv', [Next /\ LoadsApart']_vars
               PROVE  [Ownership!Next]_Place
    OBVIOUS
  <2>1. Sound
    BY DEF Sound, IInv, Base, Alone
  <2> QED BY <2>1, StepAbstract DEF Abstract
<1> QED BY <1>1, <1>2, IInvInductive, PTL DEF ApartSpec, ImplementsOwnership, Ownership!Spec
=============================================================================

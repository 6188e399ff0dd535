------------------------ MODULE SessionHandoffProofs ------------------------
(***************************************************************************)
(* Proofs about SessionHandoff, for any servers, conversations, requests,  *)
(* session values and failures.                                            *)
(***************************************************************************)
EXTENDS SessionHandoff, FiniteSetTheorems, SequenceTheorems, TLAPS

(* What holds of every execution of the code: types, and who owns what. *)
Base == TypeOK /\ CallersOwn /\ SessionsOwn

-----------------------------------------------------------------------------
(* Lemmas about the operators actions are built from *)

(* A caller runs on one server. *)
LEMMA CallerAt == \A k \in Caller : At(k) \in Server
BY ServersAndRequests DEF Caller, At

(* GoTo, Enter and Return move one caller and leave the others alone. *)
LEMMA GoToMoves ==
    ASSUME call \in [Caller -> CallType], NEW k \in Caller, NEW p \in Pc, GoTo(k, p)
    PROVE  /\ call' \in [Caller -> CallType]
           /\ call'[k].pc = p /\ call'[k].conv = call[k].conv /\ call'[k].obj = call[k].obj
           /\ \A j \in Caller : j # k => call'[j] = call[j]
BY DEF GoTo, CallType

LEMMA EnterMoves ==
    ASSUME call \in [Caller -> CallType], NEW k \in Caller, NEW p \in Pc,
           NEW c \in Conv \cup {None}, Enter(k, p, c)
    PROVE  /\ call' \in [Caller -> CallType]
           /\ call'[k].pc = p /\ call'[k].conv = c
           /\ \A j \in Caller : j # k => call'[j] = call[j]
BY DEF Enter, CallType, Idle

LEMMA ReturnMoves ==
    ASSUME call \in [Caller -> CallType], NEW k \in Caller, NEW o \in Obj \cup {None},
           Return(k, o)
    PROVE  /\ call' \in [Caller -> CallType]
           /\ call'[k].pc \in {"lookup", "remove", "error", "admit"}
           /\ call'[k].conv = call[k].conv
           /\ \A j \in Caller : j # k => call'[j] = call[j]
BY DEF Return, CallType, Pc, ServerPc, LoadPc, RequestPc

(* SetPhase changes the phase of one session value. *)
LEMMA SetPhaseMoves ==
    ASSUME obj \in [Obj -> ObjType], NEW o \in Obj, NEW p \in ObjPhase, SetPhase(o, p)
    PROVE  /\ obj' \in [Obj -> ObjType]
           /\ obj'[o].phase = p
           /\ obj'[o].srv = obj[o].srv /\ obj'[o].conv = obj[o].conv
           /\ \A q \in Obj : q # o => obj'[q] = obj[q]
BY DEF SetPhase, ObjType

(* A process that dies frees its session values and cuts its callers. *)
LEMMA DieMoves ==
    ASSUME TypeOK, NEW s \in Server, Die(s)
    PROVE  /\ TypeOK' \/ faults' \notin Nat
           /\ \A k \in Caller : call'[k].pc = "cut" \/ (call'[k] = call[k]
                /\ (At(k) = s => call[k].pc \in {"idle", "ok", "asked", "error"}))
           /\ \A o \in Obj : IF obj[o].srv = s THEN obj'[o] = NoSession ELSE obj'[o] = obj[o]
           /\ \A t \in Server, c \in Conv :
                /\ sessions'[t][c] = IF t = s THEN None ELSE sessions[t][c]
                /\ hub'[t][c] = IF t = s THEN None ELSE hub[t][c]
<1>1. call' \in [Caller -> CallType]
  BY DEF TypeOK, Die, Idle, CallType, Pc
<1>2. obj' \in [Obj -> ObjType]
  BY DEF TypeOK, Die, NoSession, ObjType, ObjPhase
<1>3. shut' \in [Server -> ShutType]
  <2>1. NoShutdown \in ShutType
    BY EmptySeq DEF NoShutdown, ShutType
  <2> QED BY <2>1 DEF TypeOK, Die
<1>4. proc' \in [Server -> {"new", "up", "closing", "exited"}]
      /\ sessions' \in [Server -> [Conv -> Obj \cup {None}]]
      /\ hub' \in [Server -> [Conv -> Obj \cup {None}]]
  BY DEF TypeOK, Die
<1>5. TypeOK' \/ faults' \notin Nat
  BY <1>1, <1>2, <1>3, <1>4 DEF TypeOK, Die, storage
<1>6. \A k \in Caller : call'[k].pc = "cut" \/ (call'[k] = call[k]
                /\ (At(k) = s => call[k].pc \in {"idle", "ok", "asked", "error"}))
  BY DEF Die, Idle
<1>7. \A o \in Obj : IF obj[o].srv = s THEN obj'[o] = NoSession ELSE obj'[o] = obj[o]
  BY DEF Die
<1>8. \A t \in Server, c \in Conv :
                /\ sessions'[t][c] = IF t = s THEN None ELSE sessions[t][c]
                /\ hub'[t][c] = IF t = s THEN None ELSE hub[t][c]
  BY DEF Die, TypeOK
<1> QED BY <1>5, <1>6, <1>7, <1>8

(* Taking an element out of the queue leaves a queue. *)
LEMMA WithoutType ==
    ASSUME NEW q \in Seq(Conv), NEW x
    PROVE  Without(q, x) \in Seq(Conv)
<1> DEFINE At1 == {i \in DOMAIN q : q[i] = x /\ \A j \in 1 .. i - 1 : q[j] # x}
<1>1. CASE At1 = {}
  BY <1>1 DEF Without
<1>2. CASE At1 # {}
  <2> DEFINE i == CHOOSE j \in At1 : TRUE
  <2>1. i \in 1 .. Len(q)
    BY <1>2
  <2> HIDE DEF i
  <2>2. SubSeq(q, 1, i - 1) \in Seq(Conv) /\ SubSeq(q, i + 1, Len(q)) \in Seq(Conv)
    BY <2>1
  <2>3. Without(q, x) = SubSeq(q, 1, i - 1) \o SubSeq(q, i + 1, Len(q))
    BY <1>2 DEF Without, i
  <2> QED BY <2>2, <2>3
<1> QED BY <1>1, <1>2

(* A session value is allocated out of the free ones. *)
LEMMA FreshIsFree ==
    ASSUME Phase("free") # {}
    PROVE  /\ (CHOOSE o \in Phase("free") : TRUE) \in Obj
           /\ obj[CHOOSE o \in Phase("free") : TRUE].phase = "free"
BY DEF Phase

-----------------------------------------------------------------------------
(* Base is an invariant *)

LEMMA BaseInit == Init => Base
<1> SUFFICES ASSUME Init PROVE Base
  OBVIOUS
<1>1. queue \in Seq(Conv)
  <2>1. Cardinality(Conv) \in Nat
    BY FiniteConversations, FS_CardinalityType
  <2>2. PICK n \in Nat : queue \in [1 .. n -> Conv]
    BY <2>1 DEF Init
  <2> QED BY <2>2, SeqDef
<1>2. TypeOK
  BY <1>1, EmptySeq DEF Init, TypeOK, CallType, Pc, ObjPhase, ObjType, ShutType, NoSession, NoShutdown, Idle
<1>3. CallersOwn /\ SessionsOwn
  BY DEF Init, CallersOwn, SessionsOwn, Idle, LoadPc, StartPc, NoSession, Caller
<1> QED BY <1>2, <1>3 DEF Base

(* A start that fails frees the session value of its caller. *)
GiveUpObj(k) == obj' = [obj EXCEPT ![call[k].obj] = NoSession]

(* A caller that moves to a place outside start(), with a conversation if  *)
(* it is inside GetSession, disturbs nobody's session value.               *)
LEMMA CallerMoves ==
    ASSUME Base, NEW k \in Caller, call' \in [Caller -> CallType],
           \A j \in Caller : j # k => call'[j] = call[j],
           call'[k].pc \notin StartPc,
           call'[k].pc \in LoadPc \cup {"remove"} => call'[k].conv \in Conv
    PROVE  /\ UNCHANGED <<obj, sessions>> => CallersOwn' /\ SessionsOwn'
           /\ call[k].pc \in StartPc /\ GiveUpObj(k) /\ UNCHANGED sessions
                => CallersOwn' /\ SessionsOwn'
<1>1. ASSUME UNCHANGED <<obj, sessions>>
      PROVE  CallersOwn' /\ SessionsOwn'
  <2>1. CallersOwn'
    BY <1>1 DEF Base, CallersOwn, At
  <2>2. SessionsOwn'
    BY <1>1 DEF Base, SessionsOwn
  <2> QED BY <2>1, <2>2
<1>2. ASSUME call[k].pc \in StartPc, GiveUpObj(k), UNCHANGED sessions
      PROVE  CallersOwn' /\ SessionsOwn'
  <2> DEFINE p == call[k].obj
  <2>1. /\ p \in Obj /\ obj[p].phase = "starting"
        /\ \A j \in Caller : j # k /\ call[j].pc \in StartPc => call[j].obj # p
        /\ \A s \in Server, c \in Conv : sessions[s][c] # p
    <3>1. p \in Obj /\ obj[p].phase = "starting"
      BY <1>2 DEF Base, CallersOwn
    <3>2. p # None
      BY <3>1, NoneIsNothing
    <3> QED BY <1>2, <3>1, <3>2 DEF Base, CallersOwn, SessionsOwn
  <2>2. /\ obj'[p] = NoSession
        /\ \A q \in Obj : q # p => obj'[q] = obj[q]
    BY <1>2, <2>1 DEF GiveUpObj, Base, TypeOK
  <2> HIDE DEF p
  <2>3. CallersOwn'
    BY <2>1, <2>2 DEF Base, CallersOwn, At
  <2>4. SessionsOwn'
    <3>1. \A s \in Server, c \in Conv : sessions[s][c] # None => sessions[s][c] \in Obj
      BY DEF Base, TypeOK
    <3> QED BY <1>2, <2>1, <2>2, <3>1 DEF Base, SessionsOwn, NoSession
  <2> QED BY <2>3, <2>4
<1> QED BY <1>1, <1>2

(* The sessions that run on a server are session values, and live. *)
LEMMA RunningLive ==
    ASSUME Base
    PROVE  \A s \in Server, c \in Conv : sessions[s][c] # None =>
              /\ sessions[s][c] \in Obj
              /\ obj[sessions[s][c]].phase = "live"
              /\ obj[sessions[s][c]].srv = s
              /\ obj[sessions[s][c]].conv = c
<1>1. sessions \in [Server -> [Conv -> Obj \cup {None}]]
  BY DEF Base, TypeOK
<1>2. \A s \in Server, c \in Conv : sessions[s][c] \in Obj \cup {None}
  BY <1>1
<1> QED BY <1>2 DEF Base, SessionsOwn

LEMMA LoaderBase ==
    ASSUME Base, NEW s \in Server,
           Startup(s) \/ TakeSuspended(s) \/ StopLoading(s) \/ RemoveSuspended(s)
    PROVE  Base'
<1> USE DEF Base
<1>1. call \in [Caller -> CallType] /\ s \in Caller /\ queue \in Seq(Conv)
  BY DEF TypeOK, Caller
<1>2. CASE Startup(s)
  <2>1. /\ call' \in [Caller -> CallType] /\ call'[s].pc = "wait"
        /\ \A j \in Caller : j # s => call'[j] = call[j]
    BY <1>1, <1>2, GoToMoves DEF Startup, Pc, ServerPc
  <2>2. TypeOK'
    BY <1>2, <2>1 DEF TypeOK, Startup, storage
  <2>3. CallersOwn' /\ SessionsOwn'
    BY <1>1, <1>2, <2>1, CallerMoves DEF Startup, StartPc, LoadPc
  <2> QED BY <2>2, <2>3
<1>3. CASE TakeSuspended(s)
  <2>1. queue[Len(queue)] \in Conv /\ queue' \in Seq(Conv)
    BY <1>1, <1>3 DEF TakeSuspended
  <2>2. /\ call' \in [Caller -> CallType]
        /\ call'[s].pc = "lookup" /\ call'[s].conv \in Conv
        /\ \A j \in Caller : j # s => call'[j] = call[j]
    BY <1>1, <1>3, <2>1, EnterMoves DEF TakeSuspended, Pc, LoadPc
  <2>3. TypeOK'
    BY <1>3, <2>1, <2>2 DEF TypeOK, TakeSuspended, storage
  <2>4. CallersOwn' /\ SessionsOwn'
    BY <1>1, <1>3, <2>2, CallerMoves DEF TakeSuspended, StartPc
  <2> QED BY <2>3, <2>4
<1>4. CASE StopLoading(s)
  <2>1. /\ call' \in [Caller -> CallType] /\ call'[s].pc = "stopped"
        /\ \A j \in Caller : j # s => call'[j] = call[j]
    BY <1>1, <1>4, EnterMoves DEF StopLoading, Pc, ServerPc
  <2>2. TypeOK'
    BY <1>4, <2>1 DEF TypeOK, StopLoading, storage, Fault
  <2>3. CallersOwn' /\ SessionsOwn'
    BY <1>1, <1>4, <2>1, CallerMoves DEF StopLoading, StartPc, LoadPc
  <2> QED BY <2>2, <2>3
<1>5. CASE RemoveSuspended(s)
  <2>1. queue' \in Seq(Conv)
    BY <1>1, <1>5, WithoutType DEF RemoveSuspended
  <2>2. /\ call' \in [Caller -> CallType] /\ call'[s].pc = "wait"
        /\ \A j \in Caller : j # s => call'[j] = call[j]
    BY <1>1, <1>5, EnterMoves DEF RemoveSuspended, Pc, ServerPc
  <2>3. TypeOK'
    BY <1>5, <2>1, <2>2 DEF TypeOK, RemoveSuspended, storage, Fault
  <2>4. CallersOwn' /\ SessionsOwn'
    BY <1>1, <1>5, <2>2, CallerMoves DEF RemoveSuspended, StartPc, LoadPc
  <2> QED BY <2>3, <2>4
<1> QED BY <1>2, <1>3, <1>4, <1>5

LEMMA ReadBase ==
    ASSUME Base, NEW k \in Caller, Lookup(k) \/ FetchState(k) \/ DeleteState(k)
    PROVE  Base'
<1> USE DEF Base
<1>1. /\ call \in [Caller -> CallType] /\ At(k) \in Server
      /\ call[k].pc \in LoadPc => call[k].conv \in Conv
  BY CallerAt DEF TypeOK, CallersOwn
<1>2. CASE Lookup(k)
  <2> DEFINE o == sessions[At(k)][call[k].conv]
  <2>1. call[k].conv \in Conv /\ o \in Obj \cup {None}
    BY <1>1, <1>2 DEF Lookup, LoadPc, TypeOK
  <2>2. /\ call' \in [Caller -> CallType]
        /\ call'[k].pc \notin StartPc /\ call'[k].conv \in Conv
        /\ \A j \in Caller : j # k => call'[j] = call[j]
    <3>1. CASE o = None
      BY <1>1, <1>2, <2>1, <3>1, GoToMoves DEF Lookup, Pc, LoadPc, StartPc
    <3>2. CASE o # None
      BY <1>1, <1>2, <2>1, <3>2, ReturnMoves DEF Lookup, StartPc
    <3> QED BY <3>1, <3>2
  <2>3. TypeOK'
    BY <1>2, <2>2 DEF TypeOK, Lookup, storage
  <2>4. CallersOwn' /\ SessionsOwn'
    BY <1>2, <2>2, CallerMoves DEF Lookup
  <2> QED BY <2>3, <2>4
<1>3. CASE FetchState(k)
  <2>1. call[k].conv \in Conv /\ image[call[k].conv] \in SUBSET Request
    BY <1>1, <1>3 DEF FetchState, LoadPc, TypeOK
  <2>2. /\ call' \in [Caller -> CallType]
        /\ call'[k].pc \notin StartPc /\ call'[k].conv \in Conv
        /\ \A j \in Caller : j # k => call'[j] = call[j]
    <3>1. CASE Return(k, None)
      BY <1>1, <2>1, <3>1, ReturnMoves DEF StartPc
    <3>2. CASE call' = [call EXCEPT ![k] =
                          [@ EXCEPT !.pc = "delete", !.joins = image[call[k].conv]]]
      <4>1. [call[k] EXCEPT !.pc = "delete", !.joins = image[call[k].conv]] \in CallType
        BY <1>1, <2>1 DEF CallType, Pc, LoadPc
      <4> QED BY <1>1, <2>1, <3>2, <4>1 DEF CallType, StartPc
    <3> QED BY <1>3, <3>1, <3>2 DEF FetchState
  <2>3. TypeOK'
    BY <1>3, <2>2 DEF TypeOK, FetchState, storage, Fault
  <2>4. CallersOwn' /\ SessionsOwn'
    BY <1>3, <2>2, CallerMoves DEF FetchState
  <2> QED BY <2>3, <2>4
<1>4. CASE DeleteState(k)
  <2>1. /\ call' \in [Caller -> CallType]
        /\ call'[k].pc = "getConversation" /\ call'[k].conv \in Conv
        /\ \A j \in Caller : j # k => call'[j] = call[j]
    BY <1>1, <1>4, GoToMoves DEF DeleteState, Pc, LoadPc
  <2>2. TypeOK'
    BY <1>4, <2>1 DEF TypeOK, DeleteState, storage, Fault
  <2>3. CallersOwn' /\ SessionsOwn'
    BY <1>4, <2>1, CallerMoves DEF DeleteState, StartPc
  <2> QED BY <2>2, <2>3
<1> QED BY <1>2, <1>3, <1>4

(* A start that fails: its caller returns, its session value is freed. *)
LEMMA GiveUpBase ==
    ASSUME Base, NEW k \in Caller, call[k].pc \in StartPc, GiveUp(k),
           UNCHANGED <<proc, sessions, hub, storage, queue, shut>>, faults' \in Nat
    PROVE  Base'
<1> USE DEF Base
<1>1. /\ call \in [Caller -> CallType] /\ obj \in [Obj -> ObjType]
      /\ call[k].conv \in Conv /\ call[k].obj \in Obj
  BY DEF TypeOK, CallersOwn, StartPc, LoadPc
<1>2. /\ call' \in [Caller -> CallType]
      /\ call'[k].pc \notin StartPc /\ call'[k].conv \in Conv
      /\ \A j \in Caller : j # k => call'[j] = call[j]
  BY <1>1, ReturnMoves DEF GiveUp, StartPc
<1>3. GiveUpObj(k)
  BY DEF GiveUp, GiveUpObj
<1>4. obj' \in [Obj -> ObjType]
  <2>1. NoSession \in ObjType
    BY DEF NoSession, ObjType, ObjPhase
  <2> QED BY <1>1, <1>3, <2>1 DEF GiveUpObj
<1>5. TypeOK'
  BY <1>2, <1>4 DEF TypeOK, storage
<1>6. CallersOwn' /\ SessionsOwn'
  BY <1>2, <1>3, CallerMoves
<1> QED BY <1>5, <1>6

(* A step inside start() that succeeds. *)
LEMMA StartMoves ==
    ASSUME Base, NEW k \in Caller, call[k].pc \in StartPc, NEW p \in StartPc,
           GoTo(k, p), UNCHANGED <<obj, sessions>>
    PROVE  call' \in [Caller -> CallType] /\ CallersOwn' /\ SessionsOwn'
<1>1. call \in [Caller -> CallType] /\ p \in Pc
  BY DEF Base, TypeOK, Pc, StartPc, LoadPc
<1>2. /\ call' \in [Caller -> CallType]
      /\ call'[k].pc = p /\ call'[k].conv = call[k].conv /\ call'[k].obj = call[k].obj
      /\ \A j \in Caller : j # k => call'[j] = call[j]
  BY <1>1, GoToMoves
<1>3. p \in LoadPc /\ call[k].pc \in LoadPc
  BY DEF StartPc, LoadPc
<1>4. CallersOwn'
  BY <1>2, <1>3 DEF Base, CallersOwn, At
<1>5. SessionsOwn'
  BY DEF Base, SessionsOwn
<1> QED BY <1>2, <1>4, <1>5

LEMMA StartBase ==
    ASSUME Base, NEW k \in Caller,
           MakeSession(k) \/ StartPubsub(k) \/ AddParticipants(k) \/ Register(k)
    PROVE  Base'
<1> USE DEF Base
<1>1. /\ call \in [Caller -> CallType] /\ obj \in [Obj -> ObjType] /\ faults \in Nat
      /\ At(k) \in Server
      /\ call[k].pc \in LoadPc => call[k].conv \in Conv
      /\ call[k].pc \in StartPc => call[k].obj \in Obj
  BY CallerAt DEF TypeOK, CallersOwn
<1>2. CASE MakeSession(k)
  <2>1. call[k].pc = "getConversation" /\ call[k].conv \in Conv
    BY <1>1, <1>2 DEF MakeSession, LoadPc
  <2>2. CASE Fault("getConversation") /\ Return(k, None) /\ UNCHANGED obj
    <3>1. /\ call' \in [Caller -> CallType]
          /\ call'[k].pc \notin StartPc /\ call'[k].conv \in Conv
          /\ \A j \in Caller : j # k => call'[j] = call[j]
      BY <1>1, <2>1, <2>2, ReturnMoves DEF StartPc
    <3>2. TypeOK'
      BY <1>2, <2>2, <3>1 DEF TypeOK, MakeSession, storage, Fault
    <3>3. CallersOwn' /\ SessionsOwn'
      BY <1>2, <2>2, <3>1, CallerMoves DEF MakeSession
    <3> QED BY <3>2, <3>3
  <2>3. CASE ~(Fault("getConversation") /\ Return(k, None) /\ UNCHANGED obj)
    <3> DEFINE o == CHOOSE q \in Phase("free") : TRUE
               new == [phase |-> "starting", srv |-> At(k),
                       conv |-> call[k].conv, joins |-> call[k].joins]
    <3>1. /\ o \in Obj /\ obj[o].phase = "free"
          /\ obj' = [obj EXCEPT ![o] = new]
          /\ call' = [call EXCEPT ![k] = [@ EXCEPT !.pc = "startPubsub", !.obj = o]]
          /\ UNCHANGED <<proc, sessions, hub, storage, queue, shut, faults>>
      BY <1>2, <2>3, FreshIsFree DEF MakeSession
    <3>2. new \in ObjType
      BY <1>1, <2>1 DEF ObjType, ObjPhase, CallType
    <3> HIDE DEF o
    <3>3. [call[k] EXCEPT !.pc = "startPubsub", !.obj = o] \in CallType
      BY <1>1, <3>1 DEF CallType, Pc, LoadPc
    <3>4. /\ call' \in [Caller -> CallType]
          /\ call'[k].pc = "startPubsub" /\ call'[k].obj = o
          /\ call'[k].conv = call[k].conv
          /\ \A j \in Caller : j # k => call'[j] = call[j]
      BY <1>1, <3>1, <3>3 DEF CallType
    <3>5. /\ obj' \in [Obj -> ObjType]
          /\ obj'[o].phase = "starting" /\ obj'[o].srv = At(k)
          /\ obj'[o].conv = call[k].conv
          /\ \A q \in Obj : q # o => obj'[q] = obj[q]
      BY <1>1, <3>1, <3>2
    <3> HIDE DEF new
    <3>6. TypeOK'
      BY <3>1, <3>4, <3>5 DEF TypeOK, storage
    <3>7. CallersOwn'
      BY <2>1, <3>1, <3>4, <3>5 DEF CallersOwn, At
    <3>8. SessionsOwn'
      <4>1. \A s \in Server, c \in Conv : sessions[s][c] # None =>
               sessions[s][c] \in Obj /\ sessions[s][c] # o
        BY <3>1 DEF TypeOK, SessionsOwn
      <4> QED BY <1>1, <2>1, <3>1, <3>5, <4>1 DEF SessionsOwn
    <3> QED BY <3>6, <3>7, <3>8
  <2> QED BY <2>2, <2>3
<1>3. CASE StartPubsub(k)
  <2>1. call[k].pc \in StartPc
    BY <1>3 DEF StartPubsub, StartPc
  <2>2. CASE GiveUp(k) /\ Fault("startPubsub") /\ UNCHANGED hub
    BY <1>1, <1>3, <2>1, <2>2, GiveUpBase DEF StartPubsub, Fault
  <2>3. CASE ~(GiveUp(k) /\ Fault("startPubsub") /\ UNCHANGED hub)
    <3>1. /\ GoTo(k, "addParticipants") /\ UNCHANGED <<obj, sessions>>
          /\ hub' = [hub EXCEPT ![At(k)][call[k].conv] = IF @ = None THEN call[k].obj ELSE @]
          /\ UNCHANGED <<proc, storage, queue, shut, faults>>
      BY <1>3, <2>3 DEF StartPubsub
    <3>2. call' \in [Caller -> CallType] /\ CallersOwn' /\ SessionsOwn'
      BY <2>1, <3>1, StartMoves DEF StartPc
    <3>3. hub' \in [Server -> [Conv -> Obj \cup {None}]]
      BY <1>1, <2>1, <3>1 DEF TypeOK
    <3>4. TypeOK'
      BY <3>1, <3>2, <3>3 DEF TypeOK, storage
    <3> QED BY <3>2, <3>4
  <2> QED BY <2>2, <2>3
<1>4. CASE AddParticipants(k)
  <2>1. call[k].pc \in StartPc
    BY <1>4 DEF AddParticipants, StartPc
  <2>2. CASE GiveUp(k)
    BY <1>1, <1>4, <2>1, <2>2, GiveUpBase DEF AddParticipants, Fault
  <2>3. CASE ~GiveUp(k)
    <3>1. /\ GoTo(k, "register")
          /\ UNCHANGED <<obj, sessions, proc, hub, storage, queue, shut, faults>>
      BY <1>4, <2>3 DEF AddParticipants
    <3>2. call' \in [Caller -> CallType] /\ CallersOwn' /\ SessionsOwn'
      BY <2>1, <3>1, StartMoves DEF StartPc
    <3>3. TypeOK'
      BY <3>1, <3>2 DEF TypeOK, storage
    <3> QED BY <3>2, <3>3
  <2> QED BY <2>2, <2>3
<1>5. CASE Register(k)
  <2> DEFINE o == call[k].obj  t == At(k)  d == call[k].conv
  <2>1. /\ o \in Obj /\ d \in Conv /\ t \in Server /\ call[k].pc = "register"
        /\ obj[o].phase = "starting" /\ obj[o].srv = t /\ obj[o].conv = d
        /\ \A j \in Caller : j # k /\ call[j].pc \in StartPc => call[j].obj # o
    BY <1>1, <1>5 DEF Register, CallersOwn, StartPc, LoadPc
  <2>2. /\ sessions' = [sessions EXCEPT ![t][d] = o]
        /\ SetPhase(o, "live") /\ Return(k, o)
        /\ UNCHANGED <<proc, hub, storage, queue, shut, faults>>
    BY <1>5 DEF Register
  <2> HIDE DEF o, t, d
  <2>3. /\ obj' \in [Obj -> ObjType] /\ obj'[o].phase = "live"
        /\ obj'[o].srv = t /\ obj'[o].conv = d
        /\ \A q \in Obj : q # o => obj'[q] = obj[q]
    BY <1>1, <2>1, <2>2, SetPhaseMoves DEF ObjPhase
  <2>4. /\ call' \in [Caller -> CallType]
        /\ call'[k].pc \notin StartPc /\ call'[k].conv = d
        /\ \A j \in Caller : j # k => call'[j] = call[j]
    BY <1>1, <2>1, <2>2, ReturnMoves DEF StartPc, d
  <2>5. /\ sessions' \in [Server -> [Conv -> Obj \cup {None}]]
        /\ sessions'[t][d] = o
        /\ \A s \in Server, c \in Conv :
             ~(s = t /\ c = d) => sessions'[s][c] = sessions[s][c]
    BY <2>1, <2>2 DEF TypeOK
  <2>6. TypeOK'
    BY <2>2, <2>3, <2>4, <2>5 DEF TypeOK, storage
  <2>7. CallersOwn'
    BY <2>1, <2>3, <2>4 DEF CallersOwn, At
  <2>8. SessionsOwn'
    <3>1. \A s \in Server, c \in Conv : sessions[s][c] # None =>
             sessions[s][c] \in Obj /\ sessions[s][c] # o
      BY <2>1, RunningLive
    <3>2. \A q \in Obj : obj'[q].phase # "free" => obj'[q].srv \in Server /\ obj'[q].conv \in Conv
      BY <2>1, <2>3 DEF SessionsOwn
    <3>3. \A s \in Server, c \in Conv : sessions'[s][c] # None =>
             /\ obj'[sessions'[s][c]].phase = "live"
             /\ obj'[sessions'[s][c]].srv = s
             /\ obj'[sessions'[s][c]].conv = c
      <4> SUFFICES ASSUME NEW s \in Server, NEW c \in Conv, sessions'[s][c] # None
                   PROVE  /\ obj'[sessions'[s][c]].phase = "live"
                          /\ obj'[sessions'[s][c]].srv = s
                          /\ obj'[sessions'[s][c]].conv = c
        OBVIOUS
      <4>1. CASE s = t /\ c = d
        BY <4>1, <2>3, <2>5
      <4>2. CASE ~(s = t /\ c = d)
        BY <4>2, <2>3, <2>5, <3>1, RunningLive
      <4> QED BY <4>1, <4>2
    <3> QED BY <3>2, <3>3 DEF SessionsOwn
  <2> QED BY <2>6, <2>7, <2>8
<1> QED BY <1>2, <1>3, <1>4, <1>5

LEMMA HandlerBase ==
    ASSUME Base, NEW r \in Request,
           \/ NewParticipant(r) \/ AddToPubsub(r) \/ AddListenerRequest(r)
           \/ \E c \in Conv : Arrive(r, c)
    PROVE  Base'
<1> USE DEF Base
<1>1. /\ call \in [Caller -> CallType] /\ obj \in [Obj -> ObjType] /\ r \in Caller
      /\ call[r].conv \in Conv \cup {None}
  BY DEF TypeOK, Caller, CallType
<1>2. ASSUME obj' = [obj EXCEPT ![call[r].obj].joins = @ \cup {r}]
      PROVE  /\ obj' \in [Obj -> ObjType]
             /\ \A q \in Obj : /\ obj'[q].phase = obj[q].phase
                               /\ obj'[q].srv = obj[q].srv
                               /\ obj'[q].conv = obj[q].conv
  BY <1>1, <1>2 DEF ObjType
<1>3. ASSUME call' \in [Caller -> CallType],
             \A j \in Caller : j # r => call'[j] = call[j],
             call'[r].pc \notin LoadPc \cup {"remove"}, UNCHANGED sessions,
             \A q \in Obj : /\ obj'[q].phase = obj[q].phase
                            /\ obj'[q].srv = obj[q].srv
                            /\ obj'[q].conv = obj[q].conv
      PROVE  CallersOwn' /\ SessionsOwn'
  <2>1. CallersOwn'
    BY <1>3 DEF CallersOwn, At, StartPc, LoadPc
  <2>2. SessionsOwn'
    <3>1. \A s \in Server, c \in Conv : sessions[s][c] # None => sessions[s][c] \in Obj
      BY DEF TypeOK
    <3> QED BY <1>3, <3>1 DEF SessionsOwn
  <2> QED BY <2>1, <2>2
<1>4. CASE NewParticipant(r)
  <2>1. /\ call' \in [Caller -> CallType]
        /\ call'[r].pc \notin LoadPc \cup {"remove"}
        /\ \A j \in Caller : j # r => call'[j] = call[j]
    BY <1>1, <1>4, GoToMoves DEF NewParticipant, Pc, RequestPc, LoadPc
  <2>2. TypeOK'
    BY <1>2, <1>4, <2>1 DEF TypeOK, NewParticipant, storage
  <2> QED BY <1>2, <1>3, <1>4, <2>1, <2>2 DEF NewParticipant
<1>5. CASE AddListenerRequest(r)
  <2>1. /\ call' \in [Caller -> CallType]
        /\ call'[r].pc \notin LoadPc \cup {"remove"}
        /\ \A j \in Caller : j # r => call'[j] = call[j]
    BY <1>1, <1>5, EnterMoves DEF AddListenerRequest, Pc, RequestPc, LoadPc
  <2>2. TypeOK'
    BY <1>2, <1>5, <2>1 DEF TypeOK, AddListenerRequest, storage
  <2> QED BY <1>2, <1>3, <1>5, <2>1, <2>2 DEF AddListenerRequest
<1>6. CASE AddToPubsub(r)
  <2> DEFINE pc == IF hub[At(r)][call[r].conv] # None THEN "ok" ELSE "error"
  <2>1. pc \in Pc /\ pc \notin LoadPc \cup {"remove"}
    BY DEF Pc, RequestPc, LoadPc
  <2>2. Enter(r, pc, call[r].conv)
    BY <1>6 DEF AddToPubsub
  <2> HIDE DEF pc
  <2>3. /\ call' \in [Caller -> CallType]
        /\ call'[r].pc \notin LoadPc \cup {"remove"}
        /\ \A j \in Caller : j # r => call'[j] = call[j]
    BY <1>1, <2>1, <2>2, EnterMoves
  <2>4. TypeOK'
    BY <1>6, <2>3 DEF TypeOK, AddToPubsub, storage
  <2> QED BY <1>3, <1>6, <2>3, <2>4 DEF AddToPubsub
<1>7. ASSUME NEW c \in Conv, Arrive(r, c) PROVE Base'
  <2>1. /\ call' \in [Caller -> CallType]
        /\ call'[r].pc = "lookup" /\ call'[r].conv \in Conv
        /\ \A j \in Caller : j # r => call'[j] = call[j]
    BY <1>1, <1>7, EnterMoves DEF Arrive, Pc, LoadPc
  <2>2. TypeOK'
    BY <1>7, <2>1 DEF TypeOK, Arrive, storage
  <2>3. CallersOwn' /\ SessionsOwn'
    BY <1>1, <1>7, <2>1, CallerMoves DEF Arrive, StartPc
  <2> QED BY <2>2, <2>3
<1> QED BY <1>4, <1>5, <1>6, <1>7

LEMMA ShutdownBase ==
    ASSUME Base, NEW s \in Server,
           \/ Interrupt(s) \/ LoopDone(s) \/ QueueSuspended(s)
           \/ \E c \in Conv : ShutdownSession(s, c)
    PROVE  Base'
<1> USE DEF Base
<1>1. shut \in [Server -> ShutType] /\ shut[s] \in ShutType
  BY DEF TypeOK
<1>2. ASSUME UNCHANGED <<obj, sessions, call>> PROVE CallersOwn' /\ SessionsOwn'
  <2>1. CallersOwn'
    BY <1>2 DEF CallersOwn, At
  <2>2. SessionsOwn'
    BY <1>2 DEF SessionsOwn
  <2> QED BY <2>1, <2>2
<1>3. CASE Interrupt(s)
  <2>1. Registered(s) \in SUBSET Conv /\ Cardinality(Registered(s)) \in Nat
    <3>1. Registered(s) \subseteq Conv
      BY DEF Registered
    <3> QED BY <3>1, FiniteConversations, FS_Subset, FS_CardinalityType
  <2>2. [toStop |-> Registered(s), looping |-> Registered(s) # {},
         left |-> Cardinality(Registered(s)), completed |-> <<>>] \in ShutType
    BY <2>1, EmptySeq DEF ShutType
  <2>3. shut' \in [Server -> ShutType]
    BY <1>1, <1>3, <2>2 DEF Interrupt
  <2>4. TypeOK'
    BY <1>3, <2>3 DEF TypeOK, Interrupt, storage
  <2> QED BY <1>2, <1>3, <2>4 DEF Interrupt
<1>4. CASE LoopDone(s)
  <2>1. [shut[s] EXCEPT !.looping = FALSE] \in ShutType
    BY <1>1 DEF ShutType
  <2>2. shut' \in [Server -> ShutType]
    BY <1>1, <1>4, <2>1 DEF LoopDone
  <2>3. TypeOK'
    BY <1>4, <2>2 DEF TypeOK, LoopDone, storage
  <2> QED BY <1>2, <1>4, <2>3 DEF LoopDone
<1>5. CASE QueueSuspended(s)
  <2> DEFINE done == shut[s].completed
  <2>1. /\ done \in Seq(Conv) /\ done # <<>> /\ shut[s].left \in Nat \ {0}
        /\ queue \in Seq(Conv)
    BY <1>1, <1>5 DEF QueueSuspended, ShutType, TypeOK
  <2>2. Head(done) \in Conv /\ Tail(done) \in Seq(Conv) /\ shut[s].left - 1 \in Nat
    BY <2>1
  <2>3. queue' \in Seq(Conv)
    <3>1. <<Head(done)>> \in Seq(Conv)
      BY <2>2
    <3>2. <<Head(done)>> \o queue \in Seq(Conv)
      BY <2>1, <3>1
    <3>3. queue' = <<Head(done)>> \o queue \/ queue' = queue
      BY <1>5 DEF QueueSuspended
    <3> QED BY <2>1, <3>2, <3>3
  <2>4. [shut[s] EXCEPT !.left = @ - 1, !.completed = Tail(@)] \in ShutType
    BY <1>1, <2>2 DEF ShutType
  <2>5. shut' \in [Server -> ShutType]
    BY <1>1, <1>5, <2>4 DEF QueueSuspended
  <2>6. TypeOK'
    BY <1>5, <2>3, <2>5 DEF TypeOK, QueueSuspended, storage, Fault
  <2> QED BY <1>2, <1>5, <2>6 DEF QueueSuspended
<1>6. ASSUME NEW c \in Conv, ShutdownSession(s, c) PROVE Base'
  <2> DEFINE o == sessions[s][c]
  <2>1. /\ o \in Obj /\ obj \in [Obj -> ObjType]
        /\ obj[o].phase = "live" /\ obj[o].srv = s /\ obj[o].conv = c
    BY <1>6 DEF ShutdownSession, TypeOK, SessionsOwn
  <2> HIDE DEF o
  <2>2. SetPhase(o, "grace")
    BY <1>6 DEF ShutdownSession, o
  <2>3. /\ obj' \in [Obj -> ObjType] /\ obj'[o].phase = "grace"
        /\ obj'[o].srv = s /\ obj'[o].conv = c
        /\ \A q \in Obj : q # o => obj'[q] = obj[q]
    BY <2>1, <2>2, SetPhaseMoves DEF ObjPhase
  <2>4. [shut[s] EXCEPT !.toStop = @ \ {c}] \in ShutType
    BY <1>1 DEF ShutType
  <2>5. shut' \in [Server -> ShutType]
    BY <1>1, <1>6, <2>4 DEF ShutdownSession
  <2>6. /\ sessions' \in [Server -> [Conv -> Obj \cup {None}]]
        /\ sessions'[s][c] = None
        /\ \A t \in Server, d \in Conv : ~(t = s /\ d = c) => sessions'[t][d] = sessions[t][d]
    BY <1>6 DEF ShutdownSession, TypeOK
  <2>7. TypeOK'
    BY <1>6, <2>3, <2>5, <2>6 DEF TypeOK, ShutdownSession, storage
  <2>8. CallersOwn'
    BY <1>6, <2>1, <2>3 DEF ShutdownSession, CallersOwn, At
  <2>9. SessionsOwn'
    <3>1. \A t \in Server, d \in Conv : sessions[t][d] # None =>
             /\ sessions[t][d] \in Obj
             /\ sessions[t][d] = o => t = s /\ d = c
      BY <2>1, RunningLive
    <3> QED BY <2>1, <2>3, <2>6, <3>1 DEF SessionsOwn
  <2> QED BY <2>7, <2>8, <2>9
<1> QED BY <1>3, <1>4, <1>5, <1>6

LEMMA GraceBase ==
    ASSUME Base, NEW o \in Obj, EndGrace(o) \/ SaveState(o)
    PROVE  Base'
<1> USE DEF Base
<1> DEFINE s == obj[o].srv  c == obj[o].conv
<1>1. /\ obj \in [Obj -> ObjType] /\ obj[o].phase \in {"grace", "ended"}
      /\ s \in Server /\ c \in Conv
  BY DEF TypeOK, SessionsOwn, EndGrace, SaveState
<1>2. ASSUME obj' \in [Obj -> ObjType], \A q \in Obj : q # o => obj'[q] = obj[q],
             \/ obj'[o].phase = "free"
             \/ obj'[o].srv = s /\ obj'[o].conv = c,
             UNCHANGED <<sessions, call>>
      PROVE  CallersOwn' /\ SessionsOwn'
  <2>1. CallersOwn'
    BY <1>1, <1>2 DEF CallersOwn, At
  <2>2. SessionsOwn'
    <3>1. \A t \in Server, d \in Conv : sessions[t][d] # None =>
             sessions[t][d] \in Obj /\ sessions[t][d] # o
      BY <1>1, RunningLive
    <3> QED BY <1>1, <1>2, <3>1 DEF SessionsOwn
  <2> QED BY <2>1, <2>2
<1>3. CASE EndGrace(o)
  <2>1. /\ obj' \in [Obj -> ObjType]
        /\ obj'[o].srv = s /\ obj'[o].conv = c
        /\ \A q \in Obj : q # o => obj'[q] = obj[q]
    BY <1>1, <1>3, SetPhaseMoves DEF EndGrace, ObjPhase
  <2>2. hub' \in [Server -> [Conv -> Obj \cup {None}]]
    BY <1>1, <1>3 DEF EndGrace, TypeOK
  <2>3. TypeOK'
    BY <1>3, <2>1, <2>2 DEF TypeOK, EndGrace, storage
  <2> QED BY <1>2, <1>3, <2>1, <2>3 DEF EndGrace
<1>4. CASE SaveState(o)
  <2>1. [obj[o] EXCEPT !.phase = "saved"] \in ObjType /\ NoSession \in ObjType
    BY <1>1 DEF ObjType, ObjPhase, NoSession
  <2>2. /\ obj' \in [Obj -> ObjType]
        /\ \A q \in Obj : q # o => obj'[q] = obj[q]
        /\ obj'[o] \in {NoSession, [obj[o] EXCEPT !.phase = "saved"]}
    BY <1>1, <1>4, <2>1 DEF SaveState
  <2>3. obj'[o].phase = "free" \/ (obj'[o].srv = s /\ obj'[o].conv = c)
    BY <1>1, <2>2 DEF NoSession, ObjType
  <2>4. stored' \in SUBSET Conv /\ image' \in [Conv -> SUBSET Request]
    <3>1. obj[o].joins \in SUBSET Request /\ stored \in SUBSET Conv
          /\ image \in [Conv -> SUBSET Request]
      BY <1>1 DEF TypeOK, ObjType
    <3> QED BY <1>1, <1>4, <3>1 DEF SaveState, storage
  <2>5. shut' \in [Server -> ShutType]
    <3>1. shut \in [Server -> ShutType] /\ shut[s].completed \in Seq(Conv)
      BY <1>1 DEF TypeOK, ShutType
    <3>2. Append(shut[s].completed, c) \in Seq(Conv)
      BY <1>1, <3>1
    <3>3. [shut[s] EXCEPT !.completed = Append(@, c)] \in ShutType
      BY <1>1, <3>1, <3>2 DEF ShutType
    <3> QED BY <1>4, <3>1, <3>3 DEF SaveState
  <2>6. TypeOK'
    BY <1>4, <2>2, <2>4, <2>5 DEF TypeOK, SaveState, Fault
  <2>7. UNCHANGED <<sessions, call>>
    BY <1>4 DEF SaveState
  <2> QED BY <1>2, <2>2, <2>3, <2>6, <2>7
<1> QED BY <1>3, <1>4

LEMMA DieBase ==
    ASSUME Base, NEW s \in Server, Crash(s) \/ Exit(s)
    PROVE  Base'
<1>1. Die(s) /\ faults' \in Nat
  BY DEF Base, TypeOK, Crash, Exit, Fault
<1>2. TypeOK'
  BY <1>1, DieMoves DEF Base
<1>3. \A k \in Caller : call'[k].pc = "cut" \/ (call'[k] = call[k]
                /\ (At(k) = s => call[k].pc \in {"idle", "ok", "asked", "error"}))
  BY <1>1, DieMoves DEF Base
<1>4. \A o \in Obj : IF obj[o].srv = s THEN obj'[o] = NoSession ELSE obj'[o] = obj[o]
  BY <1>1, DieMoves DEF Base
<1>5. \A t \in Server, c \in Conv :
        sessions'[t][c] = IF t = s THEN None ELSE sessions[t][c]
  BY <1>1, DieMoves DEF Base
<1>6. CallersOwn'
  <2>1. \A k \in Caller : call'[k].pc \in LoadPc \cup {"remove"} =>
           call'[k] = call[k] /\ At(k) # s
    BY <1>3 DEF LoadPc
  <2>2. \A k \in Caller : At(k)' = At(k)
    BY DEF At
  <2> QED BY <1>4, <2>1, <2>2 DEF Base, CallersOwn, StartPc, LoadPc
<1>7. SessionsOwn'
  <2>1. \A t \in Server, c \in Conv : sessions[t][c] # None => sessions[t][c] \in Obj
    BY RunningLive
  <2> QED BY <1>4, <1>5, <2>1 DEF Base, SessionsOwn, NoSession
<1> QED BY <1>2, <1>6, <1>7 DEF Base

LEMMA BaseStep == Base /\ [Next]_vars => Base'
<1> SUFFICES ASSUME Base, [Next]_vars PROVE Base'
  OBVIOUS
<1>1. CASE UNCHANGED vars
  BY <1>1 DEF vars, storage, Base, TypeOK, CallersOwn, SessionsOwn, At
<1>2. ASSUME NEW s \in Server, Startup(s) \/ Crash(s) \/ Interrupt(s) \/ ShutdownAll(s)
                               \/ TakeSuspended(s) \/ StopLoading(s) \/ RemoveSuspended(s)
      PROVE  Base'
  BY <1>2, LoaderBase, DieBase, ShutdownBase DEF ShutdownAll
<1>3. ASSUME NEW k \in Caller, GetSession(k) PROVE Base'
  BY <1>3, ReadBase, StartBase DEF GetSession
<1>4. ASSUME NEW r \in Request, Handler(r) \/ \E c \in Conv : Arrive(r, c) PROVE Base'
  BY <1>3, <1>4, HandlerBase DEF Handler, Caller
<1>5. ASSUME NEW o \in Obj, Grace(o) PROVE Base'
  BY <1>5, GraceBase DEF Grace
<1> QED BY <1>1, <1>2, <1>3, <1>4, <1>5 DEF Next, Loader, Caller

(* Every variable keeps its type in every execution of the code, whatever  *)
(* fails and however loads overlap.                                        *)
THEOREM TypeCorrect == Spec => []TypeOK
<1>1. Base => TypeOK
  BY DEF Base
<1> QED BY <1>1, BaseInit, BaseStep, PTL DEF Spec

-----------------------------------------------------------------------------
(* A session is in one place, and hears its participants *)

(* What the four properties below say together, beside Base.               *)
Alone == LoadConsumes /\ OnePlace /\ HubOwner /\ HubFeedsSession

(* Only caller k moves. *)
OnlyMoves(k) == \A j \in Caller : j # k => call'[j] = call[j]

(* No session value changes hands: participants may join.                  *)
SameHands == \A o \in Obj : /\ obj'[o].phase = obj[o].phase
                            /\ obj'[o].srv = obj[o].srv
                            /\ obj'[o].conv = obj[o].conv

(* A session value leaves the hands of its holder. *)
SetFree(p) == /\ obj'[p].phase \notin {"starting", "live", "grace", "ended"}
              /\ \A o \in Obj : o # p => obj'[o] = obj[o]

(* The values of hub and sessions that are not None are session values. *)
LEMMA HubType ==
    ASSUME Base
    PROVE  /\ \A s \in Server, c \in Conv : hub[s][c] # None => hub[s][c] \in Obj
           /\ \A k \in Caller : call[k].pc \in StartPc =>
                /\ call[k].obj \in Obj /\ call[k].obj # None
                /\ call[k].conv \in Conv /\ At(k) \in Server
                /\ Holds(call[k].obj) /\ obj[call[k].obj].conv = call[k].conv
<1>1. hub \in [Server -> [Conv -> Obj \cup {None}]]
  BY DEF Base, TypeOK
<1>2. \A s \in Server, c \in Conv : hub[s][c] # None => hub[s][c] \in Obj
  BY <1>1
<1>3. \A k \in Caller : call[k].pc \in StartPc =>
                /\ call[k].obj \in Obj
                /\ call[k].conv \in Conv /\ At(k) \in Server
                /\ Holds(call[k].obj) /\ obj[call[k].obj].conv = call[k].conv
  BY CallerAt DEF Base, CallersOwn, StartPc, LoadPc, Holds
<1> QED BY <1>2, <1>3, NoneIsNothing

(* A step that gives nobody a session to load, start, run or save keeps    *)
(* each session where it is.                                               *)
LEMMA StillAlone ==
    ASSUME Alone,
           \A j \in Caller : call'[j] = call[j]
             \/ call'[j].pc \notin {"delete", "getConversation"} \cup StartPc,
           \A o \in Obj : Holds(o)' => /\ Holds(o)
                                       /\ obj'[o].srv = obj[o].srv
                                       /\ obj'[o].conv = obj[o].conv
                                       /\ (obj'[o].phase = "ended" => obj[o].phase = "ended"),
           UNCHANGED <<hub, stored>>
    PROVE  LoadConsumes' /\ OnePlace' /\ HubOwner'
<1>1. \A j \in Caller : At(j)' = At(j)
  BY DEF At
<1>2. LoadConsumes'
  BY DEF Alone, LoadConsumes
<1>3. OnePlace'
  BY DEF Alone, OnePlace
<1>4. HubOwner'
  BY <1>1 DEF Alone, HubOwner, StartPc
<1> QED BY <1>2, <1>3, <1>4

(* A caller that goes where it has nothing to load or start, with its      *)
(* session value freed or not.                                             *)
LEMMA AwayAlone ==
    ASSUME Alone, NEW k \in Caller, OnlyMoves(k),
           call'[k] = call[k] \/ call'[k].pc \notin {"delete", "getConversation"} \cup StartPc,
           SameHands \/ \E p \in Obj : SetFree(p),
           UNCHANGED <<sessions, hub, stored>>
    PROVE  Alone'
<1>1. \A j \in Caller : call'[j] = call[j]
        \/ call'[j].pc \notin {"delete", "getConversation"} \cup StartPc
  BY DEF OnlyMoves
<1>2. \A o \in Obj : Holds(o)' => /\ Holds(o)
                                  /\ obj'[o].srv = obj[o].srv
                                  /\ obj'[o].conv = obj[o].conv
                                  /\ (obj'[o].phase = "ended" => obj[o].phase = "ended")
  BY DEF Holds, SameHands, SetFree
<1>3. LoadConsumes' /\ OnePlace' /\ HubOwner'
  BY <1>1, <1>2, StillAlone
<1>4. HubFeedsSession'
  BY DEF Alone, HubFeedsSession
<1> QED BY <1>3, <1>4 DEF Alone

LEMMA LoaderAlone ==
    ASSUME Base, Alone, NEW s \in Server,
           Startup(s) \/ TakeSuspended(s) \/ StopLoading(s) \/ RemoveSuspended(s)
    PROVE  Alone'
<1>1. call \in [Caller -> CallType] /\ s \in Caller
  BY DEF Base, TypeOK, Caller
<1>2. SameHands /\ UNCHANGED <<sessions, hub, stored>>
  BY DEF SameHands, Startup, TakeSuspended, StopLoading, RemoveSuspended, storage
<1>3. OnlyMoves(s) /\ call'[s].pc \in {"wait", "lookup", "stopped"}
  <2>1. CASE Startup(s)
    BY <1>1, <2>1 DEF Startup, GoTo, OnlyMoves, CallType
  <2>2. CASE TakeSuspended(s)
    BY <1>1, <2>2 DEF TakeSuspended, Enter, Idle, OnlyMoves
  <2>3. CASE StopLoading(s)
    BY <1>1, <2>3 DEF StopLoading, Enter, Idle, OnlyMoves
  <2>4. CASE RemoveSuspended(s)
    BY <1>1, <2>4 DEF RemoveSuspended, Enter, Idle, OnlyMoves
  <2> QED BY <2>1, <2>2, <2>3, <2>4
<1> QED BY <1>1, <1>2, <1>3, AwayAlone DEF StartPc

LEMMA LookupAlone ==
    ASSUME Base, Alone, NEW k \in Caller, Lookup(k)
    PROVE  Alone'
<1>1. /\ call \in [Caller -> CallType] /\ At(k) \in Server /\ call[k].conv \in Conv
      /\ sessions[At(k)][call[k].conv] \in Obj \cup {None}
  BY CallerAt DEF Base, TypeOK, CallersOwn, Lookup, LoadPc
<1>2. SameHands /\ UNCHANGED <<sessions, hub, stored>>
  BY DEF SameHands, Lookup, storage
<1>3. OnlyMoves(k) /\ call'[k].pc \notin {"delete", "getConversation"} \cup StartPc
  <2>1. CASE Return(k, sessions[At(k)][call[k].conv])
    BY <1>1, <2>1, ReturnMoves DEF OnlyMoves, StartPc
  <2>2. CASE GoTo(k, "fetch")
    BY <1>1, <2>2 DEF GoTo, OnlyMoves, StartPc, CallType
  <2> QED BY <2>1, <2>2 DEF Lookup
<1> QED BY <1>2, <1>3, AwayAlone

(* The read of a saved state: nobody else holds the conversation. *)
LEMMA FetchAlone ==
    ASSUME Base, Alone, NEW k \in Caller, FetchState(k)
    PROVE  Alone'
<1>1. call \in [Caller -> CallType]
  BY DEF Base, TypeOK
<1>2. UNCHANGED <<obj, sessions, hub, stored>>
  BY DEF FetchState, storage
<1>3. CASE Return(k, None)
  <2>1. OnlyMoves(k) /\ call'[k].pc \notin {"delete", "getConversation"} \cup StartPc
    BY <1>1, <1>3, ReturnMoves DEF OnlyMoves, StartPc
  <2> QED BY <1>2, <2>1, AwayAlone DEF SameHands
<1>4. CASE ~Return(k, None)
  <2>1. /\ call[k].conv \in stored
        /\ call'[k].pc = "delete" /\ call'[k].conv = call[k].conv
        /\ \A j \in Caller : j # k => call'[j] = call[j]
    BY <1>1, <1>4 DEF FetchState, CallType
  <2>2. LoadConsumes'
    BY <1>2, <2>1 DEF Alone, LoadConsumes
  <2>3. OnePlace'
    BY <1>2, <2>1 DEF Alone, OnePlace, Holds
  <2>4. HubOwner'
    BY <1>2, <2>1 DEF Alone, HubOwner, Holds, At
  <2>5. HubFeedsSession'
    BY <1>2 DEF Alone, HubFeedsSession
  <2> QED BY <2>2, <2>3, <2>4, <2>5 DEF Alone
<1> QED BY <1>3, <1>4

(* The delete: the conversation is now in the hands of one caller.  This   *)
(* needs a delete that cannot fail unnoticed, and loads that are apart.    *)
LEMMA DeleteAlone ==
    ASSUME Base, Alone, LoadsApart, "delete" \notin Faults, NEW k \in Caller,
           DeleteState(k)
    PROVE  Alone'
<1>1. call \in [Caller -> CallType]
  BY DEF Base, TypeOK
<1>2. /\ UNCHANGED <<obj, sessions, hub>>
      /\ stored' = stored \ {call[k].conv}
      /\ call[k].pc = "delete"
      /\ call'[k].pc = "getConversation" /\ call'[k].conv = call[k].conv
      /\ \A j \in Caller : j # k => call'[j] = call[j]
  BY <1>1 DEF DeleteState, Fault, GoTo, CallType
<1>3. LoadConsumes'
  BY <1>2 DEF Alone, LoadConsumes, LoadsApart
<1>4. OnePlace'
  BY <1>2 DEF Alone, OnePlace, Holds
<1>5. HubOwner'
  BY <1>2 DEF Alone, HubOwner, Holds, At
<1>6. HubFeedsSession'
  BY <1>2 DEF Alone, HubFeedsSession
<1> QED BY <1>3, <1>4, <1>5, <1>6 DEF Alone

(* A new session value takes over from the caller that loaded its state.   *)
LEMMA MakeAlone ==
    ASSUME Base, Alone, NEW k \in Caller, MakeSession(k)
    PROVE  Alone'
<1>1. call \in [Caller -> CallType] /\ obj \in [Obj -> ObjType]
  BY DEF Base, TypeOK
<1>2. call[k].pc = "getConversation" /\ UNCHANGED <<sessions, hub, stored>>
  BY DEF MakeSession, storage
<1>3. CASE Return(k, None) /\ UNCHANGED obj
  <2>1. OnlyMoves(k) /\ call'[k].pc \notin {"delete", "getConversation"} \cup StartPc
    BY <1>1, <1>3, ReturnMoves DEF OnlyMoves, StartPc
  <2> QED BY <1>2, <1>3, <2>1, AwayAlone DEF SameHands
<1>4. CASE ~(Return(k, None) /\ UNCHANGED obj)
  <2> DEFINE o == CHOOSE q \in Phase("free") : TRUE
             c == call[k].conv
             new == [phase |-> "starting", srv |-> At(k),
                     conv |-> call[k].conv, joins |-> call[k].joins]
  <2>1. /\ o \in Obj /\ obj[o].phase = "free"
        /\ obj' = [obj EXCEPT ![o] = new]
        /\ call' = [call EXCEPT ![k] = [@ EXCEPT !.pc = "startPubsub", !.obj = o]]
    BY <1>4, FreshIsFree DEF MakeSession
  <2> HIDE DEF o
  <2>2. /\ obj'[o].phase = "starting" /\ obj'[o].srv = At(k) /\ obj'[o].conv = c
        /\ \A q \in Obj : q # o => obj'[q] = obj[q]
    BY <1>1, <2>1
  <2>3. /\ call'[k].pc = "startPubsub" /\ call'[k].conv = c /\ call'[k].obj = o
        /\ \A j \in Caller : j # k => call'[j] = call[j]
    BY <1>1, <2>1 DEF CallType
  <2> HIDE DEF new
  <2>4. /\ c \notin stored
        /\ \A q \in Obj : Holds(q) => obj[q].conv # c
        /\ \A s \in Server : c \in Conv => hub[s][c] = None
        /\ \A j \in Caller : j # k /\ call[j].pc \in {"delete", "getConversation"}
                            => call[j].conv # c
    BY <1>2 DEF Alone, LoadConsumes, OnePlace, HubOwner
  <2> HIDE DEF c
  <2>5. \A q \in Obj : /\ q # o => (Holds(q)' <=> Holds(q))
                      /\ ~Holds(o)
    BY <2>1, <2>2 DEF Holds
  <2>6. LoadConsumes'
    BY <1>2, <2>3 DEF Alone, LoadConsumes
  <2>7. OnePlace'
    BY <1>2, <2>2, <2>3, <2>4, <2>5 DEF Alone, OnePlace
  <2>8. HubOwner'
    <3>1. \A j \in Caller : At(j)' = At(j)
      BY DEF At
    <3>2. \A s \in Server, d \in Conv : hub[s][d] # None =>
            /\ d # c /\ d \notin stored'
            /\ \A j \in Caller : call'[j].pc \in {"delete", "getConversation"}
                                => call'[j].conv # d
            /\ \A j \in Caller : call'[j].pc = "startPubsub" /\ call'[j].conv = d
                                => call'[j].obj # hub[s][d]
            /\ \A q \in Obj : Holds(q)' /\ obj'[q].conv = d =>
                 q = hub[s][d] /\ obj'[q].srv = s /\ obj'[q].phase # "ended"
      BY <1>2, <2>2, <2>3, <2>4, <2>5 DEF Alone, HubOwner
    <3>3. \A j \in Caller : call'[j].pc \in {"addParticipants", "register"} =>
            call'[j] = call[j]
      BY <2>3
    <3> QED BY <1>2, <3>1, <3>2, <3>3 DEF Alone, HubOwner
  <2>9. HubFeedsSession'
    BY <1>2 DEF Alone, HubFeedsSession
  <2> QED BY <2>6, <2>7, <2>8, <2>9 DEF Alone
<1> QED BY <1>3, <1>4

(* A start that fails frees a session value and leaves the rest alone. *)
LEMMA GiveUpAlone ==
    ASSUME Base, Alone, NEW k \in Caller, call[k].pc \in StartPc, GiveUp(k),
           UNCHANGED <<sessions, hub, stored>>
    PROVE  Alone'
<1>1. call \in [Caller -> CallType] /\ obj \in [Obj -> ObjType]
  BY DEF Base, TypeOK
<1>2. OnlyMoves(k) /\ call'[k].pc \notin {"delete", "getConversation"} \cup StartPc
  BY <1>1, ReturnMoves DEF GiveUp, OnlyMoves, StartPc
<1>3. call[k].obj \in Obj /\ SetFree(call[k].obj)
  BY <1>1, HubType DEF GiveUp, SetFree, NoSession
<1> QED BY <1>2, <1>3, AwayAlone

(* The pubsub start: there is no other pubsub session of the conversation  *)
(* on the server, so the new one feeds the channels of the starter.        *)
LEMMA PubsubAlone ==
    ASSUME Base, Alone, NEW k \in Caller, StartPubsub(k)
    PROVE  Alone'
<1>1. /\ call \in [Caller -> CallType] /\ call[k].pc = "startPubsub"
      /\ call[k].pc \in StartPc /\ UNCHANGED <<sessions, stored>>
  BY DEF Base, TypeOK, StartPubsub, StartPc, storage
<1>2. CASE GiveUp(k) /\ UNCHANGED hub
  BY <1>1, <1>2, GiveUpAlone
<1>3. CASE ~(GiveUp(k) /\ UNCHANGED hub)
  <2> DEFINE o == call[k].obj  s == At(k)  c == call[k].conv
  <2>1. o \in Obj /\ o # None /\ c \in Conv /\ s \in Server /\ Holds(o)
        /\ obj[o].conv = c /\ obj[o].srv = s /\ obj[o].phase = "starting"
    BY <1>1, HubType DEF Base, CallersOwn
  <2>2. \A t \in Server : hub[t][c] = None
    BY <1>1, <2>1 DEF Alone, HubOwner
  <2>3. /\ hub'[s][c] = o
        /\ \A t \in Server, d \in Conv : ~(t = s /\ d = c) => hub'[t][d] = hub[t][d]
    <3>1. hub' = [hub EXCEPT ![s][c] = IF @ = None THEN o ELSE @]
      BY <1>3 DEF StartPubsub
    <3>2. hub \in [Server -> [Conv -> Obj \cup {None}]]
      BY DEF Base, TypeOK
    <3> HIDE DEF s, c, o
    <3> QED BY <2>1, <2>2, <3>1, <3>2
  <2>4. /\ call'[k].pc = "addParticipants" /\ call'[k].conv = c /\ call'[k].obj = o
        /\ \A j \in Caller : j # k => call'[j] = call[j]
        /\ UNCHANGED obj
    BY <1>1, <1>3 DEF StartPubsub, GoTo, CallType
  <2>5. \A j \in Caller : call[j].pc \in {"addParticipants", "register"} => call[j].conv # c
    BY <2>2, <2>1, HubType DEF Alone, HubOwner, StartPc
  <2>6. \A j \in Caller : j # k /\ call[j].pc = "startPubsub" => call[j].obj # o
    BY <1>1 DEF Base, CallersOwn, StartPc
  <2>7. \A q \in Obj : Holds(q) /\ obj[q].conv = c => q = o
    BY <2>1 DEF Alone, OnePlace
  <2>8. s = At(k) /\ \A j \in Caller : At(j)' = At(j)
    BY DEF At
  <2>9. c \notin stored /\ \A j \in Caller :
          call[j].pc \in {"delete", "getConversation"} => call[j].conv # c
    BY <2>1 DEF Alone, OnePlace
  <2> HIDE DEF o, s, c
  <2>10. LoadConsumes' /\ OnePlace'
    BY <1>1, <2>4 DEF Alone, LoadConsumes, OnePlace, Holds
  <2>11. HubOwner'
    <3>1. ASSUME NEW t \in Server, NEW d \in Conv, hub'[t][d] # None
          PROVE  /\ d \notin stored'
                 /\ \A j \in Caller : call'[j].pc \in {"delete", "getConversation"}
                                     => call'[j].conv # d
                 /\ \A j \in Caller : call'[j].pc = "startPubsub" /\ call'[j].conv = d
                                     => call'[j].obj # hub'[t][d]
                 /\ \A q \in Obj : Holds(q)' /\ obj'[q].conv = d =>
                      q = hub'[t][d] /\ obj'[q].srv = t /\ obj'[q].phase # "ended"
      <4>1. CASE t = s /\ d = c
        BY <1>1, <2>1, <2>3, <2>4, <2>6, <2>7, <2>9, <4>1 DEF Holds
      <4>2. CASE ~(t = s /\ d = c)
        BY <1>1, <2>3, <2>4, <3>1, <4>2 DEF Alone, HubOwner, Holds
      <4> QED BY <4>1, <4>2
    <3>2. \A j \in Caller : call'[j].pc \in {"addParticipants", "register"} =>
             hub'[At(j)][call'[j].conv] = call'[j].obj
      <4>1. \A j \in Caller : j # k /\ call[j].pc \in {"addParticipants", "register"} =>
              call[j].conv # c /\ call[j].conv \in Conv /\ At(j) \in Server
              /\ hub[At(j)][call[j].conv] = call[j].obj
        BY <2>5, HubType DEF Alone, HubOwner, StartPc
      <4> QED BY <2>3, <2>4, <2>8, <4>1
    <3> QED BY <2>8, <3>1, <3>2 DEF HubOwner
  <2>12. HubFeedsSession'
    <3>1. \A t \in Server, d \in Conv : sessions[t][d] # None => hub[t][d] # None
      BY DEF Alone, HubFeedsSession
    <3>2. sessions[s][c] = None
      BY <2>1, <2>2, <3>1
    <3> QED BY <1>1, <2>3, <3>2 DEF Alone, HubFeedsSession
  <2> QED BY <2>10, <2>11, <2>12 DEF Alone
<1> QED BY <1>2, <1>3

LEMMA AddAlone ==
    ASSUME Base, Alone, NEW k \in Caller, AddParticipants(k)
    PROVE  Alone'
<1>1. /\ call \in [Caller -> CallType] /\ call[k].pc = "addParticipants"
      /\ call[k].pc \in StartPc /\ UNCHANGED <<sessions, hub, stored>>
  BY DEF Base, TypeOK, AddParticipants, StartPc, storage
<1>2. CASE GiveUp(k)
  BY <1>1, <1>2, GiveUpAlone
<1>3. CASE ~GiveUp(k)
  <2>1. /\ call'[k].pc = "register" /\ call'[k].conv = call[k].conv
        /\ call'[k].obj = call[k].obj /\ UNCHANGED obj
        /\ \A j \in Caller : j # k => call'[j] = call[j]
    BY <1>1, <1>3 DEF AddParticipants, GoTo, CallType
  <2>2. \A j \in Caller : At(j)' = At(j)
    BY DEF At
  <2>3. LoadConsumes' /\ OnePlace'
    BY <1>1, <2>1 DEF Alone, LoadConsumes, OnePlace, Holds
  <2>4. HubOwner'
    BY <1>1, <2>1, <2>2 DEF Alone, HubOwner, Holds
  <2>5. HubFeedsSession'
    BY <1>1 DEF Alone, HubFeedsSession
  <2> QED BY <2>3, <2>4, <2>5 DEF Alone
<1> QED BY <1>2, <1>3

(* The registration: the pubsub session feeds the session registered. *)
LEMMA RegisterAlone ==
    ASSUME Base, Alone, NEW k \in Caller, Register(k)
    PROVE  Alone'
<1> DEFINE o == call[k].obj  s == At(k)  c == call[k].conv
<1>1. /\ call \in [Caller -> CallType] /\ obj \in [Obj -> ObjType]
      /\ call[k].pc = "register" /\ call[k].pc \in StartPc
  BY DEF Base, TypeOK, Register, StartPc
<1>2. /\ o \in Obj /\ o # None /\ c \in Conv /\ s \in Server /\ Holds(o)
      /\ obj[o].conv = c /\ obj[o].srv = s /\ obj[o].phase = "starting"
      /\ hub[s][c] = o
  BY <1>1, HubType DEF Base, CallersOwn, Alone, HubOwner
<1>3. /\ sessions' = [sessions EXCEPT ![s][c] = o]
      /\ SetPhase(o, "live") /\ Return(k, o) /\ UNCHANGED <<hub, stored>>
  BY DEF Register, storage
<1>4. OnlyMoves(k) /\ call'[k].pc \notin {"delete", "getConversation"} \cup StartPc
  BY <1>1, <1>2, <1>3, ReturnMoves DEF OnlyMoves, StartPc
<1> HIDE DEF o, s, c
<1>6. /\ sessions'[s][c] = o
      /\ \A t \in Server, d \in Conv : ~(t = s /\ d = c) => sessions'[t][d] = sessions[t][d]
  <2>1. sessions \in [Server -> [Conv -> Obj \cup {None}]]
    BY DEF Base, TypeOK
  <2> QED BY <1>2, <1>3, <2>1
<1>7. /\ obj'[o].phase = "live" /\ obj'[o].srv = s /\ obj'[o].conv = c
      /\ \A q \in Obj : q # o => obj'[q] = obj[q]
  BY <1>1, <1>2, <1>3, SetPhaseMoves DEF ObjPhase
<1>8. \A q \in Obj : Holds(q)' => /\ Holds(q)
                                  /\ obj'[q].srv = obj[q].srv
                                  /\ obj'[q].conv = obj[q].conv
                                  /\ (obj'[q].phase = "ended" => obj[q].phase = "ended")
  BY <1>2, <1>7 DEF Holds
<1>9. \A j \in Caller : call'[j] = call[j]
        \/ call'[j].pc \notin {"delete", "getConversation"} \cup StartPc
  BY <1>4 DEF OnlyMoves
<1>10. LoadConsumes' /\ OnePlace' /\ HubOwner'
  BY <1>3, <1>8, <1>9, StillAlone
<1>11. HubFeedsSession'
  BY <1>2, <1>3, <1>6 DEF Alone, HubFeedsSession
<1> QED BY <1>10, <1>11 DEF Alone

LEMMA HandlerAlone ==
    ASSUME Base, Alone, NEW r \in Request,
           \/ NewParticipant(r) \/ AddToPubsub(r) \/ AddListenerRequest(r)
           \/ \E c \in Conv : Arrive(r, c)
    PROVE  Alone'
<1>1. call \in [Caller -> CallType] /\ obj \in [Obj -> ObjType] /\ r \in Caller
  BY DEF Base, TypeOK, Caller
<1>2. UNCHANGED <<sessions, hub, stored>>
  BY DEF NewParticipant, AddToPubsub, AddListenerRequest, Arrive, storage
<1>3. SameHands
  <2>1. ASSUME obj' = [obj EXCEPT ![call[r].obj].joins = @ \cup {r}] PROVE SameHands
    BY <1>1, <2>1 DEF SameHands, ObjType
  <2>2. ASSUME UNCHANGED obj PROVE SameHands
    BY <2>2 DEF SameHands
  <2> QED BY <2>1, <2>2 DEF NewParticipant, AddToPubsub, AddListenerRequest, Arrive
<1>4. OnlyMoves(r) /\ call'[r].pc \in {"addToPubsub", "ok", "error", "asked", "lookup"}
  <2>1. CASE NewParticipant(r)
    BY <1>1, <2>1 DEF NewParticipant, GoTo, OnlyMoves, CallType
  <2>2. CASE AddToPubsub(r)
    BY <1>1, <2>2 DEF AddToPubsub, Enter, Idle, OnlyMoves
  <2>3. CASE AddListenerRequest(r)
    BY <1>1, <2>3 DEF AddListenerRequest, Enter, Idle, OnlyMoves
  <2>4. ASSUME NEW c \in Conv, Arrive(r, c)
        PROVE  OnlyMoves(r) /\ call'[r].pc = "lookup"
    BY <1>1, <2>4 DEF Arrive, Enter, Idle, OnlyMoves
  <2> QED BY <2>1, <2>2, <2>3, <2>4
<1> QED BY <1>1, <1>2, <1>3, <1>4, AwayAlone DEF StartPc

LEMMA ShutdownAlone ==
    ASSUME Base, Alone, NEW s \in Server, NEW c \in Conv, ShutdownSession(s, c)
    PROVE  Alone'
<1> DEFINE o == sessions[s][c]
<1>1. /\ o \in Obj /\ o # None /\ obj \in [Obj -> ObjType] /\ obj[o].phase = "live"
  BY RunningLive DEF ShutdownSession, Base, TypeOK
<1>2. /\ SetPhase(o, "grace") /\ UNCHANGED <<hub, call, stored>>
      /\ sessions' = [sessions EXCEPT ![s][c] = None]
  BY DEF ShutdownSession, storage
<1> HIDE DEF o
<1>3. /\ obj'[o].phase = "grace" /\ obj'[o].srv = obj[o].srv /\ obj'[o].conv = obj[o].conv
      /\ \A q \in Obj : q # o => obj'[q] = obj[q]
  BY <1>1, <1>2, SetPhaseMoves DEF ObjPhase
<1>4. \A q \in Obj : Holds(q)' => /\ Holds(q)
                                  /\ obj'[q].srv = obj[q].srv
                                  /\ obj'[q].conv = obj[q].conv
                                  /\ (obj'[q].phase = "ended" => obj[q].phase = "ended")
  BY <1>1, <1>3 DEF Holds
<1>5. LoadConsumes' /\ OnePlace' /\ HubOwner'
  BY <1>2, <1>4, StillAlone
<1>6. HubFeedsSession'
  <2>1. sessions \in [Server -> [Conv -> Obj \cup {None}]]
    BY DEF Base, TypeOK
  <2>2. /\ sessions'[s][c] = None
        /\ \A t \in Server, d \in Conv : ~(t = s /\ d = c) => sessions'[t][d] = sessions[t][d]
    BY <1>2, <2>1
  <2> QED BY <1>2, <2>2 DEF Alone, HubFeedsSession
<1> QED BY <1>5, <1>6 DEF Alone

(* The end of the grace: the pubsub session that goes is that of o. *)
LEMMA EndGraceAlone ==
    ASSUME Base, Alone, NEW o \in Obj, EndGrace(o)
    PROVE  Alone'
<1> DEFINE s == obj[o].srv  c == obj[o].conv
<1>1. /\ obj \in [Obj -> ObjType] /\ obj[o].phase = "grace" /\ Holds(o)
      /\ s \in Server /\ c \in Conv
  BY DEF Base, TypeOK, SessionsOwn, EndGrace, Holds
<1>2. /\ SetPhase(o, "ended") /\ hub' = [hub EXCEPT ![s][c] = None]
      /\ UNCHANGED <<call, sessions, stored>>
  BY DEF EndGrace, storage
<1> HIDE DEF s, c
<1>3. /\ obj'[o].phase = "ended" /\ obj'[o].srv = s /\ obj'[o].conv = c
      /\ \A q \in Obj : q # o => obj'[q] = obj[q]
  BY <1>1, <1>2, SetPhaseMoves DEF ObjPhase, s, c
<1>4. hub'[s][c] = None
      /\ \A t \in Server, d \in Conv : ~(t = s /\ d = c) => hub'[t][d] = hub[t][d]
  <2>1. hub \in [Server -> [Conv -> Obj \cup {None}]]
    BY DEF Base, TypeOK
  <2> QED BY <1>1, <1>2, <2>1
<1>5. \A t \in Server : t # s => hub[t][c] = None
  BY <1>1 DEF Alone, HubOwner, s, c
<1>6. \A q \in Obj : Holds(q) /\ obj[q].conv = c => q = o
  BY <1>1 DEF Alone, OnePlace, c
<1>7. \A q \in Obj : /\ Holds(q)' => Holds(q)
                    /\ obj'[q].srv = obj[q].srv
                    /\ obj'[q].conv = obj[q].conv
  BY <1>1, <1>3 DEF Holds, s, c
<1>8. LoadConsumes'
  BY <1>2 DEF Alone, LoadConsumes
<1>9. OnePlace'
  BY <1>2, <1>7 DEF Alone, OnePlace
<1>10. HubOwner'
  <2>1. \A j \in Caller : At(j)' = At(j)
    BY DEF At
  <2>2. ASSUME NEW t \in Server, NEW d \in Conv, hub'[t][d] # None
        PROVE  /\ d # c /\ hub'[t][d] = hub[t][d]
               /\ \A q \in Obj : Holds(q)' /\ obj'[q].conv = d =>
                    q = hub'[t][d] /\ obj'[q].srv = t /\ obj'[q].phase # "ended"
    <3>1. d # c /\ hub'[t][d] = hub[t][d]
      BY <1>4, <1>5, <2>2
    <3> QED BY <1>3, <1>7, <2>2, <3>1 DEF Alone, HubOwner
  <2>3. ASSUME NEW j \in Caller, call[j].pc \in {"addParticipants", "register"}
        PROVE  hub'[At(j)][call[j].conv] = call[j].obj
    <3>1. /\ call[j].obj \in Obj /\ call[j].conv \in Conv /\ At(j) \in Server
          /\ Holds(call[j].obj) /\ obj[call[j].obj].conv = call[j].conv
      BY <2>3, HubType DEF StartPc
    <3>2. call[j].conv # c
      BY <1>1, <1>6, <2>3, <3>1 DEF Base, CallersOwn, StartPc
    <3> QED BY <1>4, <2>3, <3>1, <3>2 DEF Alone, HubOwner
  <2> QED BY <1>2, <2>1, <2>2, <2>3 DEF Alone, HubOwner
<1>11. HubFeedsSession'
  <2>1. sessions[s][c] = None
    BY <1>1, <1>6, RunningLive DEF Holds
  <2> QED BY <1>2, <1>4, <2>1 DEF Alone, HubFeedsSession
<1> QED BY <1>8, <1>9, <1>10, <1>11 DEF Alone

(* The save: the state is in storage, and no session value holds it. *)
LEMMA SaveAlone ==
    ASSUME Base, Alone, NEW o \in Obj, SaveState(o)
    PROVE  Alone'
<1> DEFINE c == obj[o].conv
<1>1. /\ obj \in [Obj -> ObjType] /\ obj[o].phase = "ended" /\ Holds(o) /\ c \in Conv
  BY DEF Base, TypeOK, SessionsOwn, SaveState, Holds
<1>2. stored' \subseteq stored \cup {c} /\ UNCHANGED <<call, sessions, hub>>
  BY DEF SaveState, storage
<1>3. ~Holds(o)' /\ \A q \in Obj : q # o => obj'[q] = obj[q]
  <2>1. [obj[o] EXCEPT !.phase = "saved"].phase = "saved"
    BY <1>1 DEF ObjType
  <2>2. obj'[o].phase \in {"saved", "free"}
    BY <1>1, <2>1 DEF SaveState, NoSession
  <2> QED BY <1>1, <2>2 DEF SaveState, Holds
<1>4. /\ \A k \in Caller : call[k].pc \in {"delete", "getConversation"} => call[k].conv # c
      /\ \A q \in Obj : Holds(q) /\ obj[q].conv = c => q = o
      /\ \A t \in Server : hub[t][c] = None
  BY <1>1 DEF Alone, OnePlace, HubOwner
<1> HIDE DEF c
<1>5. \A q \in Obj : Holds(q)' => Holds(q) /\ obj'[q] = obj[q] /\ obj[q].conv # c
  BY <1>3, <1>4 DEF Holds
<1>6. LoadConsumes'
  <2>1. \A k \in Caller : call[k].pc = "delete" => call[k].conv \in stored'
    BY <1>4 DEF Alone, LoadConsumes, SaveState, storage
  <2> QED BY <1>2, <1>4, <2>1 DEF Alone, LoadConsumes
<1>7. OnePlace'
  BY <1>2, <1>5 DEF Alone, OnePlace
<1>8. HubOwner'
  BY <1>2, <1>4, <1>5 DEF Alone, HubOwner, At
<1>9. HubFeedsSession'
  BY <1>2 DEF Alone, HubFeedsSession
<1> QED BY <1>6, <1>7, <1>8, <1>9 DEF Alone

(* The end of a process frees what it holds. *)
LEMMA DieAlone ==
    ASSUME Base, Alone, NEW s \in Server, Die(s)
    PROVE  Alone'
<1>1. /\ \A k \in Caller : call'[k].pc = "cut" \/ (call'[k] = call[k]
           /\ (At(k) = s => call[k].pc \in {"idle", "ok", "asked", "error"}))
      /\ \A o \in Obj : IF obj[o].srv = s THEN obj'[o] = NoSession ELSE obj'[o] = obj[o]
      /\ \A t \in Server, c \in Conv :
           /\ sessions'[t][c] = IF t = s THEN None ELSE sessions[t][c]
           /\ hub'[t][c] = IF t = s THEN None ELSE hub[t][c]
      /\ UNCHANGED stored
  BY DieMoves DEF Base, Die, storage
<1>2. \A o \in Obj : Holds(o)' => Holds(o) /\ obj'[o] = obj[o]
  BY <1>1 DEF Holds, NoSession
<1>3. \A j \in Caller : At(j)' = At(j)
  BY DEF At
<1>4. LoadConsumes'
  BY <1>1 DEF Alone, LoadConsumes
<1>5. OnePlace'
  BY <1>1, <1>2 DEF Alone, OnePlace
<1>6. HubOwner'
  <2>1. \A t \in Server, c \in Conv : hub'[t][c] # None => hub'[t][c] = hub[t][c]
    BY <1>1
  <2>2. \A j \in Caller : call'[j].pc \in {"delete", "getConversation", "startPubsub"} =>
           call'[j] = call[j]
    BY <1>1
  <2>3. \A j \in Caller : call'[j].pc \in {"addParticipants", "register"} =>
           /\ call'[j] = call[j]
           /\ hub'[At(j)][call[j].conv] = hub[At(j)][call[j].conv]
    BY <1>1, HubType DEF StartPc
  <2> QED BY <1>1, <1>2, <1>3, <2>1, <2>2, <2>3 DEF Alone, HubOwner
<1>7. HubFeedsSession'
  BY <1>1 DEF Alone, HubFeedsSession
<1> QED BY <1>4, <1>5, <1>6, <1>7 DEF Alone

-----------------------------------------------------------------------------
(* The theorems about loads that do not overlap *)

LEMMA AloneInit == Init => LoadsApart /\ Alone
<1> SUFFICES ASSUME Init PROVE LoadsApart /\ Alone
  OBVIOUS
<1>1. /\ \A k \in Caller : call[k].pc = "idle"
      /\ \A o \in Obj : ~Holds(o)
      /\ \A s \in Server, c \in Conv : hub[s][c] = None /\ sessions[s][c] = None
  BY DEF Init, Idle, NoSession, Holds
<1> QED BY <1>1 DEF LoadsApart, Alone, LoadConsumes, OnePlace, HubOwner, HubFeedsSession

LEMMA AloneStep ==
    ASSUME "delete" \notin Faults, Base, LoadsApart, Alone, [Next]_vars
    PROVE  Alone'
<1>1. CASE UNCHANGED <<obj, sessions, hub, stored, call>>
  <2>1. LoadConsumes' /\ OnePlace'
    BY <1>1 DEF Alone, LoadConsumes, OnePlace, Holds
  <2>2. HubOwner' /\ HubFeedsSession'
    BY <1>1 DEF Alone, HubOwner, HubFeedsSession, Holds, At
  <2> QED BY <2>1, <2>2 DEF Alone
<1>2. ASSUME NEW s \in Server, Startup(s) \/ Crash(s) \/ Interrupt(s) \/ ShutdownAll(s)
                               \/ TakeSuspended(s) \/ StopLoading(s) \/ RemoveSuspended(s)
      PROVE  Alone'
  <2>1. CASE Startup(s) \/ TakeSuspended(s) \/ StopLoading(s) \/ RemoveSuspended(s)
    BY <2>1, LoaderAlone
  <2>2. CASE Crash(s) \/ Exit(s)
    BY <2>2, DieAlone DEF Crash, Exit
  <2>3. CASE Interrupt(s) \/ LoopDone(s) \/ QueueSuspended(s)
    BY <1>1, <2>3 DEF Interrupt, LoopDone, QueueSuspended, storage
  <2>4. CASE \E c \in Conv : ShutdownSession(s, c)
    BY <2>4, ShutdownAlone
  <2> QED BY <1>2, <2>1, <2>2, <2>3, <2>4 DEF ShutdownAll
<1>3. ASSUME NEW k \in Caller, GetSession(k) PROVE Alone'
  BY <1>3, LookupAlone, FetchAlone, DeleteAlone, MakeAlone, PubsubAlone, AddAlone,
     RegisterAlone DEF GetSession
<1>4. ASSUME NEW r \in Request, Handler(r) \/ \E c \in Conv : Arrive(r, c) PROVE Alone'
  BY <1>3, <1>4, HandlerAlone DEF Handler, Caller
<1>5. ASSUME NEW o \in Obj, Grace(o) PROVE Alone'
  BY <1>5, EndGraceAlone, SaveAlone DEF Grace
<1>6. CASE UNCHANGED vars
  BY <1>1, <1>6 DEF vars, storage
<1> QED BY <1>2, <1>3, <1>4, <1>5, <1>6 DEF Next, Loader, Caller

(* IInv, the invariant of the runs, is inductive. *)
LEMMA IInvInductive ==
    ASSUME "delete" \notin Faults
    PROVE  /\ Init => IInv
           /\ IInv /\ [Next /\ LoadsApart']_vars => IInv'
<1>1. IInv <=> Base /\ LoadsApart /\ Alone
  BY DEF IInv, Base, Alone
<1>2. IInv' <=> Base' /\ LoadsApart' /\ Alone'
  BY DEF IInv, Base, Alone
<1>3. Init => IInv
  BY <1>1, BaseInit, AloneInit
<1>4. ASSUME IInv, [Next /\ LoadsApart']_vars PROVE IInv'
  <2>1. Base' /\ Alone'
    BY <1>1, <1>4, BaseStep, AloneStep
  <2>2. LoadsApart'
    <3>1. CASE UNCHANGED vars
      BY <1>1, <1>4, <3>1 DEF vars, LoadsApart
    <3> QED BY <1>4, <3>1
  <2> QED BY <1>2, <2>1, <2>2
<1> QED BY <1>3, <1>4

(* If loads of a conversation do not overlap and a failed delete does not  *)
(* go unnoticed, the state of a session is in one place.                   *)
THEOREM OnePlaceAlways ==
    ASSUME "delete" \notin Faults
    PROVE  ApartSpec => []OnePlace
<1>1. IInv => OnePlace
  BY DEF IInv
<1> QED BY <1>1, IInvInductive, PTL DEF ApartSpec

(* Then a running session hears what its participants say. *)
THEOREM HubFeedsSessionAlways ==
    ASSUME "delete" \notin Faults
    PROVE  ApartSpec => []HubFeedsSession
<1>1. IInv => HubFeedsSession
  BY DEF IInv
<1> QED BY <1>1, IInvInductive, PTL DEF ApartSpec

(* Then no save replaces a state that has not been loaded. *)
THEOREM SaveNeverOverwritesHolds ==
    ASSUME "delete" \notin Faults
    PROVE  ApartSpec => SaveNeverOverwrites
<1> DEFINE Kept == \A c \in Conv : c \in stored /\ c \in stored' => image'[c] = image[c]
<1>1. ASSUME IInv, [Next /\ LoadsApart']_vars
      PROVE  [Kept]_vars
  <2>1. image \in [Conv -> SUBSET Request]
    BY <1>1 DEF IInv, TypeOK
  <2>2. CASE UNCHANGED image
    BY <2>2
  <2>3. ASSUME NEW k \in Caller, DeleteState(k) PROVE Kept
    BY <2>1, <2>3 DEF DeleteState, storage
  <2>4. ASSUME NEW o \in Obj, SaveState(o) PROVE Kept
    <3>1. obj[o].conv \notin stored
      BY <1>1, <2>4 DEF IInv, OnePlace, Holds, SaveState
    <3> QED BY <2>1, <2>4, <3>1 DEF SaveState, storage
  <2>5. Next => \/ UNCHANGED image
                \/ \E k \in Caller : DeleteState(k)
                \/ \E o \in Obj : SaveState(o)
    <3>1. ASSUME NEW k \in Caller, GetSession(k), ~DeleteState(k) PROVE UNCHANGED image
      BY <3>1 DEF GetSession, Lookup, FetchState, MakeSession, StartPubsub,
                  AddParticipants, Register, storage
    <3>2. ASSUME NEW s \in Server, Startup(s) \/ Crash(s) \/ Interrupt(s) \/ ShutdownAll(s)
                               \/ TakeSuspended(s) \/ StopLoading(s) \/ RemoveSuspended(s)
          PROVE  UNCHANGED image
      BY <3>2 DEF Startup, Crash, Interrupt, ShutdownAll, TakeSuspended, StopLoading,
                  RemoveSuspended, ShutdownSession, LoopDone, QueueSuspended, Exit, Die, storage
    <3>3. ASSUME NEW r \in Request, \/ NewParticipant(r) \/ AddToPubsub(r)
                                    \/ AddListenerRequest(r) \/ \E c \in Conv : Arrive(r, c)
          PROVE  UNCHANGED image
      BY <3>3 DEF NewParticipant, AddToPubsub, AddListenerRequest, Arrive, storage
    <3>4. ASSUME NEW o \in Obj, EndGrace(o) PROVE UNCHANGED image
      BY <3>4 DEF EndGrace, storage
    <3> QED BY <3>1, <3>2, <3>3, <3>4 DEF Next, Loader, Handler, Grace, Caller
  <2> QED BY <1>1, <2>2, <2>3, <2>4, <2>5 DEF vars, storage
<1> QED BY <1>1, IInvInductive, PTL DEF ApartSpec, SaveNeverOverwrites

-----------------------------------------------------------------------------
(* Orderly deployments: no join that was acknowledged is lost              *)

ParkedPc == {"idle", "stopped", "ok", "asked", "error", "cut"}

(* Only a server that is up has callers at work. *)
Parked ==
    /\ \A k \in Caller : proc[At(k)] # "up" => call[k].pc \in ParkedPc
    /\ \A s \in Server : shut[s].looping => proc[s] = "closing"

(* A request that joins has the session that runs on its server.           *)
Joins(r) ==
    call[r].pc \in {"admit", "addToPubsub"} =>
        /\ call[r].obj \in Obj
        /\ obj[call[r].obj].phase = "live"
        /\ obj[call[r].obj].srv = At(r)
        /\ obj[call[r].obj].conv = call[r].conv
        /\ call[r].pc = "addToPubsub" => r \in obj[call[r].obj].joins

(* One who was told "ok" is a participant of the state, wherever that is:  *)
(* also in the hands of a caller that has loaded it, and of one in start().*)
JoinKept(r) ==
    call[r].pc = "ok" =>
        /\ call[r].conv \in stored => r \in image[call[r].conv]
        /\ \A o \in Obj : Holds(o) /\ obj[o].conv = call[r].conv => r \in obj[o].joins
        /\ \A k \in Caller : call[k].pc = "getConversation" /\ call[k].conv = call[r].conv
                               => r \in call[k].joins

(* What was read is still what is stored when it is deleted. *)
ReadKept == \A k \in Caller : call[k].pc = "delete" => call[k].joins = image[call[k].conv]

Orderly == Parked /\ ReadKept /\ \A r \in Request : Joins(r) /\ JoinKept(r)

(* A caller at work is on a server that is up. *)
LEMMA WorkerUp ==
    ASSUME Orderly, NEW k \in Caller, call[k].pc \notin ParkedPc
    PROVE  proc[At(k)] = "up"
BY DEF Orderly, Parked

(* Nobody comes to hold a session, its participants stay, and what is live *)
(* on a server that is up stays so.                                        *)
Mild ==
    \A o \in Obj :
        /\ Holds(o)' => /\ Holds(o) /\ obj'[o].conv = obj[o].conv
                        /\ obj[o].joins \subseteq obj'[o].joins
        /\ obj[o].phase = "live" /\ proc[obj[o].srv] = "up" =>
             /\ obj'[o].phase = "live" /\ obj'[o].srv = obj[o].srv
             /\ obj'[o].conv = obj[o].conv /\ obj[o].joins \subseteq obj'[o].joins

LEMMA JoinsStay ==
    ASSUME Orderly, Mild, NEW r \in Request, call'[r] = call[r]
    PROVE  Joins(r)'
<1> SUFFICES ASSUME call[r].pc \in {"admit", "addToPubsub"} PROVE Joins(r)'
  BY DEF Joins
<1>1. r \in Caller /\ At(r)' = At(r)
  BY DEF Caller, At
<1>2. proc[At(r)] = "up"
  BY <1>1, WorkerUp DEF ParkedPc
<1>3. Joins(r)
  BY DEF Orderly
<1> QED BY <1>1, <1>2, <1>3 DEF Joins, Mild

LEMMA JoinStaysKept ==
    ASSUME Orderly, Mild, UNCHANGED storage, NEW r \in Request,
           call'[r] = call[r] \/ call'[r].pc # "ok",
           \A j \in Caller : call'[j] = call[j] \/ call'[j].pc # "getConversation"
    PROVE  JoinKept(r)'
BY DEF Orderly, JoinKept, Mild, storage

(* A caller at work goes where it does not load. *)
LEMMA WorkerMoves ==
    ASSUME Orderly, Mild, UNCHANGED <<proc, shut, storage>>, NEW k \in Caller,
           OnlyMoves(k), proc[At(k)] = "up",
           call'[k].pc \notin {"delete", "getConversation"},
           call'[k].pc \notin {"admit", "addToPubsub", "ok"} \/ (Joins(k)' /\ JoinKept(k)')
    PROVE  Orderly'
<1>1. \A j \in Caller : At(j)' = At(j)
  BY DEF At
<1>2. Parked'
  BY <1>1 DEF Orderly, Parked, OnlyMoves
<1>3. ReadKept'
  BY DEF Orderly, ReadKept, OnlyMoves, storage
<1>4. ASSUME NEW r \in Request PROVE Joins(r)' /\ JoinKept(r)'
  <2>1. r \in Caller
    BY DEF Caller
  <2>2. CASE r # k
    BY <2>1, <2>2, JoinsStay, JoinStaysKept DEF OnlyMoves
  <2>3. CASE r = k /\ call'[k].pc \notin {"admit", "addToPubsub", "ok"}
    BY <2>3 DEF Joins, JoinKept
  <2>4. CASE r = k /\ Joins(k)' /\ JoinKept(k)'
    BY <2>4
  <2> QED BY <2>2, <2>3, <2>4
<1> QED BY <1>2, <1>3, <1>4 DEF Orderly

(* A step without callers, which changes none of the stored states.        *)
LEMMA NobodyWorks ==
    ASSUME Orderly, Mild, UNCHANGED <<call, storage>>, Parked'
    PROVE  Orderly'
<1>1. ReadKept'
  BY DEF Orderly, ReadKept, storage
<1>2. ASSUME NEW r \in Request PROVE Joins(r)' /\ JoinKept(r)'
  BY JoinsStay, JoinStaysKept
<1> QED BY <1>1, <1>2 DEF Orderly

LEMMA SameMild == ASSUME UNCHANGED obj PROVE Mild
BY DEF Mild, Holds

(* A caller that gets no session has an error, or it is the loader. *)
LEMMA ReturnsNone ==
    ASSUME call \in [Caller -> CallType], NEW k \in Caller, Return(k, None)
    PROVE  OnlyMoves(k) /\ call'[k].pc \in {"lookup", "remove", "error"}
BY DEF Return, OnlyMoves

(* One that gets a session joins it, if it is a request. *)
LEMMA ReturnsSession ==
    ASSUME call \in [Caller -> CallType], NEW k \in Caller, NEW o \in Obj, Return(k, o)
    PROVE  /\ OnlyMoves(k) /\ call'[k].conv = call[k].conv
           /\ call'[k].pc \in {"lookup", "remove", "error"}
                \/ (call'[k].pc = "admit" /\ call'[k].obj = o)
BY DEF Return, OnlyMoves

LEMMA LoaderOrderly ==
    ASSUME IInv, Orderly, NEW s \in Server,
           Startup(s) \/ TakeSuspended(s) \/ StopLoading(s) \/ RemoveSuspended(s)
    PROVE  Orderly'
<1>1. call \in [Caller -> CallType] /\ s \in Caller /\ At(s) = s
  BY DEF IInv, TypeOK, Caller, At
<1>2. UNCHANGED <<obj, shut, storage>> /\ Mild
  BY SameMild DEF Startup, TakeSuspended, StopLoading, RemoveSuspended
<1>3. OnlyMoves(s) /\ call'[s].pc \in {"wait", "lookup", "stopped"}
  <2>1. CASE Startup(s)
    BY <1>1, <2>1 DEF Startup, GoTo, OnlyMoves, CallType
  <2>2. CASE TakeSuspended(s)
    BY <1>1, <2>2 DEF TakeSuspended, Enter, Idle, OnlyMoves
  <2>3. CASE StopLoading(s)
    BY <1>1, <2>3 DEF StopLoading, Enter, Idle, OnlyMoves
  <2>4. CASE RemoveSuspended(s)
    BY <1>1, <2>4 DEF RemoveSuspended, Enter, Idle, OnlyMoves
  <2> QED BY <2>1, <2>2, <2>3, <2>4
<1>4. CASE ~Startup(s)
  <2>1. UNCHANGED proc /\ call[s].pc \in {"wait", "remove"}
    BY <1>4 DEF TakeSuspended, StopLoading, RemoveSuspended
  <2>2. proc[At(s)] = "up"
    BY <1>1, <2>1, WorkerUp DEF ParkedPc
  <2> QED BY <1>1, <1>2, <1>3, <2>1, <2>2, WorkerMoves
<1>5. CASE Startup(s)
  <2>1. /\ proc[s] = "new" /\ proc' = [proc EXCEPT ![s] = "up"]
        /\ proc \in [Server -> {"new", "up", "closing", "exited"}]
    BY <1>5 DEF Startup, IInv, TypeOK
  <2>2. proc'[s] = "up" /\ \A t \in Server : t # s => proc'[t] = proc[t]
    BY <2>1
  <2>3. \A j \in Caller : At(j)' = At(j) /\ At(j) \in Server
    BY CallerAt DEF At
  <2>4. Parked'
    BY <1>1, <1>2, <1>3, <2>1, <2>2, <2>3 DEF Orderly, Parked, OnlyMoves
  <2>5. ReadKept'
    BY <1>2, <1>3 DEF Orderly, ReadKept, OnlyMoves, storage
  <2>6. ASSUME NEW r \in Request PROVE Joins(r)' /\ JoinKept(r)'
    <3>1. call'[r] = call[r]
      BY <1>1, <1>3, ServersAndRequests DEF OnlyMoves, Caller
    <3>2. \A j \in Caller : call'[j] = call[j] \/ call'[j].pc # "getConversation"
      BY <1>3 DEF OnlyMoves
    <3> QED BY <1>2, <3>1, <3>2, JoinsStay, JoinStaysKept
  <2> QED BY <2>4, <2>5, <2>6 DEF Orderly
<1> QED BY <1>4, <1>5

LEMMA LookupOrderly ==
    ASSUME IInv, Orderly, NEW k \in Caller, Lookup(k)
    PROVE  Orderly'
<1> DEFINE o == sessions[At(k)][call[k].conv]
<1>1. /\ call \in [Caller -> CallType] /\ At(k) \in Server /\ call[k].conv \in Conv
      /\ call[k].pc = "lookup" /\ UNCHANGED <<obj, proc, shut, storage>>
  BY CallerAt DEF IInv, TypeOK, CallersOwn, Lookup, LoadPc
<1>2. Mild /\ proc[At(k)] = "up"
  BY <1>1, SameMild, WorkerUp DEF ParkedPc
<1>3. CASE o = None
  <2>1. OnlyMoves(k) /\ call'[k].pc = "fetch"
    BY <1>1, <1>3 DEF Lookup, GoTo, OnlyMoves, CallType
  <2> QED BY <1>1, <1>2, <2>1, WorkerMoves
<1>4. CASE o # None
  <2>1. /\ o \in Obj /\ obj[o].phase = "live" /\ obj[o].srv = At(k)
        /\ obj[o].conv = call[k].conv
    BY <1>1, <1>4, RunningLive DEF IInv, Base
  <2>2. Return(k, o)
    BY <1>4 DEF Lookup
  <2> HIDE DEF o
  <2>3. /\ OnlyMoves(k) /\ call'[k].conv = call[k].conv
        /\ call'[k].pc \in {"lookup", "remove", "error"}
             \/ (call'[k].pc = "admit" /\ call'[k].obj = o)
    BY <1>1, <2>1, <2>2, ReturnsSession
  <2>4. At(k)' = At(k)
    BY DEF At
  <2>5. CASE call'[k].pc = "admit" /\ call'[k].obj = o
    <3>1. Joins(k)' /\ JoinKept(k)'
      BY <1>1, <2>1, <2>3, <2>4, <2>5 DEF Joins, JoinKept
    <3> QED BY <1>1, <1>2, <2>3, <2>5, <3>1, WorkerMoves
  <2>6. CASE call'[k].pc \in {"lookup", "remove", "error"}
    BY <1>1, <1>2, <2>3, <2>6, WorkerMoves
  <2> QED BY <2>3, <2>5, <2>6
<1> QED BY <1>3, <1>4

LEMMA FetchOrderly ==
    ASSUME IInv, Orderly, NEW k \in Caller, FetchState(k)
    PROVE  Orderly'
<1>1. /\ call \in [Caller -> CallType] /\ call[k].pc = "fetch"
      /\ UNCHANGED <<obj, proc, shut, storage>>
  BY DEF IInv, TypeOK, FetchState
<1>2. Mild /\ proc[At(k)] = "up"
  BY <1>1, SameMild, WorkerUp DEF ParkedPc
<1>3. CASE Return(k, None)
  BY <1>1, <1>2, <1>3, ReturnsNone, WorkerMoves
<1>4. CASE ~Return(k, None)
  <2>1. /\ OnlyMoves(k) /\ call'[k].pc = "delete" /\ call'[k].conv = call[k].conv
        /\ call'[k].joins = image[call[k].conv]
    BY <1>1, <1>4 DEF FetchState, OnlyMoves, CallType
  <2>2. \A j \in Caller : At(j)' = At(j)
    BY DEF At
  <2>3. Parked'
    BY <1>1, <1>2, <2>1, <2>2 DEF Orderly, Parked, OnlyMoves
  <2>4. ReadKept'
    BY <1>1, <2>1 DEF Orderly, ReadKept, OnlyMoves, storage
  <2>5. ASSUME NEW r \in Request PROVE Joins(r)' /\ JoinKept(r)'
    <3>1. r \in Caller
      BY DEF Caller
    <3>2. JoinKept(r)'
      BY <1>1, <1>2, <2>1, <3>1, JoinStaysKept DEF OnlyMoves
    <3>3. CASE r = k
      BY <2>1, <3>2, <3>3 DEF Joins
    <3>4. CASE r # k
      BY <1>2, <2>1, <3>1, <3>2, <3>4, JoinsStay DEF OnlyMoves
    <3> QED BY <3>3, <3>4
  <2> QED BY <2>3, <2>4, <2>5 DEF Orderly
<1> QED BY <1>3, <1>4

(* The delete: what was read goes on with the caller. *)
LEMMA DeleteOrderly ==
    ASSUME IInv, Orderly, "delete" \notin Faults, NEW k \in Caller, DeleteState(k)
    PROVE  Orderly'
<1> DEFINE c == call[k].conv
<1>1. /\ call \in [Caller -> CallType] /\ image \in [Conv -> SUBSET Request]
      /\ call[k].pc = "delete" /\ c \in Conv /\ c \in stored
      /\ call[k].joins = image[c]
      /\ UNCHANGED <<obj, proc, shut>>
  BY DEF IInv, TypeOK, DeleteState, CallersOwn, LoadPc, LoadConsumes, Orderly, ReadKept
<1>2. /\ stored' = stored \ {c} /\ image' = [image EXCEPT ![c] = {}]
      /\ OnlyMoves(k) /\ call'[k].pc = "getConversation" /\ call'[k].conv = c
      /\ call'[k].joins = call[k].joins
  BY <1>1 DEF DeleteState, Fault, GoTo, OnlyMoves, CallType
<1>3. \A j \in Caller : j # k /\ call[j].pc = "delete" => call[j].conv # c
  BY <1>1 DEF IInv, LoadsApart
<1> HIDE DEF c
<1>4. Mild /\ proc[At(k)] = "up"
  BY <1>1, SameMild, WorkerUp DEF ParkedPc
<1>5. \A d \in Conv : d # c => image'[d] = image[d]
  BY <1>1, <1>2
<1>6. Parked'
  <2>1. \A j \in Caller : At(j)' = At(j)
    BY DEF At
  <2> QED BY <1>1, <1>2, <1>4, <2>1 DEF Orderly, Parked, OnlyMoves
<1>7. ReadKept'
  <2>1. \A j \in Caller : call[j].pc = "delete" => call[j].conv \in Conv
    BY DEF IInv, CallersOwn, LoadPc
  <2> QED BY <1>2, <1>3, <1>5, <2>1 DEF Orderly, ReadKept, OnlyMoves
<1>8. ASSUME NEW r \in Request PROVE Joins(r)' /\ JoinKept(r)'
  <2>1. r \in Caller /\ stored \subseteq Conv
    BY DEF Caller, IInv, TypeOK
  <2>2. CASE r = k
    BY <1>2, <2>2 DEF Joins, JoinKept
  <2>3. CASE r # k
    <3>1. Joins(r)'
      BY <1>2, <1>4, <2>1, <2>3, JoinsStay DEF OnlyMoves
    <3>2. call'[r] = call[r] /\ JoinKept(r)
      BY <1>2, <2>1, <2>3 DEF OnlyMoves, Orderly
    <3>3. call[r].pc = "ok" /\ call[r].conv \in stored' => r \in image'[call[r].conv]
      BY <1>2, <1>5, <2>1, <3>2 DEF JoinKept
    <3>4. \A o \in Obj : Holds(o)' = Holds(o)
      BY <1>1 DEF Holds
    <3>5. ASSUME NEW j \in Caller, call[r].pc = "ok",
                 call'[j].pc = "getConversation", call'[j].conv = call[r].conv
          PROVE  r \in call'[j].joins
      <4>1. CASE j = k
        BY <1>1, <1>2, <3>2, <3>5, <4>1 DEF JoinKept
      <4>2. CASE j # k
        BY <1>2, <3>2, <3>5, <4>2 DEF JoinKept, OnlyMoves
      <4> QED BY <4>1, <4>2
    <3>6. JoinKept(r)'
      BY <1>1, <3>2, <3>3, <3>4, <3>5 DEF JoinKept
    <3> QED BY <3>1, <3>6
  <2> QED BY <2>2, <2>3
<1> QED BY <1>6, <1>7, <1>8 DEF Orderly

(* The new session value has the participants that were read. *)
LEMMA MakeOrderly ==
    ASSUME IInv, Orderly, NEW k \in Caller, MakeSession(k)
    PROVE  Orderly'
<1>1. /\ call \in [Caller -> CallType] /\ obj \in [Obj -> ObjType]
      /\ call[k].pc = "getConversation" /\ UNCHANGED <<proc, shut, storage>>
  BY DEF IInv, TypeOK, MakeSession
<1>2. proc[At(k)] = "up"
  BY <1>1, WorkerUp DEF ParkedPc
<1>3. CASE Return(k, None) /\ UNCHANGED obj
  BY <1>1, <1>2, <1>3, ReturnsNone, SameMild, WorkerMoves
<1>4. CASE ~(Return(k, None) /\ UNCHANGED obj)
  <2> DEFINE o == CHOOSE q \in Phase("free") : TRUE
             new == [phase |-> "starting", srv |-> At(k),
                     conv |-> call[k].conv, joins |-> call[k].joins]
  <2>1. /\ o \in Obj /\ obj[o].phase = "free"
        /\ obj' = [obj EXCEPT ![o] = new]
        /\ call' = [call EXCEPT ![k] = [@ EXCEPT !.pc = "startPubsub", !.obj = o]]
    BY <1>4, FreshIsFree DEF MakeSession
  <2> HIDE DEF o
  <2>2. /\ obj'[o].phase = "starting" /\ obj'[o].conv = call[k].conv
        /\ obj'[o].joins = call[k].joins
        /\ \A q \in Obj : q # o => obj'[q] = obj[q]
    BY <1>1, <2>1
  <2>3. OnlyMoves(k) /\ call'[k].pc = "startPubsub"
    BY <1>1, <2>1 DEF CallType, OnlyMoves
  <2> HIDE DEF new
  <2>4. Parked'
    <3>1. \A j \in Caller : At(j)' = At(j)
      BY DEF At
    <3> QED BY <1>1, <1>2, <2>3, <3>1 DEF Orderly, Parked, OnlyMoves
  <2>5. ReadKept'
    BY <1>1, <2>3 DEF Orderly, ReadKept, OnlyMoves, storage
  <2>6. ASSUME NEW r \in Request PROVE Joins(r)' /\ JoinKept(r)'
    <3>1. r \in Caller /\ Joins(r) /\ JoinKept(r) /\ At(r)' = At(r)
      BY DEF Caller, Orderly, At
    <3>2. CASE r = k
      BY <2>3, <3>2 DEF Joins, JoinKept
    <3>3. CASE r # k
      <4>1. call'[r] = call[r]
        BY <2>3, <3>1, <3>3 DEF OnlyMoves
      <4>2. Joins(r)'
        BY <2>1, <2>2, <3>1, <4>1 DEF Joins
      <4>3. \A q \in Obj : call[r].pc = "ok" /\ Holds(q)' /\ obj'[q].conv = call[r].conv
                            => r \in obj'[q].joins
        BY <1>1, <2>2, <3>1 DEF JoinKept, Holds
      <4>4. \A j \in Caller : call'[j] = call[j] \/ call'[j].pc # "getConversation"
        BY <2>3 DEF OnlyMoves
      <4>5. JoinKept(r)'
        BY <1>1, <3>1, <4>1, <4>3, <4>4 DEF JoinKept, storage
      <4> QED BY <4>2, <4>5
    <3> QED BY <3>2, <3>3
  <2> QED BY <2>4, <2>5, <2>6 DEF Orderly
<1> QED BY <1>3, <1>4

LEMMA StartOrderly ==
    ASSUME IInv, Orderly, NEW k \in Caller, StartPubsub(k) \/ AddParticipants(k)
    PROVE  Orderly'
<1>1. /\ call \in [Caller -> CallType] /\ obj \in [Obj -> ObjType]
      /\ call[k].pc \in {"startPubsub", "addParticipants"}
      /\ UNCHANGED <<proc, shut, storage>>
  BY DEF IInv, TypeOK, StartPubsub, AddParticipants
<1>2. proc[At(k)] = "up"
  BY <1>1, WorkerUp DEF ParkedPc
<1>3. CASE GiveUp(k)
  <2>1. call[k].obj \in Obj /\ obj[call[k].obj].phase = "starting"
    BY <1>1 DEF IInv, CallersOwn, StartPc
  <2>2. /\ obj'[call[k].obj].phase = "free"
        /\ \A q \in Obj : q # call[k].obj => obj'[q] = obj[q]
    BY <1>1, <1>3, <2>1 DEF GiveUp, NoSession
  <2>3. Mild
    BY <2>1, <2>2 DEF Mild, Holds
  <2>4. OnlyMoves(k) /\ call'[k].pc \in {"lookup", "remove", "error"}
    BY <1>1, <1>3, ReturnsNone DEF GiveUp
  <2> QED BY <1>1, <1>2, <2>3, <2>4, WorkerMoves
<1>4. CASE ~GiveUp(k)
  <2>1. /\ UNCHANGED obj /\ OnlyMoves(k)
        /\ call'[k].pc \in {"addParticipants", "register"}
    BY <1>1, <1>4 DEF StartPubsub, AddParticipants, GoTo, OnlyMoves, CallType
  <2> QED BY <1>1, <1>2, <2>1, SameMild, WorkerMoves
<1> QED BY <1>3, <1>4

LEMMA RegisterOrderly ==
    ASSUME IInv, Orderly, NEW k \in Caller, Register(k)
    PROVE  Orderly'
<1> DEFINE o == call[k].obj
<1>1. /\ call \in [Caller -> CallType] /\ obj \in [Obj -> ObjType]
      /\ call[k].pc = "register" /\ UNCHANGED <<proc, shut, storage>>
      /\ o \in Obj /\ obj[o].phase = "starting" /\ obj[o].srv = At(k)
      /\ obj[o].conv = call[k].conv
      /\ SetPhase(o, "live") /\ Return(k, o)
  BY DEF IInv, TypeOK, Register, CallersOwn, StartPc
<1> HIDE DEF o
<1>2. proc[At(k)] = "up" /\ At(k)' = At(k)
  BY <1>1, WorkerUp DEF ParkedPc, At
<1>3. /\ obj'[o].phase = "live" /\ obj'[o].srv = obj[o].srv /\ obj'[o].conv = obj[o].conv
      /\ obj'[o].joins = obj[o].joins
      /\ \A q \in Obj : q # o => obj'[q] = obj[q]
  BY <1>1 DEF SetPhase, ObjType
<1>4. Mild
  BY <1>1, <1>3 DEF Mild, Holds
<1>5. /\ OnlyMoves(k) /\ call'[k].conv = call[k].conv
      /\ call'[k].pc \in {"lookup", "remove", "error"}
             \/ (call'[k].pc = "admit" /\ call'[k].obj = o)
  BY <1>1, ReturnsSession
<1>6. CASE call'[k].pc = "admit" /\ call'[k].obj = o
  <2>1. Joins(k)' /\ JoinKept(k)'
    BY <1>1, <1>2, <1>3, <1>5, <1>6 DEF Joins, JoinKept
  <2> QED BY <1>1, <1>2, <1>4, <1>5, <1>6, <2>1, WorkerMoves
<1>7. CASE call'[k].pc \in {"lookup", "remove", "error"}
  BY <1>1, <1>2, <1>4, <1>5, <1>7, WorkerMoves
<1> QED BY <1>5, <1>6, <1>7

(* A participant is entered in the session that its request has. *)
LEMMA EnteredMild ==
    ASSUME IInv, NEW r \in Request, NEW p \in Obj,
           obj' = [obj EXCEPT ![p].joins = @ \cup {r}]
    PROVE  /\ Mild
           /\ obj'[p].phase = obj[p].phase /\ obj'[p].srv = obj[p].srv
           /\ obj'[p].conv = obj[p].conv /\ r \in obj'[p].joins
<1>1. obj \in [Obj -> ObjType]
  BY DEF IInv, TypeOK
<1>2. \A q \in Obj : /\ obj'[q].phase = obj[q].phase /\ obj'[q].srv = obj[q].srv
                     /\ obj'[q].conv = obj[q].conv /\ obj[q].joins \subseteq obj'[q].joins
  BY <1>1 DEF ObjType
<1>3. r \in obj'[p].joins
  BY <1>1 DEF ObjType
<1>4. Mild
  BY <1>2 DEF Mild, Holds
<1> QED BY <1>2, <1>3, <1>4

LEMMA HandlerOrderly ==
    ASSUME IInv, Orderly, NEW r \in Request,
           \/ NewParticipant(r) \/ AddToPubsub(r) \/ AddListenerRequest(r)
           \/ \E c \in Conv : Arrive(r, c)
    PROVE  Orderly'
<1> DEFINE p == call[r].obj
<1>1. /\ call \in [Caller -> CallType] /\ r \in Caller /\ At(r) = Host[r] /\ At(r)' = At(r)
      /\ UNCHANGED <<proc, shut, storage>>
      /\ Joins(r)
  <2>1. r \notin Server
    BY ServersAndRequests
  <2> QED
    BY <2>1 DEF IInv, TypeOK, Caller, At, Orderly, NewParticipant, AddToPubsub,
                AddListenerRequest, Arrive
<1>2. CASE NewParticipant(r)
  <2>1. /\ call[r].pc = "admit" /\ p \in Obj /\ obj[p].phase = "live" /\ obj[p].srv = At(r)
        /\ obj[p].conv = call[r].conv
        /\ obj' = [obj EXCEPT ![p].joins = @ \cup {r}]
    BY <1>1, <1>2 DEF NewParticipant, Joins
  <2>2. /\ OnlyMoves(r) /\ call'[r].pc = "addToPubsub" /\ call'[r].obj = p
        /\ call'[r].conv = call[r].conv
    BY <1>1, <1>2 DEF NewParticipant, GoTo, OnlyMoves, CallType
  <2> HIDE DEF p
  <2>3. /\ Mild
        /\ obj'[p].phase = obj[p].phase /\ obj'[p].srv = obj[p].srv
        /\ obj'[p].conv = obj[p].conv /\ r \in obj'[p].joins
    BY <2>1, EnteredMild
  <2>4. Joins(r)' /\ JoinKept(r)'
    BY <1>1, <2>1, <2>2, <2>3 DEF Joins, JoinKept
  <2>5. proc[At(r)] = "up"
    BY <1>1, <2>1, WorkerUp DEF ParkedPc
  <2> QED BY <1>1, <2>2, <2>3, <2>4, <2>5, WorkerMoves
<1>3. CASE AddToPubsub(r)
  <2>1. /\ call[r].pc = "addToPubsub" /\ p \in Obj /\ obj[p].phase = "live"
        /\ obj[p].srv = At(r) /\ obj[p].conv = call[r].conv /\ r \in obj[p].joins
        /\ UNCHANGED obj
    BY <1>1, <1>3 DEF AddToPubsub, Joins
  <2>2. OnlyMoves(r) /\ call'[r].conv = call[r].conv
        /\ \/ call'[r].pc = "error"
           \/ call'[r].pc = "ok" /\ hub[At(r)][call[r].conv] # None
    BY <1>1, <1>3 DEF AddToPubsub, Enter, Idle, OnlyMoves
  <2>3. At(r) \in Server /\ call[r].conv \in Conv
    BY <1>1, <2>1, CallerAt DEF IInv, SessionsOwn
  <2> HIDE DEF p
  <2>4. Mild /\ proc[At(r)] = "up"
    BY <1>1, <2>1, SameMild, WorkerUp DEF ParkedPc
  <2>5. ASSUME call'[r].pc = "ok" PROVE JoinKept(r)'
    <3>1. hub[At(r)][call[r].conv] # None
      BY <2>2, <2>5
    <3>2. /\ call[r].conv \notin stored
          /\ \A j \in Caller : call[j].pc = "getConversation" => call[j].conv # call[r].conv
          /\ \A o \in Obj : Holds(o) /\ obj[o].conv = call[r].conv
                             => o = hub[At(r)][call[r].conv]
      BY <2>3, <3>1 DEF IInv, HubOwner
    <3>3. Holds(p)
      BY <2>1 DEF Holds
    <3>4. \A o \in Obj : Holds(o) /\ obj[o].conv = call[r].conv => o = p
      BY <2>1, <3>2, <3>3
    <3>5. \A o \in Obj : Holds(o)' = Holds(o)
      BY <2>1 DEF Holds
    <3>6. \A j \in Caller : call'[j] = call[j] \/ call'[j].pc # "getConversation"
      BY <2>2, <2>5 DEF OnlyMoves
    <3> QED BY <1>1, <2>1, <2>2, <3>2, <3>4, <3>5, <3>6 DEF JoinKept, storage
  <2>6. CASE call'[r].pc = "ok"
    <3>1. Joins(r)'
      BY <2>6 DEF Joins
    <3> QED BY <1>1, <2>2, <2>4, <2>5, <2>6, <3>1, WorkerMoves
  <2>7. CASE call'[r].pc = "error"
    BY <1>1, <2>2, <2>4, <2>7, WorkerMoves
  <2> QED BY <2>2, <2>6, <2>7
<1>4. CASE AddListenerRequest(r)
  <2>1. call[r].pc = "admit" /\ p \in Obj /\ obj' = [obj EXCEPT ![p].joins = @ \cup {r}]
    BY <1>1, <1>4 DEF AddListenerRequest, Joins
  <2>2. OnlyMoves(r) /\ call'[r].pc = "asked"
    BY <1>1, <1>4 DEF AddListenerRequest, Enter, Idle, OnlyMoves
  <2> HIDE DEF p
  <2>3. Mild /\ proc[At(r)] = "up"
    BY <1>1, <2>1, EnteredMild, WorkerUp DEF ParkedPc
  <2> QED BY <1>1, <2>2, <2>3, WorkerMoves
<1>5. ASSUME NEW c \in Conv, Arrive(r, c) PROVE Orderly'
  <2>1. /\ OnlyMoves(r) /\ call'[r].pc = "lookup" /\ proc[At(r)] = "up" /\ UNCHANGED obj
    BY <1>1, <1>5 DEF Arrive, Enter, Idle, OnlyMoves
  <2> QED BY <1>1, <2>1, SameMild, WorkerMoves
<1> QED BY <1>2, <1>3, <1>4, <1>5

(* Servers are quiet when they are interrupted. *)
LEMMA ShutdownOrderly ==
    ASSUME IInv, Orderly, NEW s \in Server,
           \/ Interrupt(s) /\ Quiet'
           \/ LoopDone(s) \/ QueueSuspended(s) \/ \E c \in Conv : ShutdownSession(s, c)
    PROVE  Orderly'
<1>1. /\ shut \in [Server -> ShutType] /\ obj \in [Obj -> ObjType]
      /\ proc \in [Server -> {"new", "up", "closing", "exited"}]
      /\ UNCHANGED <<call, storage>>
  BY DEF IInv, TypeOK, Interrupt, LoopDone, QueueSuspended, ShutdownSession
<1>2. \A j \in Caller : At(j)' = At(j) /\ At(j) \in Server
  BY CallerAt DEF At
<1>3. CASE Interrupt(s) /\ Quiet'
  <2>1. /\ UNCHANGED obj /\ proc'[s] = "closing"
        /\ \A t \in Server : t # s => proc'[t] = proc[t] /\ shut'[t] = shut[t]
    BY <1>1, <1>3 DEF Interrupt
  <2>2. \A k \in Caller : At(k) = s => call[k].pc \in ParkedPc
    BY <1>1, <1>2, <1>3, <2>1 DEF Quiet, ParkedPc
  <2>3. Parked'
    BY <1>1, <1>2, <2>1, <2>2 DEF Orderly, Parked
  <2> QED BY <1>1, <2>1, <2>3, SameMild, NobodyWorks
<1>4. CASE LoopDone(s) \/ QueueSuspended(s)
  <2>1. UNCHANGED <<obj, proc>>
    BY <1>4 DEF LoopDone, QueueSuspended
  <2>2. \A t \in Server : shut'[t].looping => shut[t].looping
    BY <1>1, <1>4 DEF LoopDone, QueueSuspended, ShutType
  <2>3. Parked'
    BY <1>1, <1>2, <2>1, <2>2 DEF Orderly, Parked
  <2> QED BY <1>1, <2>1, <2>3, SameMild, NobodyWorks
<1>5. ASSUME NEW c \in Conv, ShutdownSession(s, c) PROVE Orderly'
  <2> DEFINE o == sessions[s][c]
  <2>1. /\ o \in Obj /\ obj[o].phase = "live" /\ obj[o].srv = s /\ proc[s] = "closing"
        /\ SetPhase(o, "grace") /\ UNCHANGED proc
    BY <1>5, RunningLive DEF ShutdownSession, IInv, Base, Orderly, Parked
  <2> HIDE DEF o
  <2>2. /\ obj'[o].phase = "grace" /\ obj'[o].conv = obj[o].conv /\ obj'[o].joins = obj[o].joins
        /\ \A q \in Obj : q # o => obj'[q] = obj[q]
    BY <1>1, <2>1 DEF SetPhase, ObjType
  <2>3. Mild
    BY <2>1, <2>2 DEF Mild, Holds
  <2>4. \A t \in Server : shut'[t].looping = shut[t].looping
    BY <1>1, <1>5 DEF ShutdownSession, ShutType
  <2>5. Parked'
    BY <1>1, <1>2, <2>1, <2>4 DEF Orderly, Parked
  <2> QED BY <1>1, <2>3, <2>5, NobodyWorks
<1> QED BY <1>3, <1>4, <1>5

LEMMA EndGraceOrderly ==
    ASSUME IInv, Orderly, NEW o \in Obj, EndGrace(o)
    PROVE  Orderly'
<1>1. /\ obj \in [Obj -> ObjType] /\ UNCHANGED <<call, storage, proc, shut>>
      /\ obj[o].phase = "grace" /\ SetPhase(o, "ended")
  BY DEF IInv, TypeOK, EndGrace
<1>2. /\ obj'[o].phase = "ended" /\ obj'[o].conv = obj[o].conv /\ obj'[o].joins = obj[o].joins
      /\ \A q \in Obj : q # o => obj'[q] = obj[q]
  BY <1>1 DEF SetPhase, ObjType
<1>3. Mild
  BY <1>1, <1>2 DEF Mild, Holds
<1>4. Parked'
  BY <1>1 DEF Orderly, Parked, At
<1> QED BY <1>1, <1>3, <1>4, NobodyWorks

(* The save: what is stored has the participants of the session value. *)
LEMMA SaveOrderly ==
    ASSUME IInv, Orderly, NEW o \in Obj, SaveState(o)
    PROVE  Orderly'
<1> DEFINE s == obj[o].srv  c == obj[o].conv
<1>1. /\ obj \in [Obj -> ObjType] /\ obj[o].phase = "ended" /\ Holds(o)
      /\ c \in Conv /\ s \in Server /\ stored \subseteq Conv
      /\ image \in [Conv -> SUBSET Request] /\ shut \in [Server -> ShutType]
      /\ UNCHANGED <<call, proc>>
  BY DEF IInv, TypeOK, SessionsOwn, SaveState, Holds
<1>2. /\ obj'[o].phase \in {"saved", "free"}
      /\ \A q \in Obj : q # o => obj'[q] = obj[q]
  <2>1. [obj[o] EXCEPT !.phase = "saved"].phase = "saved"
    BY <1>1 DEF ObjType
  <2> QED BY <1>1, <2>1 DEF SaveState, NoSession
<1>3. Mild
  BY <1>1, <1>2 DEF Mild, Holds
<1>4. Parked'
  <2>1. shut' = [shut EXCEPT ![s].completed = Append(@, c)]
    BY DEF SaveState
  <2>2. \A t \in Server : shut'[t].looping = shut[t].looping
    BY <1>1, <2>1 DEF ShutType
  <2>3. \A j \in Caller : At(j)' = At(j)
    BY DEF At
  <2> QED BY <1>1, <2>2, <2>3 DEF Orderly, Parked
<1>5. CASE UNCHANGED storage
  BY <1>1, <1>3, <1>4, <1>5, NobodyWorks
<1>6. CASE stored' = stored \cup {c} /\ image' = [image EXCEPT ![c] = obj[o].joins]
  <2>1. \A j \in Caller : call[j].pc = "delete" => call[j].conv \in Conv /\ call[j].conv # c
    BY <1>1 DEF IInv, CallersOwn, LoadPc, OnePlace
  <2> HIDE DEF c, s
  <2>2. image'[c] = obj[o].joins /\ \A d \in Conv : d # c => image'[d] = image[d]
    BY <1>1, <1>6
  <2>3. ReadKept'
    BY <1>1, <2>1, <2>2 DEF Orderly, ReadKept
  <2>4. ASSUME NEW r \in Request PROVE Joins(r)' /\ JoinKept(r)'
    <3>1. Joins(r)' /\ JoinKept(r)
      BY <1>1, <1>3, JoinsStay DEF Orderly
    <3>2. call[r].pc = "ok" /\ call[r].conv \in stored' => r \in image'[call[r].conv]
      <4>1. CASE call[r].conv = c
        BY <1>1, <2>2, <3>1, <4>1 DEF JoinKept, c
      <4>2. CASE call[r].conv # c
        BY <1>1, <1>6, <2>2, <3>1, <4>2 DEF JoinKept
      <4> QED BY <4>1, <4>2
    <3>3. \A q \in Obj : call[r].pc = "ok" /\ Holds(q)' /\ obj'[q].conv = call[r].conv
                          => r \in obj'[q].joins
      BY <1>3, <3>1 DEF JoinKept, Mild
    <3>4. JoinKept(r)'
      BY <1>1, <3>1, <3>2, <3>3 DEF JoinKept
    <3> QED BY <3>1, <3>4
  <2> QED BY <1>4, <2>3, <2>4 DEF Orderly
<1> QED BY <1>5, <1>6 DEF SaveState

LEMMA DieOrderly ==
    ASSUME IInv, Orderly, NEW s \in Server, Die(s)
    PROVE  Orderly'
<1>1. /\ \A k \in Caller : /\ call'[k].pc = "cut" \/ call'[k] = call[k]
                           /\ At(k) = s => call'[k].pc \in ParkedPc
                           /\ At(k) # s => call'[k] = call[k]
      /\ proc'[s] = "exited" /\ ~shut'[s].looping
      /\ \A t \in Server : t # s => proc'[t] = proc[t] /\ shut'[t] = shut[t]
      /\ \A o \in Obj : obj'[o] = IF obj[o].srv = s THEN NoSession ELSE obj[o]
      /\ UNCHANGED storage
  BY DEF Die, Idle, ParkedPc, NoShutdown, IInv, TypeOK
<1>2. \A j \in Caller : At(j)' = At(j) /\ At(j) \in Server
  BY CallerAt DEF At
<1>3. Parked'
  BY <1>1, <1>2 DEF Orderly, Parked
<1>4. ReadKept'
  BY <1>1 DEF Orderly, ReadKept, storage
<1>5. ASSUME NEW r \in Request PROVE Joins(r)' /\ JoinKept(r)'
  <2>1. r \in Caller /\ Joins(r) /\ JoinKept(r)
    BY DEF Caller, Orderly
  <2>2. Joins(r)'
    BY <1>1, <1>2, <2>1 DEF Joins, ParkedPc
  <2>3. \A o \in Obj : Holds(o)' => Holds(o) /\ obj'[o] = obj[o]
    BY <1>1 DEF Holds, NoSession
  <2>4. JoinKept(r)'
    BY <1>1, <2>1, <2>3 DEF JoinKept, storage
  <2> QED BY <2>2, <2>4
<1> QED BY <1>3, <1>4, <1>5 DEF Orderly

LEMMA InitOrderly == Init => Orderly
<1> SUFFICES ASSUME Init PROVE Orderly
  OBVIOUS
<1>1. /\ \A k \in Caller : call[k].pc = "idle"
      /\ \A s \in Server : ~shut[s].looping
  BY DEF Init, Idle, NoShutdown
<1>2. \A r \in Request : r \in Caller
  BY DEF Caller
<1> QED BY <1>1, <1>2 DEF Orderly, Parked, ParkedPc, ReadKept, Joins, JoinKept

LEMMA NextOrderly ==
    ASSUME "delete" \notin Faults, IInv, Orderly, [Next /\ LoadsApart' /\ Quiet']_vars
    PROVE  Orderly'
<1>1. ASSUME NEW s \in Server, Quiet',
             Startup(s) \/ Crash(s) \/ Interrupt(s) \/ ShutdownAll(s)
               \/ TakeSuspended(s) \/ StopLoading(s) \/ RemoveSuspended(s)
      PROVE  Orderly'
  <2>1. CASE Startup(s) \/ TakeSuspended(s) \/ StopLoading(s) \/ RemoveSuspended(s)
    BY <2>1, LoaderOrderly
  <2>2. CASE Crash(s) \/ Exit(s)
    BY <2>2, DieOrderly DEF Crash, Exit
  <2>3. CASE Interrupt(s) \/ LoopDone(s) \/ QueueSuspended(s)
    BY <1>1, <2>3, ShutdownOrderly
  <2>4. CASE \E c \in Conv : ShutdownSession(s, c)
    BY <2>4, ShutdownOrderly
  <2> QED BY <1>1, <2>1, <2>2, <2>3, <2>4 DEF ShutdownAll
<1>2. ASSUME NEW k \in Caller, GetSession(k) PROVE Orderly'
  BY <1>2, LookupOrderly, FetchOrderly, DeleteOrderly, MakeOrderly, StartOrderly,
     RegisterOrderly DEF GetSession
<1>3. ASSUME NEW r \in Request, Handler(r) \/ \E c \in Conv : Arrive(r, c) PROVE Orderly'
  BY <1>2, <1>3, HandlerOrderly DEF Handler, Caller
<1>4. ASSUME NEW o \in Obj, Grace(o) PROVE Orderly'
  BY <1>4, EndGraceOrderly, SaveOrderly DEF Grace
<1>5. CASE UNCHANGED vars
  <2>1. UNCHANGED <<proc, shut, obj, call, storage>>
    BY <1>5 DEF vars, storage
  <2>2. Parked'
    BY <2>1 DEF Orderly, Parked, At
  <2> QED BY <2>1, <2>2, SameMild, NobodyWorks
<1> QED BY <1>1, <1>2, <1>3, <1>4, <1>5 DEF Next, Loader, Caller

LEMMA OrderlyInvariant ==
    ASSUME "delete" \notin Faults
    PROVE  OrderlySpec => [](IInv /\ Orderly)
<1>1. Init => IInv /\ Orderly
  BY IInvInductive, InitOrderly
<1>2. IInv /\ Orderly /\ [Next /\ LoadsApart' /\ Quiet']_vars => IInv' /\ Orderly'
  <2> SUFFICES ASSUME IInv, Orderly, [Next /\ LoadsApart' /\ Quiet']_vars
               PROVE  IInv' /\ Orderly'
    OBVIOUS
  <2>1. [Next /\ LoadsApart']_vars
    OBVIOUS
  <2> QED BY <2>1, IInvInductive, NextOrderly
<1> QED BY <1>1, <1>2, PTL DEF OrderlySpec

(* If servers are quiet when they are interrupted and loads do not         *)
(* overlap, one who was told that it has joined is a participant of the    *)
(* session wherever that goes, whatever else fails and whichever servers   *)
(* crash.                                                                  *)
THEOREM AckedJoinAlwaysKept ==
    ASSUME "delete" \notin Faults
    PROVE  OrderlySpec => []AckedJoinKept
<1>1. Orderly => AckedJoinKept
  BY DEF Orderly, JoinKept, AckedJoinKept, Holds
<1> QED BY <1>1, OrderlyInvariant, PTL

-----------------------------------------------------------------------------
(* Orderly deployments: no session is lost without a failure               *)

Unfinished(o) == obj[o].phase \in {"live", "grace", "ended"}

(* The conversations whose sessions server s has still to save.            *)
Undone(s) == {c \in Conv : \E o \in Obj : Unfinished(o) /\ obj[o].srv = s /\ obj[o].conv = c}

(* Nobody is forgotten: a session value in start() has a caller, a live    *)
(* one is registered, the others are of a server that shuts down; and that *)
(* counts on as many as are to be saved or queued.                         *)
Accounted ==
    /\ \A o \in Obj : obj[o].phase = "starting" =>
         \E k \in Caller : call[k].pc \in StartPc /\ call[k].obj = o
    /\ \A o \in Obj : obj[o].phase = "live" => sessions[obj[o].srv][obj[o].conv] = o
    /\ \A o \in Obj : obj[o].phase \in {"grace", "ended"} => proc[obj[o].srv] = "closing"

Counted ==
    \A s \in Server : proc[s] = "closing" =>
        shut[s].left = Cardinality(Undone(s)) + Len(shut[s].completed)

(* What is unfinished on s stays so, and nothing else becomes so.          *)
SameUndone(s) ==
    \A o \in Obj :
        /\ Unfinished(o)' /\ obj'[o].srv = s <=> Unfinished(o) /\ obj[o].srv = s
        /\ Unfinished(o) /\ obj[o].srv = s => obj'[o].conv = obj[o].conv

LEMMA UndoneSame ==
    ASSUME NEW s \in Server, SameUndone(s)
    PROVE  Undone(s)' = Undone(s)
BY DEF SameUndone, Undone

LEMMA CountStays ==
    ASSUME Counted, NEW s \in Server, SameUndone(s),
           proc'[s] = "closing" => proc[s] = "closing",
           shut'[s].left = shut[s].left, shut'[s].completed = shut[s].completed
    PROVE  proc'[s] = "closing" =>
             shut'[s].left = Cardinality(Undone(s)') + Len(shut'[s].completed)
BY UndoneSame, Zenon DEF Counted

(* The starters that go on in start() keep their session values.           *)
Starters == \A k \in Caller : call[k].pc \in StartPc =>
                call'[k].pc \in StartPc /\ call'[k].obj = call[k].obj

LEMMA SameAccount ==
    ASSUME Accounted, Counted, SameHands, Starters, UNCHANGED <<sessions, shut>>,
           \A s \in Server : proc'[s] = "closing" <=> proc[s] = "closing",
           IInv
    PROVE  Accounted' /\ Counted'
<1>1. \A o \in Obj : obj[o].phase # "free" => obj[o].srv \in Server
  BY DEF IInv, SessionsOwn
<1>2. Accounted'
  BY <1>1 DEF Accounted, SameHands, Starters
<1>3. Counted'
  <2> SUFFICES ASSUME NEW s \in Server
               PROVE  proc'[s] = "closing" =>
                        shut'[s].left = Cardinality(Undone(s)') + Len(shut'[s].completed)
    BY DEF Counted
  <2>1. SameUndone(s)
    BY DEF SameUndone, SameHands, Unfinished
  <2> QED BY <2>1, CountStays
<1> QED BY <1>2, <1>3

(* A session value changes its phase, with its server and conversation.    *)
Passes(o, p) ==
    /\ obj'[o].phase = p /\ obj'[o].srv = obj[o].srv /\ obj'[o].conv = obj[o].conv
    /\ \A q \in Obj : q # o => obj'[q] = obj[q]

LEMMA SetPhasePasses ==
    ASSUME IInv, NEW o \in Obj, NEW p \in ObjPhase, SetPhase(o, p)
    PROVE  Passes(o, p)
BY SetPhaseMoves DEF Passes, IInv, TypeOK

LEMMA LoaderCounted ==
    ASSUME IInv, Orderly, Accounted, Counted, NEW s \in Server,
           Startup(s) \/ TakeSuspended(s) \/ StopLoading(s) \/ RemoveSuspended(s)
    PROVE  Accounted' /\ Counted'
<1>1. call \in [Caller -> CallType] /\ s \in Caller
      /\ proc \in [Server -> {"new", "up", "closing", "exited"}]
  BY DEF IInv, TypeOK, Caller
<1>2. SameHands /\ UNCHANGED <<sessions, shut>>
  BY DEF SameHands, Startup, TakeSuspended, StopLoading, RemoveSuspended
<1>3. call[s].pc \notin StartPc
  <2>1. CASE Startup(s)
    <3>1. proc[s] # "up" /\ At(s) = s
      BY <2>1 DEF Startup, At
    <3>2. call[s].pc \in ParkedPc
      BY <1>1, <3>1 DEF Orderly, Parked
    <3> QED BY <3>2 DEF StartPc, ParkedPc
  <2> QED BY <2>1 DEF TakeSuspended, StopLoading, RemoveSuspended, StartPc
<1>4. OnlyMoves(s)
  BY <1>1 DEF Startup, TakeSuspended, StopLoading, RemoveSuspended, GoTo, Enter, OnlyMoves
<1>5. \A t \in Server : proc'[t] = "closing" <=> proc[t] = "closing"
  BY <1>1 DEF Startup, TakeSuspended, StopLoading, RemoveSuspended
<1> QED BY <1>2, <1>3, <1>4, <1>5, SameAccount DEF Starters, OnlyMoves

(* A caller that is not in start(), or goes on in it.                      *)
LEMMA CallerCounted ==
    ASSUME IInv, Accounted, Counted, NEW k \in Caller,
           \/ Lookup(k) \/ FetchState(k) \/ DeleteState(k)
           \/ MakeSession(k) /\ UNCHANGED obj
           \/ (StartPubsub(k) \/ AddParticipants(k)) /\ ~GiveUp(k)
    PROVE  Accounted' /\ Counted'
<1>1. call \in [Caller -> CallType]
  BY DEF IInv, TypeOK
<1>2. SameHands /\ UNCHANGED <<sessions, shut, proc>>
  BY DEF SameHands, Lookup, FetchState, DeleteState, MakeSession, StartPubsub, AddParticipants
<1>3. CASE Lookup(k) \/ FetchState(k) \/ DeleteState(k) \/ (MakeSession(k) /\ UNCHANGED obj)
  <2>1. call[k].pc \notin StartPc
    BY <1>3 DEF Lookup, FetchState, DeleteState, MakeSession, StartPc
  <2>2. OnlyMoves(k)
    <3>1. CASE Lookup(k)
      BY <1>1, <3>1 DEF Lookup, GoTo, Return, OnlyMoves
    <3>2. CASE FetchState(k)
      BY <1>1, <3>2 DEF FetchState, Return, OnlyMoves
    <3>3. CASE DeleteState(k)
      BY <1>1, <3>3 DEF DeleteState, GoTo, OnlyMoves
    <3>4. CASE MakeSession(k)
      BY <1>1, <3>4 DEF MakeSession, Return, OnlyMoves
    <3> QED BY <1>3, <3>1, <3>2, <3>3, <3>4
  <2> QED BY <1>2, <2>1, <2>2, SameAccount DEF Starters, OnlyMoves
<1>4. CASE (StartPubsub(k) \/ AddParticipants(k)) /\ ~GiveUp(k)
  <2>1. GoTo(k, "addParticipants") \/ GoTo(k, "register")
    BY <1>4 DEF StartPubsub, AddParticipants
  <2>2. OnlyMoves(k) /\ call'[k].pc \in StartPc /\ call'[k].obj = call[k].obj
    BY <1>1, <2>1 DEF GoTo, OnlyMoves, StartPc, CallType
  <2> QED BY <1>2, <2>2, SameAccount DEF Starters, OnlyMoves
<1> QED BY <1>3, <1>4

LEMMA HandlerCounted ==
    ASSUME IInv, Accounted, Counted, NEW r \in Request,
           \/ NewParticipant(r) \/ AddToPubsub(r) \/ AddListenerRequest(r)
           \/ \E c \in Conv : Arrive(r, c)
    PROVE  Accounted' /\ Counted'
<1>1. /\ call \in [Caller -> CallType] /\ obj \in [Obj -> ObjType] /\ r \in Caller
      /\ UNCHANGED <<sessions, shut, proc>>
  BY DEF IInv, TypeOK, Caller, NewParticipant, AddToPubsub, AddListenerRequest, Arrive
<1>2. SameHands
  <2>1. ASSUME obj' = [obj EXCEPT ![call[r].obj].joins = @ \cup {r}] PROVE SameHands
    BY <1>1, <2>1 DEF SameHands, ObjType
  <2>2. ASSUME UNCHANGED obj PROVE SameHands
    BY <2>2 DEF SameHands
  <2> QED BY <2>1, <2>2 DEF NewParticipant, AddToPubsub, AddListenerRequest, Arrive
<1>3. OnlyMoves(r) /\ call[r].pc \notin StartPc
  <2>1. call[r].pc \in {"admit", "addToPubsub", "idle"}
    BY DEF NewParticipant, AddToPubsub, AddListenerRequest, Arrive
  <2>2. OnlyMoves(r)
    BY <1>1 DEF NewParticipant, AddToPubsub, AddListenerRequest, Arrive, GoTo, Enter, OnlyMoves
  <2> QED BY <2>1, <2>2 DEF StartPc
<1> QED BY <1>1, <1>2, <1>3, SameAccount DEF Starters, OnlyMoves

LEMMA MakeCounted ==
    ASSUME IInv, Accounted, Counted, NEW k \in Caller, MakeSession(k), ~UNCHANGED obj
    PROVE  Accounted' /\ Counted'
<1>1. /\ call \in [Caller -> CallType] /\ obj \in [Obj -> ObjType]
      /\ call[k].pc = "getConversation" /\ UNCHANGED <<proc, shut, sessions>>
  BY DEF IInv, TypeOK, MakeSession
<1> DEFINE o == CHOOSE q \in Phase("free") : TRUE
           new == [phase |-> "starting", srv |-> At(k),
                   conv |-> call[k].conv, joins |-> call[k].joins]
<1>2. /\ o \in Obj /\ obj[o].phase = "free"
      /\ obj' = [obj EXCEPT ![o] = new]
      /\ call' = [call EXCEPT ![k] = [@ EXCEPT !.pc = "startPubsub", !.obj = o]]
  BY FreshIsFree DEF MakeSession
<1> HIDE DEF o
<1>3. obj'[o].phase = "starting" /\ \A q \in Obj : q # o => obj'[q] = obj[q]
  BY <1>1, <1>2
<1>4. OnlyMoves(k) /\ call'[k].pc = "startPubsub" /\ call'[k].obj = o
  BY <1>1, <1>2 DEF CallType, OnlyMoves
<1> HIDE DEF new
<1>5. Accounted'
  <2>1. ASSUME NEW q \in Obj, obj'[q].phase = "starting"
        PROVE  \E j \in Caller : call'[j].pc \in StartPc /\ call'[j].obj = q
    <3>1. CASE q = o
      BY <1>4, <3>1 DEF StartPc
    <3>2. CASE q # o
      <4>1. PICK j \in Caller : call[j].pc \in StartPc /\ call[j].obj = q
        BY <1>3, <2>1, <3>2 DEF Accounted
      <4>2. j # k
        BY <1>1, <4>1 DEF StartPc
      <4> QED BY <1>4, <4>1, <4>2 DEF OnlyMoves
    <3> QED BY <3>1, <3>2
  <2> QED BY <1>1, <1>3, <2>1 DEF Accounted
<1>6. ASSUME NEW s \in Server PROVE SameUndone(s)
  BY <1>2, <1>3 DEF SameUndone, Unfinished
<1>7. Counted'
  BY <1>1, <1>6, CountStays DEF Counted
<1> QED BY <1>5, <1>7

(* A session value that was in start() is freed with its caller's return.  *)
LEMMA GiveUpCounted ==
    ASSUME IInv, Accounted, Counted, NEW k \in Caller, StartPubsub(k) \/ AddParticipants(k),
           GiveUp(k)
    PROVE  Accounted' /\ Counted'
<1> DEFINE p == call[k].obj
<1>1. /\ call \in [Caller -> CallType] /\ obj \in [Obj -> ObjType]
      /\ p \in Obj /\ obj[p].phase = "starting" /\ UNCHANGED <<proc, shut, sessions>>
  BY DEF IInv, TypeOK, StartPubsub, AddParticipants, CallersOwn, StartPc
<1>2. obj'[p].phase = "free" /\ \A q \in Obj : q # p => obj'[q] = obj[q]
  BY <1>1 DEF GiveUp, NoSession
<1>3. OnlyMoves(k)
  BY <1>1, ReturnsNone DEF GiveUp
<1>4. Accounted'
  <2>1. ASSUME NEW q \in Obj, obj'[q].phase = "starting"
        PROVE  \E j \in Caller : call'[j].pc \in StartPc /\ call'[j].obj = q
    <3>1. q # p
      BY <1>2, <2>1
    <3>2. PICK j \in Caller : call[j].pc \in StartPc /\ call[j].obj = q
      BY <1>2, <2>1, <3>1 DEF Accounted
    <3>3. j # k
      BY <3>1, <3>2
    <3> QED BY <1>3, <3>2, <3>3 DEF OnlyMoves
  <2> QED BY <1>1, <1>2, <2>1 DEF Accounted
<1>5. ASSUME NEW s \in Server PROVE SameUndone(s)
  BY <1>1, <1>2 DEF SameUndone, Unfinished
<1>6. Counted'
  BY <1>1, <1>5, CountStays DEF Counted
<1> QED BY <1>4, <1>6

(* What is registered is counted only later: the server is up.             *)
LEMMA RegisterCounted ==
    ASSUME IInv, Orderly, Accounted, Counted, NEW k \in Caller, Register(k)
    PROVE  Accounted' /\ Counted'
<1> DEFINE o == call[k].obj  s == At(k)  c == call[k].conv
<1>1. /\ call \in [Caller -> CallType] /\ call[k].pc = "register"
      /\ UNCHANGED <<proc, shut>>
      /\ o \in Obj /\ obj[o].phase = "starting" /\ obj[o].srv = s /\ obj[o].conv = c
      /\ s \in Server /\ c \in Conv
      /\ sessions \in [Server -> [Conv -> Obj \cup {None}]]
      /\ sessions' = [sessions EXCEPT ![s][c] = o]
      /\ SetPhase(o, "live") /\ Return(k, o)
  BY CallerAt DEF IInv, TypeOK, Register, CallersOwn, StartPc, LoadPc
<1>2. proc[s] = "up"
  BY <1>1, WorkerUp DEF ParkedPc
<1>3. \A q \in Obj : Holds(q) /\ obj[q].conv = c => q = o
  BY <1>1 DEF IInv, OnePlace, Holds
<1>4. OnlyMoves(k)
  BY <1>1, ReturnsSession
<1> HIDE DEF s, c
<1>5. Passes(o, "live")
  BY <1>1, SetPhasePasses DEF ObjPhase
<1>6. /\ sessions'[s][c] = o
      /\ \A t \in Server, d \in Conv : d # c => sessions'[t][d] = sessions[t][d]
  BY <1>1
<1>7. \A j \in Caller : call[j].pc \in StartPc /\ j # k => call[j].obj # o
  BY <1>1 DEF IInv, CallersOwn, StartPc
<1>8. Accounted'
  <2>1. ASSUME NEW q \in Obj, obj'[q].phase = "starting"
        PROVE  \E j \in Caller : call'[j].pc \in StartPc /\ call'[j].obj = q
    <3>1. q # o /\ obj[q].phase = "starting"
      BY <1>5, <2>1 DEF Passes
    <3>2. PICK j \in Caller : call[j].pc \in StartPc /\ call[j].obj = q
      BY <3>1 DEF Accounted
    <3>3. j # k
      BY <3>1, <3>2
    <3> QED BY <1>4, <3>2, <3>3 DEF OnlyMoves
  <2>2. ASSUME NEW q \in Obj, obj'[q].phase = "live"
        PROVE  sessions'[obj'[q].srv][obj'[q].conv] = q
    <3>1. CASE q = o
      BY <1>1, <1>5, <1>6, <3>1 DEF Passes
    <3>2. CASE q # o
      <4>1. obj'[q] = obj[q] /\ obj[q].phase = "live"
        BY <1>5, <2>2, <3>2 DEF Passes
      <4>2. obj[q].conv \in Conv /\ obj[q].srv \in Server /\ obj[q].conv # c
        BY <1>3, <3>2, <4>1 DEF IInv, SessionsOwn, Holds
      <4> QED BY <1>6, <4>1, <4>2 DEF Accounted
    <3> QED BY <3>1, <3>2
  <2>3. ASSUME NEW q \in Obj, obj'[q].phase \in {"grace", "ended"}
        PROVE  proc'[obj'[q].srv] = "closing"
    <3>1. obj'[q] = obj[q]
      BY <1>5, <2>3 DEF Passes
    <3> QED BY <1>1, <2>3, <3>1 DEF Accounted
  <2> QED BY <2>1, <2>2, <2>3 DEF Accounted
<1>9. Counted'
  <2> SUFFICES ASSUME NEW t \in Server, proc'[t] = "closing"
               PROVE  shut'[t].left = Cardinality(Undone(t)') + Len(shut'[t].completed)
    BY DEF Counted
  <2>1. t # s
    BY <1>1, <1>2
  <2>2. SameUndone(t)
    BY <1>1, <1>5, <2>1 DEF SameUndone, Unfinished, Passes
  <2> QED BY <1>1, <2>2, CountStays
<1> QED BY <1>8, <1>9

(* Shutdown of a session, up to the end of its grace: it is still counted. *)
LEMMA PassCounted ==
    ASSUME IInv, Orderly, Accounted, Counted, NEW o \in Obj,
           \/ \E s \in Server, c \in Conv : ShutdownSession(s, c) /\ o = sessions[s][c]
           \/ EndGrace(o)
    PROVE  Accounted' /\ Counted'
<1>1. /\ sessions \in [Server -> [Conv -> Obj \cup {None}]] /\ shut \in [Server -> ShutType]
      /\ UNCHANGED <<proc, call>>
  BY DEF IInv, TypeOK, ShutdownSession, EndGrace
<1>2. /\ obj[o].phase \in {"live", "grace"} /\ proc[obj[o].srv] = "closing"
      /\ Passes(o, "grace") \/ Passes(o, "ended")
  <2>1. CASE EndGrace(o)
    BY <2>1, SetPhasePasses DEF EndGrace, Accounted, ObjPhase
  <2>2. ASSUME NEW s \in Server, NEW c \in Conv, ShutdownSession(s, c), o = sessions[s][c]
        PROVE  obj[o].phase = "live" /\ proc[obj[o].srv] = "closing" /\ Passes(o, "grace")
    BY <2>2, RunningLive, SetPhasePasses
       DEF ShutdownSession, ObjPhase, IInv, Base, Orderly, Parked
  <2> QED BY <2>1, <2>2
<1>3. \A q \in Obj : q # o /\ obj[q].phase = "live" =>
         sessions'[obj[q].srv][obj[q].conv] = sessions[obj[q].srv][obj[q].conv]
  <2>1. CASE EndGrace(o)
    BY <2>1 DEF EndGrace
  <2>2. ASSUME NEW s \in Server, NEW c \in Conv, ShutdownSession(s, c), o = sessions[s][c],
               NEW q \in Obj, q # o, obj[q].phase = "live"
        PROVE  sessions'[obj[q].srv][obj[q].conv] = sessions[obj[q].srv][obj[q].conv]
    <3>1. sessions[obj[q].srv][obj[q].conv] = q /\ obj[q].srv \in Server /\ obj[q].conv \in Conv
      BY <2>2 DEF Accounted, IInv, SessionsOwn
    <3>2. sessions' = [sessions EXCEPT ![s][c] = None]
      BY <2>2 DEF ShutdownSession
    <3> QED BY <1>1, <2>2, <3>1, <3>2
  <2> QED BY <2>1, <2>2
<1>4. \A t \in Server : shut'[t].left = shut[t].left /\ shut'[t].completed = shut[t].completed
  <2>1. CASE EndGrace(o)
    BY <2>1 DEF EndGrace
  <2>2. ASSUME NEW s \in Server, NEW c \in Conv, ShutdownSession(s, c)
        PROVE  \A t \in Server :
                 shut'[t].left = shut[t].left /\ shut'[t].completed = shut[t].completed
    BY <1>1, <2>2 DEF ShutdownSession, ShutType
  <2> QED BY <2>1, <2>2
<1>5. Accounted'
  BY <1>1, <1>2, <1>3 DEF Accounted, Passes
<1>6. ASSUME NEW t \in Server PROVE SameUndone(t)
  BY <1>2 DEF SameUndone, Unfinished, Passes
<1>7. Counted'
  BY <1>1, <1>4, <1>6, CountStays DEF Counted
<1> QED BY <1>5, <1>7

(* The sessions counted at the interrupt are those to be saved.            *)
LEMMA InterruptCounted ==
    ASSUME IInv, Accounted, Counted, NEW s \in Server, Interrupt(s)
    PROVE  Accounted' /\ Counted'
<1>1. /\ shut \in [Server -> ShutType] /\ proc[s] = "up"
      /\ proc \in [Server -> {"new", "up", "closing", "exited"}]
      /\ UNCHANGED <<sessions, obj, call>>
      /\ proc' = [proc EXCEPT ![s] = "closing"]
  BY DEF IInv, TypeOK, Interrupt
<1>2. \A t \in Server : t # s => proc'[t] = proc[t] /\ shut'[t] = shut[t]
  BY <1>1 DEF Interrupt
<1>3. shut'[s].left = Cardinality(Registered(s)) /\ shut'[s].completed = <<>>
  BY <1>1 DEF Interrupt
<1>4. \A o \in Obj : Unfinished(o) /\ obj[o].srv = s => obj[o].phase = "live"
  BY <1>1 DEF Unfinished, Accounted
<1>5. Undone(s)' = Registered(s)
  <2>1. Undone(s)' = Undone(s)
    BY <1>1 DEF Undone, Unfinished
  <2>2. ASSUME NEW c \in Conv, NEW o \in Obj, Unfinished(o), obj[o].srv = s, obj[o].conv = c
        PROVE  sessions[s][c] # None
    <3>1. sessions[s][c] = o
      BY <1>4, <2>2 DEF Accounted
    <3> QED BY <3>1, NoneIsNothing
  <2>3. ASSUME NEW c \in Conv, sessions[s][c] # None
        PROVE  \E o \in Obj : Unfinished(o) /\ obj[o].srv = s /\ obj[o].conv = c
    BY <2>3, RunningLive DEF IInv, Base, Unfinished
  <2> QED BY <2>1, <2>2, <2>3 DEF Undone, Registered
<1>6. Accounted'
  <2>1. \A t \in Server : proc[t] = "closing" => proc'[t] = "closing"
    BY <1>1
  <2>2. \A o \in Obj : obj[o].phase # "free" => obj[o].srv \in Server
    BY DEF IInv, SessionsOwn
  <2> QED BY <1>1, <2>1, <2>2 DEF Accounted
<1>7. Counted'
  <2> SUFFICES ASSUME NEW t \in Server, proc'[t] = "closing"
               PROVE  shut'[t].left = Cardinality(Undone(t)') + Len(shut'[t].completed)
    BY DEF Counted
  <2>1. CASE t = s
    <3>1. Registered(s) \subseteq Conv
      BY DEF Registered
    <3>2. Cardinality(Registered(s)) \in Nat
      BY <3>1, FiniteConversations, FS_Subset, FS_CardinalityType
    <3> QED BY <1>3, <1>5, <2>1, <3>2
  <2>2. CASE t # s
    <3>1. SameUndone(t)
      BY <1>1 DEF SameUndone, Unfinished
    <3> QED BY <1>2, <2>2, <3>1, CountStays
  <2> QED BY <2>1, <2>2
<1> QED BY <1>6, <1>7

(* One session fewer to queue, and one fewer to come.                      *)
LEMMA QueueCounted ==
    ASSUME IInv, Accounted, Counted, NEW s \in Server, LoopDone(s) \/ QueueSuspended(s)
    PROVE  Accounted' /\ Counted'
<1>1. /\ shut \in [Server -> ShutType] /\ UNCHANGED <<proc, sessions, obj, call>>
  BY DEF IInv, TypeOK, LoopDone, QueueSuspended
<1>2. Accounted'
  BY <1>1 DEF Accounted
<1>3. ASSUME NEW t \in Server PROVE SameUndone(t)
  BY <1>1 DEF SameUndone, Unfinished
<1>4. CASE LoopDone(s)
  <2>1. \A t \in Server : shut'[t].left = shut[t].left /\ shut'[t].completed = shut[t].completed
    BY <1>1, <1>4 DEF LoopDone, ShutType
  <2> QED BY <1>1, <1>2, <1>3, <2>1, CountStays DEF Counted
<1>5. CASE QueueSuspended(s)
  <2> DEFINE done == shut[s].completed
  <2>1. /\ done \in Seq(Conv) /\ done # <<>> /\ shut[s].left \in Nat
        /\ shut' = [shut EXCEPT ![s].left = @ - 1, ![s].completed = Tail(@)]
    BY <1>1, <1>5 DEF QueueSuspended, ShutType
  <2>2. /\ shut'[s].left = shut[s].left - 1 /\ shut'[s].completed = Tail(done)
        /\ \A t \in Server : t # s => shut'[t] = shut[t]
    BY <1>1, <2>1 DEF ShutType
  <2>3. Len(Tail(done)) = Len(done) - 1 /\ Len(done) \in Nat
    BY <2>1
  <2> HIDE DEF done
  <2>4. ASSUME NEW t \in Server, proc'[t] = "closing"
        PROVE  shut'[t].left = Cardinality(Undone(t)') + Len(shut'[t].completed)
    <3>1. Undone(t)' = Undone(t)
      BY <1>3, UndoneSame
    <3>2. shut[t].left = Cardinality(Undone(t)) + Len(shut[t].completed)
      BY <1>1, <2>4 DEF Counted
    <3>3. CASE t # s
      BY <2>2, <3>1, <3>2, <3>3
    <3>4. CASE t = s
      <4>1. Cardinality(Undone(s)) \in Nat
        <5>1. Undone(s) \subseteq Conv
          BY DEF Undone
        <5> QED BY <5>1, FiniteConversations, FS_Subset, FS_CardinalityType
      <4>2. shut[s].left = Cardinality(Undone(s)) + Len(done)
        BY <3>2, <3>4 DEF done
      <4>3. Cardinality(Undone(t)') = Cardinality(Undone(s))
        BY <3>1, <3>4
      <4>4. shut'[t].left = shut[s].left - 1 /\ Len(shut'[t].completed) = Len(done) - 1
        BY <2>2, <2>3, <3>4
      <4> QED BY <2>3, <4>1, <4>2, <4>3, <4>4
    <3> QED BY <3>3, <3>4
  <2> QED BY <1>2, <2>4 DEF Counted
<1> QED BY <1>4, <1>5

(* One session fewer to save, and one more to queue.                       *)
LEMMA SaveCounted ==
    ASSUME IInv, Accounted, Counted, NEW o \in Obj, SaveState(o),
           NEW s \in Server, NEW c \in Conv, obj[o].srv = s, obj[o].conv = c
    PROVE  Accounted' /\ Counted'
<1>1. /\ obj \in [Obj -> ObjType] /\ obj[o].phase = "ended" /\ Holds(o)
      /\ c \in Conv /\ s \in Server /\ shut \in [Server -> ShutType]
      /\ shut[s].completed \in Seq(Conv)
      /\ shut' = [shut EXCEPT ![s].completed = Append(@, c)]
      /\ UNCHANGED <<call, proc, sessions>>
  BY DEF IInv, TypeOK, SessionsOwn, SaveState, Holds, ShutType
<1>2. /\ obj'[o].phase \in {"saved", "free"}
      /\ \A q \in Obj : q # o => obj'[q] = obj[q]
  <2>1. [obj[o] EXCEPT !.phase = "saved"].phase = "saved"
    BY <1>1 DEF ObjType
  <2> QED BY <1>1, <2>1 DEF SaveState, NoSession
<1>3. \A q \in Obj : Unfinished(q) /\ obj[q].conv = c => q = o
  BY <1>1 DEF IInv, OnePlace, Holds, Unfinished
<1>4. Unfinished(o) /\ ~Unfinished(o)'
  BY <1>1, <1>2 DEF Unfinished
<1>5. Accounted'
  BY <1>1, <1>2 DEF Accounted
<1>6. /\ shut'[s].left = shut[s].left /\ shut'[s].completed = Append(shut[s].completed, c)
      /\ \A t \in Server : t # s => shut'[t] = shut[t]
  BY <1>1 DEF ShutType
<1>7. c \in Undone(s) /\ Undone(s)' = Undone(s) \ {c}
  <2>1. c \in Undone(s)
    BY <1>1, <1>4 DEF Undone
  <2>2. ASSUME NEW d \in Conv
        PROVE  d \in Undone(s)' <=> d \in Undone(s) /\ d # c
    <3>1. \A q \in Obj : Unfinished(q)' <=> Unfinished(q) /\ q # o
      BY <1>2, <1>4 DEF Unfinished
    <3>2. \A q \in Obj : Unfinished(q)' => obj'[q] = obj[q]
      BY <1>2, <1>4
    <3>3. d \in Undone(s)' => d \in Undone(s) /\ d # c
      BY <1>3, <3>1, <3>2 DEF Undone
    <3>4. d \in Undone(s) /\ d # c => d \in Undone(s)'
      BY <1>2, <3>1, <3>2 DEF Undone
    <3> QED BY <3>3, <3>4
  <2>3. Undone(s)' \subseteq Conv /\ Undone(s) \subseteq Conv
    BY DEF Undone
  <2> QED BY <2>1, <2>2, <2>3
<1>8. Counted'
  <2> SUFFICES ASSUME NEW t \in Server, proc'[t] = "closing"
               PROVE  shut'[t].left = Cardinality(Undone(t)') + Len(shut'[t].completed)
    BY DEF Counted
  <2>1. CASE t = s
    <3>1. IsFiniteSet(Undone(s))
      <4>1. Undone(s) \subseteq Conv
        BY DEF Undone
      <4> QED BY <4>1, FiniteConversations, FS_Subset
    <3>2. Cardinality(Undone(s) \ {c}) = Cardinality(Undone(s)) - 1
          /\ Cardinality(Undone(s)) \in Nat
      BY <1>7, <3>1, FS_RemoveElement, FS_CardinalityType
    <3>3. Len(Append(shut[s].completed, c)) = Len(shut[s].completed) + 1
          /\ Len(shut[s].completed) \in Nat
      BY <1>1
    <3>4. shut[s].left = Cardinality(Undone(s)) + Len(shut[s].completed)
      BY <1>1, <2>1 DEF Counted
    <3>5. Cardinality(Undone(t)') = Cardinality(Undone(s)) - 1
      BY <1>7, <2>1, <3>2
    <3>6. shut'[t].left = shut[s].left /\ Len(shut'[t].completed) = Len(shut[s].completed) + 1
      BY <1>6, <2>1, <3>3
    <3> QED BY <3>2, <3>3, <3>4, <3>5, <3>6
  <2>2. CASE t # s
    <3>1. SameUndone(t)
      BY <1>2, <1>4, <2>2 DEF SameUndone, Unfinished
    <3> QED BY <1>1, <1>6, <2>2, <3>1, CountStays
  <2> QED BY <2>1, <2>2
<1> QED BY <1>5, <1>8

LEMMA DieCounted ==
    ASSUME IInv, Accounted, Counted, NEW s \in Server, Die(s)
    PROVE  Accounted' /\ Counted'
<1>1. /\ \A k \in Caller : At(k) # s => call'[k] = call[k]
      /\ proc'[s] = "exited"
      /\ \A t \in Server : t # s =>
           proc'[t] = proc[t] /\ shut'[t] = shut[t] /\ sessions'[t] = sessions[t]
      /\ \A o \in Obj : obj'[o] = IF obj[o].srv = s THEN NoSession ELSE obj[o]
  BY DEF Die, IInv, TypeOK
<1>2. \A o \in Obj : obj'[o].phase # "free" => obj'[o] = obj[o] /\ obj[o].srv # s
  BY <1>1 DEF NoSession
<1>3. Accounted'
  <2>1. ASSUME NEW o \in Obj, obj'[o].phase = "starting"
        PROVE  \E j \in Caller : call'[j].pc \in StartPc /\ call'[j].obj = o
    <3>1. obj[o].phase = "starting" /\ obj[o].srv # s
      BY <1>2, <2>1
    <3>2. PICK j \in Caller : call[j].pc \in StartPc /\ call[j].obj = o
      BY <3>1 DEF Accounted
    <3>3. At(j) = obj[o].srv
      BY <3>2 DEF IInv, CallersOwn
    <3> QED BY <1>1, <3>1, <3>2, <3>3
  <2>2. ASSUME NEW o \in Obj, obj'[o].phase # "free"
        PROVE  obj[o].srv \in Server /\ obj[o].srv # s /\ obj'[o] = obj[o]
    BY <1>2, <2>2 DEF IInv, SessionsOwn
  <2> QED BY <1>1, <2>1, <2>2 DEF Accounted
<1>4. Counted'
  <2> SUFFICES ASSUME NEW t \in Server, proc'[t] = "closing"
               PROVE  shut'[t].left = Cardinality(Undone(t)') + Len(shut'[t].completed)
    BY DEF Counted
  <2>1. t # s
    BY <1>1
  <2>2. SameUndone(t)
    BY <1>1, <1>2, <2>1 DEF SameUndone, Unfinished
  <2> QED BY <1>1, <2>1, <2>2, CountStays
<1> QED BY <1>3, <1>4

LEMMA InitCounted == Init => Accounted /\ Counted
BY DEF Init, Accounted, Counted, NoSession

LEMMA NextCounted ==
    ASSUME IInv, Orderly, Accounted, Counted, [Next]_vars
    PROVE  Accounted' /\ Counted'
<1>1. ASSUME NEW s \in Server,
             Startup(s) \/ Crash(s) \/ Interrupt(s) \/ ShutdownAll(s)
               \/ TakeSuspended(s) \/ StopLoading(s) \/ RemoveSuspended(s)
      PROVE  Accounted' /\ Counted'
  <2>1. CASE Startup(s) \/ TakeSuspended(s) \/ StopLoading(s) \/ RemoveSuspended(s)
    BY <2>1, LoaderCounted
  <2>2. CASE Crash(s) \/ Exit(s)
    BY <2>2, DieCounted DEF Crash, Exit
  <2>3. CASE Interrupt(s) \/ LoopDone(s) \/ QueueSuspended(s)
    BY <2>3, InterruptCounted, QueueCounted
  <2>4. ASSUME NEW c \in Conv, ShutdownSession(s, c) PROVE Accounted' /\ Counted'
    <3>1. sessions[s][c] \in Obj
      BY <2>4, RunningLive DEF ShutdownSession, IInv, Base
    <3> QED BY <2>4, <3>1, PassCounted
  <2> QED BY <1>1, <2>1, <2>2, <2>3, <2>4 DEF ShutdownAll
<1>2. ASSUME NEW k \in Caller, GetSession(k) PROVE Accounted' /\ Counted'
  BY <1>2, CallerCounted, MakeCounted, GiveUpCounted, RegisterCounted DEF GetSession
<1>3. ASSUME NEW r \in Request, Handler(r) \/ \E c \in Conv : Arrive(r, c)
      PROVE  Accounted' /\ Counted'
  BY <1>2, <1>3, HandlerCounted DEF Handler, Caller
<1>4. ASSUME NEW o \in Obj, Grace(o) PROVE Accounted' /\ Counted'
  <2>1. CASE SaveState(o)
    <3>1. obj[o].srv \in Server /\ obj[o].conv \in Conv
      BY <2>1 DEF IInv, SessionsOwn, SaveState
    <3> QED BY <2>1, <3>1, SaveCounted
  <2> QED BY <1>4, <2>1, PassCounted DEF Grace
<1>5. CASE UNCHANGED vars
  <2>1. SameHands /\ Starters /\ UNCHANGED <<sessions, shut, proc>>
    BY <1>5 DEF vars, SameHands, Starters
  <2> QED BY <2>1, SameAccount
<1> QED BY <1>1, <1>2, <1>3, <1>4, <1>5 DEF Next, Loader, Caller

(* The failures that lose a session. *)
LosingFaults == {"delete", "getConversation", "startPubsub", "addParticipant", "save", "crash"}

(* When a server exits, it has nothing left. *)
LEMMA ExitEmpty ==
    ASSUME IInv, Orderly, Accounted, Counted, NEW s \in Server, Exit(s)
    PROVE  /\ \A o \in Obj : Holds(o) => obj[o].srv # s
           /\ \A k \in Caller : call[k].pc = "getConversation" => At(k) # s
<1>1. proc[s] = "closing" /\ shut[s].left = 0 /\ shut[s].completed \in Seq(Conv)
  BY DEF Exit, IInv, TypeOK, ShutType
<1>2. \A k \in Caller : At(k) = s => call[k].pc \in ParkedPc
  BY <1>1 DEF Orderly, Parked
<1>3. Undone(s) = {}
  <2>1. IsFiniteSet(Undone(s))
    <3>1. Undone(s) \subseteq Conv
      BY DEF Undone
    <3> QED BY <3>1, FiniteConversations, FS_Subset
  <2>2. Cardinality(Undone(s)) \in Nat /\ Len(shut[s].completed) \in Nat
    BY <1>1, <2>1, FS_CardinalityType
  <2>3. Cardinality(Undone(s)) = 0
    BY <1>1, <2>2 DEF Counted
  <2> QED BY <2>1, <2>3, FS_EmptySet
<1>4. ASSUME NEW o \in Obj, Holds(o), obj[o].srv = s PROVE FALSE
  <2>1. CASE obj[o].phase = "starting"
    <3>1. PICK k \in Caller : call[k].pc \in StartPc /\ call[k].obj = o
      BY <2>1 DEF Accounted
    <3>2. At(k) = s
      BY <1>4, <3>1 DEF IInv, CallersOwn
    <3> QED BY <1>2, <3>1, <3>2 DEF StartPc, ParkedPc
  <2>2. CASE Unfinished(o)
    <3>1. obj[o].conv \in Conv
      BY <2>2 DEF IInv, SessionsOwn, Unfinished
    <3>2. obj[o].conv \in Undone(s)
      BY <1>4, <2>2, <3>1 DEF Undone
    <3> QED BY <1>3, <3>2
  <2> QED BY <1>4, <2>1, <2>2 DEF Holds, Unfinished
<1> QED BY <1>2, <1>4 DEF ParkedPc

(* Who held a session still does, and what was stored still is.            *)
LEMMA StillExists ==
    ASSUME stored \subseteq stored',
           \A o \in Obj : Holds(o) => Holds(o)' /\ obj'[o].conv = obj[o].conv,
           \A k \in Caller : call[k].pc = "getConversation" => call'[k] = call[k],
           NEW c \in Conv, Exists(c)
    PROVE  Exists(c)'
BY DEF Exists

LEMMA HandsHold ==
    ASSUME SameHands
    PROVE  \A o \in Obj : Holds(o) => Holds(o)' /\ obj'[o].conv = obj[o].conv
BY DEF SameHands, Holds

LEMMA CallerKeepsSession ==
    ASSUME Faults \cap LosingFaults = {}, IInv, NEW k \in Caller, GetSession(k),
           NEW c \in Conv, Exists(c)
    PROVE  Exists(c)'
<1>1. call \in [Caller -> CallType] /\ obj \in [Obj -> ObjType] /\ stored \subseteq Conv
  BY DEF IInv, TypeOK
<1>2. \A kind \in LosingFaults : ~Fault(kind)
  BY DEF Fault
<1>3. CASE Lookup(k) \/ FetchState(k)
  <2>1. call[k].pc # "getConversation" /\ UNCHANGED <<obj, stored>>
    BY <1>3 DEF Lookup, FetchState, storage
  <2>2. OnlyMoves(k)
    <3>1. CASE Lookup(k)
      BY <1>1, <3>1 DEF Lookup, GoTo, Return, OnlyMoves
    <3>2. CASE FetchState(k)
      BY <1>1, <3>2 DEF FetchState, Return, OnlyMoves
    <3> QED BY <1>3, <3>1, <3>2
  <2> QED BY <2>1, <2>2, HandsHold, StillExists DEF OnlyMoves, SameHands
<1>4. CASE DeleteState(k)
  <2>1. /\ stored' = stored \ {call[k].conv} /\ UNCHANGED obj
        /\ call[k].pc = "delete" /\ OnlyMoves(k)
        /\ call'[k].pc = "getConversation" /\ call'[k].conv = call[k].conv
    BY <1>1, <1>2, <1>4 DEF DeleteState, GoTo, CallType, OnlyMoves, LosingFaults
  <2>2. CASE c = call[k].conv
    BY <2>1, <2>2 DEF Exists
  <2>3. CASE c # call[k].conv
    BY <2>1, <2>3 DEF Exists, OnlyMoves, Holds
  <2> QED BY <2>2, <2>3
<1>5. CASE MakeSession(k)
  <2> DEFINE o == CHOOSE q \in Phase("free") : TRUE
             new == [phase |-> "starting", srv |-> At(k),
                     conv |-> call[k].conv, joins |-> call[k].joins]
  <2>1. /\ o \in Obj /\ obj[o].phase = "free" /\ UNCHANGED stored
        /\ obj' = [obj EXCEPT ![o] = new]
        /\ call' = [call EXCEPT ![k] = [@ EXCEPT !.pc = "startPubsub", !.obj = o]]
    BY <1>2, <1>5, FreshIsFree DEF MakeSession, storage, LosingFaults
  <2> HIDE DEF o
  <2>2. /\ obj'[o].phase = "starting" /\ obj'[o].conv = call[k].conv
        /\ \A q \in Obj : q # o => obj'[q] = obj[q]
    BY <1>1, <2>1
  <2>3. OnlyMoves(k)
    BY <1>1, <2>1 DEF OnlyMoves
  <2> HIDE DEF new
  <2>4. CASE c = call[k].conv
    BY <2>1, <2>2, <2>4 DEF Exists, Holds
  <2>5. CASE c # call[k].conv
    BY <2>1, <2>2, <2>3, <2>5 DEF Exists, Holds, OnlyMoves
  <2> QED BY <2>4, <2>5
<1>6. CASE StartPubsub(k) \/ AddParticipants(k)
  <2>1. UNCHANGED <<obj, stored>>
    <3>1. CASE StartPubsub(k)
      BY <1>2, <3>1 DEF StartPubsub, storage, LosingFaults
    <3>2. CASE AddParticipants(k)
      <4>1. hub[At(k)][call[k].conv] # None
        <5>1. call[k].obj # None /\ hub[At(k)][call[k].conv] = call[k].obj
          BY <3>2, NoneIsNothing DEF AddParticipants, IInv, HubOwner, CallersOwn, StartPc
        <5> QED BY <5>1
      <4> QED BY <1>2, <3>2, <4>1 DEF AddParticipants, storage, LosingFaults
    <3> QED BY <1>6, <3>1, <3>2
  <2>2. call[k].pc # "getConversation" /\ OnlyMoves(k)
    BY <1>1, <1>6 DEF StartPubsub, AddParticipants, GoTo, GiveUp, Return, OnlyMoves
  <2> QED BY <2>1, <2>2, HandsHold, StillExists DEF OnlyMoves, SameHands
<1>7. CASE Register(k)
  <2>1. /\ call[k].obj \in Obj /\ SetPhase(call[k].obj, "live") /\ UNCHANGED stored
        /\ call[k].pc = "register" /\ Return(k, call[k].obj)
    BY <1>7 DEF Register, storage, IInv, CallersOwn, StartPc
  <2>2. OnlyMoves(k)
    BY <1>1, <2>1, ReturnsSession
  <2>3. Passes(call[k].obj, "live")
    BY <2>1, SetPhasePasses DEF ObjPhase
  <2>4. \A o \in Obj : Holds(o) => Holds(o)' /\ obj'[o].conv = obj[o].conv
    BY <2>1, <2>3 DEF Passes, Holds
  <2> QED BY <2>1, <2>2, <2>4, StillExists DEF OnlyMoves
<1> QED BY <1>3, <1>4, <1>5, <1>6, <1>7 DEF GetSession

LEMMA ServerKeepsSession ==
    ASSUME Faults \cap LosingFaults = {}, IInv, Orderly, Accounted, Counted, NEW s \in Server,
           Startup(s) \/ Crash(s) \/ Interrupt(s) \/ ShutdownAll(s)
               \/ TakeSuspended(s) \/ StopLoading(s) \/ RemoveSuspended(s),
           NEW c \in Conv, Exists(c)
    PROVE  Exists(c)'
<1>1. call \in [Caller -> CallType] /\ s \in Caller /\ obj \in [Obj -> ObjType]
  BY DEF IInv, TypeOK, Caller
<1>2. CASE TakeSuspended(s) \/ StopLoading(s) \/ RemoveSuspended(s)
  <2>1. UNCHANGED <<obj, stored>> /\ call[s].pc # "getConversation" /\ OnlyMoves(s)
    BY <1>1, <1>2 DEF TakeSuspended, StopLoading, RemoveSuspended, Enter, OnlyMoves, storage
  <2> QED BY <2>1, HandsHold, StillExists DEF OnlyMoves, SameHands
<1>3. CASE Startup(s)
  <2>1. UNCHANGED <<obj, stored>> /\ OnlyMoves(s)
    BY <1>1, <1>3 DEF Startup, GoTo, OnlyMoves, storage
  <2>2. call[s].pc # "getConversation"
    BY <1>1, <1>3 DEF Startup, Orderly, Parked, ParkedPc, At
  <2> QED BY <2>1, <2>2, HandsHold, StillExists DEF OnlyMoves, SameHands
<1>4. CASE Interrupt(s) \/ LoopDone(s) \/ QueueSuspended(s)
  <2>1. UNCHANGED <<obj, stored, call>>
    BY <1>4 DEF Interrupt, LoopDone, QueueSuspended, storage
  <2> QED BY <2>1, HandsHold, StillExists DEF SameHands
<1>5. ASSUME NEW d \in Conv, ShutdownSession(s, d) PROVE Exists(c)'
  <2>1. /\ sessions[s][d] \in Obj /\ SetPhase(sessions[s][d], "grace")
        /\ UNCHANGED <<stored, call>>
    BY <1>5, RunningLive DEF ShutdownSession, storage, IInv, Base
  <2>2. Passes(sessions[s][d], "grace")
    BY <2>1, SetPhasePasses DEF ObjPhase
  <2>3. \A o \in Obj : Holds(o) => Holds(o)' /\ obj'[o].conv = obj[o].conv
    BY <2>1, <2>2 DEF Passes, Holds
  <2> QED BY <2>1, <2>3, StillExists
<1>6. CASE Exit(s)
  <2>1. /\ \A o \in Obj : Holds(o) => obj[o].srv # s
        /\ \A k \in Caller : call[k].pc = "getConversation" => At(k) # s
    BY <1>6, ExitEmpty
  <2>2. /\ UNCHANGED stored
        /\ \A k \in Caller : At(k) # s => call'[k] = call[k]
        /\ \A o \in Obj : obj[o].srv # s => obj'[o] = obj[o]
    BY <1>6 DEF Exit, Die, storage
  <2>3. \A o \in Obj : Holds(o) => Holds(o)' /\ obj'[o].conv = obj[o].conv
    BY <2>1, <2>2 DEF Holds
  <2> QED BY <2>1, <2>2, <2>3, StillExists
<1>7. ~Crash(s)
  BY DEF Crash, Fault, LosingFaults
<1> QED BY <1>2, <1>3, <1>4, <1>5, <1>6, <1>7 DEF ShutdownAll

LEMMA GraceKeepsSession ==
    ASSUME Faults \cap LosingFaults = {}, IInv, NEW o \in Obj, Grace(o),
           NEW c \in Conv, Exists(c)
    PROVE  Exists(c)'
<1>1. CASE EndGrace(o)
  <2>1. Passes(o, "ended") /\ UNCHANGED <<stored, call>>
    BY <1>1, SetPhasePasses DEF EndGrace, storage, ObjPhase
  <2>2. \A q \in Obj : Holds(q) => Holds(q)' /\ obj'[q].conv = obj[q].conv
    BY <2>1 DEF Passes, Holds
  <2> QED BY <2>1, <2>2, StillExists
<1>2. CASE SaveState(o)
  <2>1. /\ stored' = stored \cup {obj[o].conv} /\ UNCHANGED call
        /\ \A q \in Obj : q # o => obj'[q] = obj[q]
    BY <1>2 DEF SaveState, Fault, LosingFaults, IInv, TypeOK
  <2>2. CASE c = obj[o].conv
    BY <2>1, <2>2 DEF Exists
  <2>3. CASE c # obj[o].conv
    BY <2>1, <2>3 DEF Exists, Holds
  <2> QED BY <2>2, <2>3
<1> QED BY <1>1, <1>2 DEF Grace

LEMMA HandlerKeepsSession ==
    ASSUME IInv, NEW r \in Request,
           \/ NewParticipant(r) \/ AddToPubsub(r) \/ AddListenerRequest(r)
           \/ \E c \in Conv : Arrive(r, c),
           NEW c \in Conv, Exists(c)
    PROVE  Exists(c)'
<1>1. /\ call \in [Caller -> CallType] /\ obj \in [Obj -> ObjType] /\ r \in Caller
      /\ UNCHANGED stored /\ call[r].pc # "getConversation"
  BY DEF IInv, TypeOK, Caller, NewParticipant, AddToPubsub, AddListenerRequest, Arrive, storage
<1>2. SameHands
  <2>1. ASSUME obj' = [obj EXCEPT ![call[r].obj].joins = @ \cup {r}] PROVE SameHands
    BY <1>1, <2>1 DEF SameHands, ObjType
  <2>2. ASSUME UNCHANGED obj PROVE SameHands
    BY <2>2 DEF SameHands
  <2> QED BY <2>1, <2>2 DEF NewParticipant, AddToPubsub, AddListenerRequest, Arrive
<1>3. OnlyMoves(r)
  BY <1>1 DEF NewParticipant, AddToPubsub, AddListenerRequest, Arrive, GoTo, Enter, OnlyMoves
<1> QED BY <1>1, <1>2, <1>3, HandsHold, StillExists DEF OnlyMoves

(* No step loses a session if servers are quiet when they are interrupted, *)
(* loads do not overlap and none of the failures happens that lose one: a  *)
(* server exits only when it has saved every session it had, whatever      *)
(* fails of the queue.                                                     *)
THEOREM NeverLostHolds ==
    ASSUME Faults \cap LosingFaults = {}
    PROVE  OrderlySpec => NeverLost
<1> DEFINE Stays == \A c \in Conv : Exists(c) => Exists(c)'
           All == IInv /\ Orderly /\ Accounted /\ Counted
<1>1. "delete" \notin Faults
  BY DEF LosingFaults
<1>2. Init => All
  BY <1>1, IInvInductive, InitOrderly, InitCounted
<1>3. All /\ [Next /\ LoadsApart' /\ Quiet']_vars => All'
  <2> SUFFICES ASSUME IInv, Orderly, Accounted, Counted, [Next /\ LoadsApart' /\ Quiet']_vars
               PROVE  IInv' /\ Orderly' /\ Accounted' /\ Counted'
    OBVIOUS
  <2>1. [Next /\ LoadsApart']_vars /\ [Next]_vars
    OBVIOUS
  <2> QED BY <1>1, <2>1, IInvInductive, NextOrderly, NextCounted
<1>4. All /\ [Next /\ LoadsApart' /\ Quiet']_vars => [Stays]_vars
  <2> SUFFICES ASSUME IInv, Orderly, Accounted, Counted, Next PROVE Stays
    OBVIOUS
  <2> QED
    BY ServerKeepsSession, CallerKeepsSession, GraceKeepsSession, HandlerKeepsSession
       DEF Next, Loader, Handler, Caller
<1> HIDE DEF All, Stays
<1>5. OrderlySpec => [][Stays]_vars
  BY <1>2, <1>3, <1>4, PTL DEF OrderlySpec
<1> QED BY <1>5 DEF NeverLost, Stays

=============================================================================

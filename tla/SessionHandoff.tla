--------------------------- MODULE SessionHandoff ---------------------------
(***************************************************************************)
(* The life of conversation sessions across server instances: how a        *)
(* session is loaded from storage (lifecycle/session.go: GetSession,       *)
(* StartAllSuspendedSessions), how a terminating server suspends its       *)
(* sessions and queues them for the next one (ShutdownAllSessions,         *)
(* Shutdown), and the Redis state they share (storage/session.go).         *)
(*                                                                         *)
(* A caller is a goroutine that runs GetSession: the loader of a server    *)
(* (named by its server) or an HTTP request.  Every Redis command and      *)
(* every pubsub call is a step of its own, so that callers, shutdowns and  *)
(* crashes interleave between any two of them.                             *)
(***************************************************************************)
EXTENDS Naturals, Sequences, FiniteSets

CONSTANTS
    Server,     \* server instances: each runs once, a restart is another one
    Conv,       \* conversations
    Request,    \* start-session HTTP requests, each from a client of its own
    Host,       \* Host[r] is the server that request r is sent to
    Obj,        \* identities of the *Session values the servers allocate
    Faults,     \* the kinds of failure that can happen
    MaxFaults,  \* bound on the number of failures
    None        \* no conversation, no server, no session

FaultKinds == {"wait", "fetch", "delete", "getConversation", "startPubsub",
               "addParticipant", "save", "push", "remove", "crash"}

ASSUME ServersAndRequests ==
    /\ Server \cap Request = {}
    /\ Host \in [Request -> Server]
ASSUME FiniteConversations == IsFiniteSet(Conv)
ASSUME NoneIsNothing == None \notin Server \cup Conv \cup Obj
ASSUME FaultBound == Faults \subseteq FaultKinds /\ MaxFaults \in Nat

Caller == Server \cup Request

VARIABLES
    proc,      \* proc[s]: the process of server s
    sessions,  \* sessions[s][c]: the map of running sessions of server s
    hub,       \* hub[s][c]: the session whose channels the pubsub session of c
               \*   on server s feeds, None if there is no pubsub session
    obj,       \* obj[o]: a session value
    call,      \* call[k]: where caller k is
    stored,    \* the conversations with a saved session state
    image,     \* image[c]: who had joined according to the saved state of c
    queue,     \* the suspended session queue, left end first
    shut,      \* shut[s]: the progress of ShutdownAllSessions on server s
    faults     \* failures so far

vars == <<proc, sessions, hub, obj, call, stored, image, queue, shut, faults>>

storage == <<stored, image>>

At(k) == IF k \in Server THEN k ELSE Host[k]

Registered(s) == {c \in Conv : sessions[s][c] # None}

Phase(p) == {o \in Obj : obj[o].phase = p}

(* A session value that is not allocated, or that is garbage again. *)
NoSession == [phase |-> "free", srv |-> None, conv |-> None, joins |-> {}]

NoShutdown == [toStop |-> {}, looping |-> FALSE, left |-> 0, completed |-> <<>>]

Idle == [pc |-> "idle", conv |-> None, obj |-> None, joins |-> {}, attempt |-> 1]

(* Caller k goes on to p, in the middle of what it does. *)
GoTo(k, p) == call' = [call EXCEPT ![k].pc = p]

(* Caller k is at p with conversation c, and with nothing else in hand. *)
Enter(k, p, c) == call' = [call EXCEPT ![k] = [Idle EXCEPT !.pc = p, !.conv = c]]

(* The session value o goes on to phase p of its life. *)
SetPhase(o, p) == obj' = [obj EXCEPT ![o].phase = p]

(* A failure of the given kind happens now. *)
Fault(kind) ==
    /\ kind \in Faults
    /\ faults < MaxFaults
    /\ faults' = faults + 1

(* A fresh deployment: sessions left in storage by servers that are gone,  *)
(* their ids in the queue or not (an AddSuspendedSession that failed), and *)
(* ids in the queue without a state (a SaveSessionState that failed).      *)
Init ==
    /\ proc = [s \in Server |-> "new"]
    /\ sessions = [s \in Server |-> [c \in Conv |-> None]]
    /\ hub = [s \in Server |-> [c \in Conv |-> None]]
    /\ obj = [o \in Obj |-> NoSession]
    /\ call = [k \in Caller |-> Idle]
    /\ stored \in SUBSET Conv
    /\ image = [c \in Conv |-> {}]
    /\ queue \in {q \in UNION {[1 .. n -> Conv] : n \in 0 .. Cardinality(Conv)} :
                    \A i, j \in DOMAIN q : q[i] = q[j] => i = j}
    /\ shut = [s \in Server |-> NoShutdown]
    /\ faults = 0

-----------------------------------------------------------------------------
(* Server processes *)

(* Startup: the loader runs as a goroutine beside the HTTP server. *)
Startup(s) ==
    /\ proc[s] = "new"
    /\ proc' = [proc EXCEPT ![s] = "up"]
    /\ GoTo(s, "wait")
    /\ UNCHANGED <<sessions, hub, obj, storage, queue, shut, faults>>

(* A request to start a session for c reaches its server. *)
Arrive(r, c) ==
    /\ call[r].pc = "idle"
    /\ proc[Host[r]] = "up"
    /\ Enter(r, "lookup", c)
    /\ UNCHANGED <<proc, sessions, hub, obj, storage, queue, shut, faults>>

(* The process is gone, and with it all it held in memory. *)
Die(s) ==
    /\ proc' = [proc EXCEPT ![s] = "exited"]
    /\ sessions' = [sessions EXCEPT ![s] = [c \in Conv |-> None]]
    /\ hub' = [hub EXCEPT ![s] = [c \in Conv |-> None]]
    /\ obj' = [o \in Obj |-> IF obj[o].srv = s THEN NoSession ELSE obj[o]]
    /\ call' = [k \in Caller |->
                  IF At(k) = s /\ call[k].pc \notin {"idle", "ok", "asked", "error"}
                  THEN [Idle EXCEPT !.pc = "cut", !.conv = call[k].conv]
                  ELSE call[k]]
    /\ shut' = [shut EXCEPT ![s] = NoShutdown]
    /\ UNCHANGED <<storage, queue>>

(* A crash, including a panic: the session maps are shared by goroutines   *)
(* without a lock, and the Go runtime may stop a process for that.         *)
Crash(s) ==
    /\ proc[s] \in {"up", "closing"}
    /\ Fault("crash")
    /\ Die(s)

-----------------------------------------------------------------------------
(* StartAllSuspendedSessions *)

(* WaitForSuspendedSession rotates the right end of the queue to the left. *)
TakeSuspended(s) ==
    LET n == Len(queue) IN
    /\ call[s].pc = "wait"
    /\ n > 0
    /\ queue' = <<queue[n]>> \o SubSeq(queue, 1, n - 1)
    /\ Enter(s, "lookup", queue[n])
    /\ UNCHANGED <<proc, sessions, hub, obj, storage, shut, faults>>

(* The wait lasts 30 seconds with nothing queued, or fails: it is over. *)
StopLoading(s) ==
    /\ call[s].pc = "wait"
    /\ \/ queue = <<>> /\ UNCHANGED faults
       \/ Fault("wait")
    /\ Enter(s, "stopped", None)
    /\ UNCHANGED <<proc, sessions, hub, obj, storage, queue, shut>>

(* The first instance of x, if any, taken out of the list q (LREM 1). *)
Without(q, x) ==
    LET At1 == {i \in DOMAIN q : q[i] = x /\ \A j \in 1 .. i - 1 : q[j] # x}
    IN  IF At1 = {} THEN q
        ELSE LET i == CHOOSE i \in At1 : TRUE
             IN  SubSeq(q, 1, i - 1) \o SubSeq(q, i + 1, Len(q))

(* Mutant: the loader forgets to remove the id it has dealt with. *)
RemoveForgotten(s) ==
    /\ call[s].pc = "remove"
    /\ Enter(s, "wait", None)
    /\ UNCHANGED <<proc, sessions, hub, obj, storage, queue, shut, faults>>

(* RemoveSuspendedSession, whatever the two calls of GetSession returned. *)
RemoveSuspended(s) ==
    /\ call[s].pc = "remove"
    /\ \/ queue' = Without(queue, call[s].conv) /\ UNCHANGED faults
       \/ Fault("remove") /\ UNCHANGED queue
    /\ Enter(s, "wait", None)
    /\ UNCHANGED <<proc, sessions, hub, obj, storage, shut>>

-----------------------------------------------------------------------------
(* GetSession *)

(* Mutant: the loader calls a third time. *)
ReturnThrice(k, o) ==
    LET n  == call[k].attempt
        pc == IF k \in Server THEN IF n < 3 THEN "lookup" ELSE "remove"
              ELSE IF o = None THEN "error" ELSE "admit"
    IN  call' = [call EXCEPT ![k] =
                   [pc |-> pc, conv |-> call[k].conv,
                    obj |-> IF k \in Server THEN None ELSE o, joins |-> {},
                    attempt |-> IF pc = "lookup" THEN n + 1 ELSE 1]]

(* GetSession returns o to its caller, or an error if o is None: the       *)
(* loader calls a second time, then goes on; a request goes on with o.     *)
Return(k, o) ==
    LET again == k \in Server /\ call[k].attempt = 1
        pc    == IF again THEN "lookup"
                 ELSE IF k \in Server THEN "remove"
                 ELSE IF o = None THEN "error" ELSE "admit"
    IN  call' = [call EXCEPT ![k] =
                   [pc |-> pc, conv |-> call[k].conv,
                    obj |-> IF k \in Server THEN None ELSE o,
                    joins |-> {}, attempt |-> IF again THEN 2 ELSE 1]]

(* The session is running on this server, or it has to be loaded. *)
Lookup(k) ==
    LET o == sessions[At(k)][call[k].conv] IN
    /\ call[k].pc = "lookup"
    /\ IF o # None THEN Return(k, o) ELSE GoTo(k, "fetch")
    /\ UNCHANGED <<proc, sessions, hub, obj, storage, queue, shut, faults>>

(* Mutant: a session that was never saved is taken for a new one. *)
FetchOrCreate(k) ==
    /\ call[k].pc = "fetch"
    /\ \/ call[k].conv \in stored /\ GoTo(k, "delete") /\ UNCHANGED faults
       \/ call[k].conv \notin stored /\ GoTo(k, "getConversation") /\ UNCHANGED faults
       \/ Fault("fetch") /\ Return(k, None)
    /\ UNCHANGED <<proc, sessions, hub, obj, storage, queue, shut>>

(* LoadSessionState, its read: a state that is not there is an error. *)
FetchState(k) ==
    /\ call[k].pc = "fetch"
    /\ \/ /\ call[k].conv \in stored
          /\ call' = [call EXCEPT ![k] =
                         [@ EXCEPT !.pc = "delete", !.joins = image[call[k].conv]]]
          /\ UNCHANGED faults
       \/ call[k].conv \notin stored /\ Return(k, None) /\ UNCHANGED faults
       \/ Fault("fetch") /\ Return(k, None)
    /\ UNCHANGED <<proc, sessions, hub, obj, storage, queue, shut>>

(* Mutant: the state is left in storage when it is loaded. *)
LeaveState(k) ==
    /\ call[k].pc = "delete"
    /\ GoTo(k, "getConversation")
    /\ UNCHANGED <<proc, sessions, hub, obj, storage, queue, shut, faults>>

(* LoadSessionState, its delete, whose failure is ignored. *)
DeleteState(k) ==
    /\ call[k].pc = "delete"
    /\ \/ /\ stored' = stored \ {call[k].conv}
          /\ image' = [image EXCEPT ![call[k].conv] = {}]
          /\ UNCHANGED faults
       \/ Fault("delete") /\ UNCHANGED storage
    /\ GoTo(k, "getConversation")
    /\ UNCHANGED <<proc, sessions, hub, obj, queue, shut>>

(* Mutant: the session starts without the participants of its state. *)
MakeEmptySession(k) ==
    /\ call[k].pc = "getConversation"
    /\ \/ /\ Phase("free") # {}
          /\ LET o == CHOOSE o \in Phase("free") : TRUE IN
             /\ obj' = [obj EXCEPT ![o] =
                          [phase |-> "starting", srv |-> At(k),
                           conv |-> call[k].conv, joins |-> {}]]
             /\ call' = [call EXCEPT ![k] =
                            [@ EXCEPT !.pc = "startPubsub", !.obj = o]]
          /\ UNCHANGED faults
       \/ Fault("getConversation") /\ Return(k, None) /\ UNCHANGED obj
    /\ UNCHANGED <<proc, sessions, hub, storage, queue, shut>>

(* GetConversation, and the new session value. *)
MakeSession(k) ==
    /\ call[k].pc = "getConversation"
    /\ \/ /\ Phase("free") # {}
          /\ LET o == CHOOSE o \in Phase("free") : TRUE IN
             /\ obj' = [obj EXCEPT ![o] =
                          [phase |-> "starting", srv |-> At(k),
                           conv |-> call[k].conv, joins |-> call[k].joins]]
             /\ call' = [call EXCEPT ![k] =
                            [@ EXCEPT !.pc = "startPubsub", !.obj = o]]
          /\ UNCHANGED faults
       \/ Fault("getConversation") /\ Return(k, None) /\ UNCHANGED obj
    /\ UNCHANGED <<proc, sessions, hub, storage, queue, shut>>

(* start() gives up: its session value is dropped, its pubsub session stays. *)
GiveUp(k) ==
    /\ Return(k, None)
    /\ obj' = [obj EXCEPT ![call[k].obj] = NoSession]

(* start(): a pubsub session is created with the channels of this session  *)
(* value, unless there is one for the conversation already.                *)
StartPubsub(k) ==
    LET s == At(k)  c == call[k].conv IN
    /\ call[k].pc = "startPubsub"
    /\ \/ /\ hub' = [hub EXCEPT ![s][c] = IF @ = None THEN call[k].obj ELSE @]
          /\ GoTo(k, "addParticipants")
          /\ UNCHANGED <<obj, faults>>
       \/ Fault("startPubsub") /\ GiveUp(k) /\ UNCHANGED hub
    /\ UNCHANGED <<proc, sessions, storage, queue, shut>>

(* start(): the participants are added to the pubsub session, which fails  *)
(* if the pubsub session of the conversation has been ended meanwhile.     *)
AddParticipants(k) ==
    /\ call[k].pc = "addParticipants"
    /\ \/ /\ hub[At(k)][call[k].conv] # None
          /\ GoTo(k, "register")
          /\ UNCHANGED <<obj, faults>>
       \/ hub[At(k)][call[k].conv] = None /\ GiveUp(k) /\ UNCHANGED faults
       \/ Fault("addParticipant") /\ GiveUp(k)
    /\ UNCHANGED <<proc, sessions, hub, storage, queue, shut>>

(* Mutant: the session is started and returned, but not entered in the map. *)
RegisterNot(k) ==
    LET o == call[k].obj IN
    /\ call[k].pc = "register"
    /\ SetPhase(o, "live")
    /\ Return(k, o)
    /\ UNCHANGED <<proc, sessions, hub, storage, queue, shut, faults>>

(* The session is entered in the map of running sessions. *)
Register(k) ==
    LET o == call[k].obj IN
    /\ call[k].pc = "register"
    /\ sessions' = [sessions EXCEPT ![At(k)][call[k].conv] = o]
    /\ SetPhase(o, "live")
    /\ Return(k, o)
    /\ UNCHANGED <<proc, hub, storage, queue, shut, faults>>

-----------------------------------------------------------------------------
(* The requests, once they hold a session value *)

(* AddWhisperer, AddListener: newParticipant enters the participant in the *)
(* session state first.                                                    *)
NewParticipant(r) ==
    /\ call[r].pc = "admit"
    /\ obj' = [obj EXCEPT ![call[r].obj].joins = @ \cup {r}]
    /\ GoTo(r, "addToPubsub")
    /\ UNCHANGED <<proc, sessions, hub, storage, queue, shut, faults>>

(* newParticipant then adds the participant to the pubsub session of that  *)
(* id, and the client is told whether that went well.                      *)
AddToPubsub(r) ==
    /\ call[r].pc = "addToPubsub"
    /\ LET pc == IF hub[At(r)][call[r].conv] # None THEN "ok" ELSE "error"
       IN  Enter(r, pc, call[r].conv)
    /\ UNCHANGED <<proc, sessions, hub, obj, storage, queue, shut, faults>>

(* AddListenerRequest: the client is put on the waitlist of the session    *)
(* state, and is told so.                                                  *)
AddListenerRequest(r) ==
    /\ call[r].pc = "admit"
    /\ obj' = [obj EXCEPT ![call[r].obj].joins = @ \cup {r}]
    /\ Enter(r, "asked", call[r].conv)
    /\ UNCHANGED <<proc, sessions, hub, storage, queue, shut, faults>>

-----------------------------------------------------------------------------
(* Shutdown of a server *)

(* The interrupt: ShutdownAllSessions counts the sessions; with none there *)
(* is nothing to wait for.                                                 *)
Interrupt(s) ==
    /\ proc[s] = "up"
    /\ proc' = [proc EXCEPT ![s] = "closing"]
    /\ shut' = [shut EXCEPT ![s] =
                  [toStop |-> Registered(s), looping |-> Registered(s) # {},
                   left |-> Cardinality(Registered(s)), completed |-> <<>>]]
    /\ UNCHANGED <<sessions, hub, obj, call, storage, queue, faults>>

(* The loop over the map calls Shutdown of a session.  It meets all the    *)
(* sessions there were, and may meet one entered meanwhile.                *)
ShutdownSession(s, c) ==
    /\ shut[s].looping
    /\ sessions[s][c] # None
    /\ SetPhase(sessions[s][c], "grace")
    /\ sessions' = [sessions EXCEPT ![s][c] = None]
    /\ shut' = [shut EXCEPT ![s].toStop = @ \ {c}]
    /\ UNCHANGED <<proc, hub, call, storage, queue, faults>>

LoopDone(s) ==
    /\ shut[s].looping
    /\ shut[s].toStop = {}
    /\ shut' = [shut EXCEPT ![s].looping = FALSE]
    /\ UNCHANGED <<proc, sessions, hub, obj, call, storage, queue, faults>>

(* Mutant: the pubsub session is not ended. *)
EndGraceDeaf(o) ==
    /\ obj[o].phase = "grace"
    /\ ~shut[obj[o].srv].looping
    /\ SetPhase(o, "ended")
    /\ UNCHANGED <<proc, sessions, hub, call, storage, queue, shut, faults>>

(* The ten seconds of Shutdown are over (the loop, which only starts       *)
(* goroutines, has ended by then): the pubsub session of that id is ended, *)
(* whoever started it.                                                     *)
EndGrace(o) ==
    /\ obj[o].phase = "grace"
    /\ ~shut[obj[o].srv].looping
    /\ SetPhase(o, "ended")
    /\ hub' = [hub EXCEPT ![obj[o].srv][obj[o].conv] = None]
    /\ UNCHANGED <<proc, sessions, call, storage, queue, shut, faults>>

(* Mutant: the session is suspended without a save. *)
SaveNothing(o) ==
    /\ obj[o].phase = "ended"
    /\ obj' = [obj EXCEPT ![o] = NoSession]
    /\ shut' = [shut EXCEPT ![obj[o].srv].completed = Append(@, obj[o].conv)]
    /\ UNCHANGED <<proc, sessions, hub, call, storage, queue, faults>>

(* Mutant: a save that fails is not notified. *)
SaveOrSilence(o) ==
    LET s == obj[o].srv  c == obj[o].conv IN
    /\ obj[o].phase = "ended"
    /\ obj' = [obj EXCEPT ![o] = NoSession]
    /\ \/ /\ stored' = stored \cup {c}
          /\ image' = [image EXCEPT ![c] = obj[o].joins]
          /\ shut' = [shut EXCEPT ![s].completed = Append(@, c)]
          /\ UNCHANGED faults
       \/ Fault("save") /\ UNCHANGED <<storage, shut>>
    /\ UNCHANGED <<proc, sessions, hub, call, queue>>

(* Shutdown saves the session state and notifies, even if the save failed. *)
(* The session value is garbage then, unless a handler still holds it.     *)
SaveState(o) ==
    LET s == obj[o].srv  c == obj[o].conv IN
    /\ obj[o].phase = "ended"
    /\ obj' = [obj EXCEPT ![o] =
                  IF \E r \in Request : call[r].obj = o
                  THEN [@ EXCEPT !.phase = "saved"] ELSE NoSession]
    /\ \/ /\ stored' = stored \cup {c}
          /\ image' = [image EXCEPT ![c] = obj[o].joins]
          /\ UNCHANGED faults
       \/ Fault("save") /\ UNCHANGED storage
    /\ shut' = [shut EXCEPT ![s].completed = Append(@, c)]
    /\ UNCHANGED <<proc, sessions, hub, call, queue>>

(* ShutdownAllSessions queues the next completed session (LPUSH). *)
QueueSuspended(s) ==
    /\ shut[s].left > 0
    /\ ~shut[s].looping
    /\ shut[s].completed # <<>>
    /\ \/ queue' = <<Head(shut[s].completed)>> \o queue /\ UNCHANGED faults
       \/ Fault("push") /\ UNCHANGED queue
    /\ shut' = [shut EXCEPT ![s].left = @ - 1, ![s].completed = Tail(@)]
    /\ UNCHANGED <<proc, sessions, hub, obj, call, storage>>

(* As many sessions as were counted are suspended: the process exits, with *)
(* all its other goroutines.                                               *)
Exit(s) ==
    /\ proc[s] = "closing"
    /\ ~shut[s].looping
    /\ shut[s].left = 0
    /\ Die(s)
    /\ UNCHANGED faults

-----------------------------------------------------------------------------
GetSession(k) ==
    \/ Lookup(k) \/ FetchState(k) \/ DeleteState(k) \/ MakeSession(k)
    \/ StartPubsub(k) \/ AddParticipants(k) \/ Register(k)

Loader(s) ==
    TakeSuspended(s) \/ StopLoading(s) \/ RemoveSuspended(s) \/ GetSession(s)

Handler(r) ==
    \/ GetSession(r)
    \/ NewParticipant(r) \/ AddToPubsub(r) \/ AddListenerRequest(r)

Grace(o) == EndGrace(o) \/ SaveState(o)

ShutdownAll(s) ==
    \/ \E c \in Conv : ShutdownSession(s, c)
    \/ LoopDone(s) \/ QueueSuspended(s) \/ Exit(s)

Next ==
    \/ \E s \in Server :
         Startup(s) \/ Crash(s) \/ Interrupt(s) \/ Loader(s) \/ ShutdownAll(s)
    \/ \E r \in Request : Handler(r) \/ \E c \in Conv : Arrive(r, c)
    \/ \E o \in Obj : Grace(o)

Spec == Init /\ [][Next]_vars

(* Goroutines are scheduled, blocking calls return, and a sleep ends.      *)
(* Nothing makes a server start, a request arrive or an interrupt come.    *)
Fairness ==
    /\ \A s \in Server : WF_vars(Loader(s)) /\ WF_vars(ShutdownAll(s))
    /\ \A r \in Request : WF_vars(Handler(r))
    /\ \A o \in Obj : WF_vars(Grace(o))

-----------------------------------------------------------------------------
(* Types *)

ServerPc == {"wait", "remove", "stopped"}
LoadPc == {"lookup", "fetch", "delete", "getConversation", "startPubsub",
           "addParticipants", "register"}
StartPc == {"startPubsub", "addParticipants", "register"}
RequestPc == {"admit", "addToPubsub", "ok", "asked", "error"}

Pc == {"idle", "cut"} \cup ServerPc \cup LoadPc \cup RequestPc

CallType == [pc : Pc,
             conv : Conv \cup {None}, obj : Obj \cup {None},
             joins : SUBSET Request, attempt : {1, 2}]

ObjPhase == {"free", "starting", "live", "grace", "ended", "saved"}

ObjType == [phase : ObjPhase,
            srv : Server \cup {None}, conv : Conv \cup {None},
            joins : SUBSET Request]

ShutType == [toStop : SUBSET Conv, looping : BOOLEAN, left : Nat,
             completed : Seq(Conv)]

(* Every variable has the shape the code gives it. *)
TypeOK ==
    /\ proc \in [Server -> {"new", "up", "closing", "exited"}]
    /\ sessions \in [Server -> [Conv -> Obj \cup {None}]]
    /\ hub \in [Server -> [Conv -> Obj \cup {None}]]
    /\ obj \in [Obj -> ObjType]
    /\ call \in [Caller -> CallType]
    /\ stored \in SUBSET Conv
    /\ image \in [Conv -> SUBSET Request]
    /\ queue \in Seq(Conv)
    /\ shut \in [Server -> ShutType]
    /\ faults \in Nat

-----------------------------------------------------------------------------
(* Properties *)

(* LoadSessionState reads the state and then deletes it.  This says that   *)
(* no two callers are between the two for the same conversation, as if the *)
(* load were one command; the code does not ensure it.                     *)
LoadsApart ==
    \A j, k \in Caller :
        j # k /\ call[j].pc = "delete" /\ call[k].pc = "delete"
        => call[j].conv # call[k].conv

(* The same system where loads of a conversation do not overlap. *)
ApartSpec == Init /\ [][Next /\ LoadsApart']_vars

FairApartSpec == ApartSpec /\ Fairness

Running(o) == obj[o].phase \in {"live", "grace"}

(* "sessions are always monitored by a single server": no conversation has *)
(* running sessions on two servers.                                        *)
SingleMonitor ==
    \A o, p \in Obj :
        Running(o) /\ Running(p) /\ obj[o].conv = obj[p].conv
        => obj[o].srv = obj[p].srv

(* A session value whose state is the only copy: from the pubsub start to  *)
(* the save.                                                               *)
Holds(o) == obj[o].phase \in {"starting", "live", "grace", "ended"}

(* The state of a session is in one place: two session values never hold   *)
(* the same conversation, none holds a conversation whose state is in      *)
(* storage, and a caller on its way from the read to the new session value *)
(* has no rival that holds the conversation.                               *)
OnePlace ==
    /\ \A o, p \in Obj : Holds(o) /\ Holds(p) /\ obj[o].conv = obj[p].conv => o = p
    /\ \A o \in Obj : Holds(o) => obj[o].conv \notin stored
    /\ \A k \in Caller, o \in Obj :
         call[k].pc \in {"delete", "getConversation"} /\ Holds(o)
         => call[k].conv # obj[o].conv

(* A registered session hears what its participants say: the pubsub        *)
(* session of its conversation feeds its channels and no older ones.       *)
HubFeedsSession ==
    \A s \in Server, c \in Conv :
        sessions[s][c] # None => hub[s][c] = sessions[s][c]

(* A saved state is never replaced by another one without having been      *)
(* loaded in between.                                                      *)
SaveNeverOverwrites ==
    [][\A c \in Conv : c \in stored /\ c \in stored' => image'[c] = image[c]]_vars

(* The state of the session of c is in storage, or in the memory of a      *)
(* server that is still to start, run or save it.                          *)
Exists(c) ==
    \/ c \in stored
    \/ \E o \in Obj : Holds(o) /\ obj[o].conv = c
    \/ \E k \in Caller : call[k].pc = "getConversation" /\ call[k].conv = c

(* "If that server shuts down while the session is in progress, it saves   *)
(* the session's state so that it can be reloaded and resumed on a         *)
(* different server": without a failure, no step loses a session.          *)
NeverLost == [][\A c \in Conv : Exists(c) => Exists(c)']_vars

(* "GetSession finds or creates a Session": without a failure, a request   *)
(* gets a session.                                                         *)
FindsOrCreates == \A r \in Request : call[r].pc = "error" => faults > 0

(* An interrupt comes when the loader of the server has stopped and no     *)
(* request is being handled, as an operator can arrange by waiting half a  *)
(* minute after the start and draining the server first.                   *)
Quiet ==
    \A k \in Caller : proc[At(k)] = "closing"
        => call[k].pc \in {"idle", "stopped", "ok", "asked", "error"}

(* The same system in deployments where servers are quiet when interrupted *)
(* and the loads of a conversation do not overlap.                         *)
OrderlySpec == Init /\ [][Next /\ LoadsApart' /\ Quiet']_vars

(* A client told "ok" is a participant of the session state, wherever that *)
(* is: in the running session or in storage.                               *)
AckedJoinKept ==
    \A r \in Request : call[r].pc = "ok" =>
        LET c == call[r].conv IN
        /\ c \in stored => r \in image[c]
        /\ \A o \in Obj : obj[o].phase \in {"live", "grace", "ended"}
                          /\ obj[o].conv = c => r \in obj[o].joins

(* Where the session of each conversation is, for SessionOwnership.        *)
Keepers(c) ==
    {obj[o].srv : o \in {p \in Obj : Holds(p) /\ obj[p].conv = c}}
    \cup {At(k) : k \in {j \in Caller : call[j].pc = "getConversation"
                                       /\ call[j].conv = c}}

Place == [c \in Conv |->
            IF c \in stored THEN "storage"
            ELSE IF Keepers(c) = {} THEN "nowhere"
            ELSE CHOOSE s \in Keepers(c) : TRUE]

Ownership == INSTANCE SessionOwnership
                 WITH place <- Place, Storage <- "storage", Nowhere <- "nowhere"

(* The hand-off implements single ownership of sessions. *)
ImplementsOwnership == Ownership!Spec

FairOrderlySpec == OrderlySpec /\ Fairness

InQueue(c) == \E i \in DOMAIN queue : queue[i] = c

(* A loader that waits gets round to every id in the queue.                *)
QueueDrains ==
    \A s \in Server, c \in Conv :
        (call[s].pc = "wait" /\ InQueue(c)) ~> (~InQueue(c) \/ call[s].pc \in {"cut", "stopped"})

(* Without failures, a queued session is running again some time after a   *)
(* loader waits for it.                                                    *)
SuspendedResumes ==
    \A s \in Server, c \in Conv :
        (call[s].pc = "wait" /\ InQueue(c) /\ c \in stored)
        ~> (\E t \in Server : sessions[t][c] # None)

(* An interrupted server exits, however many saves fail. *)
ShutdownEnds ==
    \A s \in Server : (proc[s] = "closing") ~> (proc[s] = "exited")

-----------------------------------------------------------------------------
(* The invariant behind OnePlace and HubFeedsSession *)

(* What the code takes for granted about its callers: a caller inside      *)
(* GetSession has a conversation, one inside start() has a session value   *)
(* of its own, on its server and for its conversation.                     *)
CallersOwn ==
    /\ \A k \in Caller : call[k].pc \in LoadPc \cup {"remove"} => call[k].conv \in Conv
    /\ \A k \in Caller : call[k].pc \in StartPc =>
         /\ call[k].obj \in Obj
         /\ obj[call[k].obj].phase = "starting"
         /\ obj[call[k].obj].srv = At(k)
         /\ obj[call[k].obj].conv = call[k].conv
    /\ \A j, k \in Caller :
         call[j].pc \in StartPc /\ call[k].pc \in StartPc /\ call[j].obj = call[k].obj
         => j = k

(* An allocated session value has a server and a conversation, and the     *)
(* registered ones are live, on that server and for that conversation.     *)
SessionsOwn ==
    /\ \A o \in Obj : obj[o].phase # "free" => obj[o].srv \in Server /\ obj[o].conv \in Conv
    /\ \A s \in Server, c \in Conv : sessions[s][c] # None =>
         /\ obj[sessions[s][c]].phase = "live"
         /\ obj[sessions[s][c]].srv = s
         /\ obj[sessions[s][c]].conv = c

(* A caller about to delete a saved state has one to delete; once it has   *)
(* deleted it, it is alone with it.                                        *)
LoadConsumes ==
    /\ \A k \in Caller : call[k].pc = "delete" => call[k].conv \in stored
    /\ \A k \in Caller : call[k].pc = "getConversation" => call[k].conv \notin stored
    /\ \A j, k \in Caller :
         /\ call[j].pc = "getConversation" /\ call[k].pc = "getConversation"
         /\ call[j].conv = call[k].conv
         => j = k

(* A pubsub session belongs to the session value that started it, or is    *)
(* left over from a start that failed, and then the conversation is lost.  *)
HubOwner ==
    /\ \A s \in Server, c \in Conv : hub[s][c] # None =>
         /\ c \notin stored
         /\ \A k \in Caller : call[k].pc \in {"delete", "getConversation"} => call[k].conv # c
         /\ \A k \in Caller : call[k].pc = "startPubsub" /\ call[k].conv = c
                                => call[k].obj # hub[s][c]
         /\ \A o \in Obj : Holds(o) /\ obj[o].conv = c =>
              o = hub[s][c] /\ obj[o].srv = s /\ obj[o].phase # "ended"
    /\ \A k \in Caller : call[k].pc \in {"addParticipants", "register"} =>
         hub[At(k)][call[k].conv] = call[k].obj

IInv ==
    /\ TypeOK
    /\ LoadsApart
    /\ CallersOwn
    /\ SessionsOwn
    /\ LoadConsumes
    /\ OnePlace
    /\ HubOwner
    /\ HubFeedsSession
=============================================================================

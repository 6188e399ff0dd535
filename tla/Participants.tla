---------------------------- MODULE Participants ----------------------------
(***************************************************************************)
(* Who takes part in a running session, and who is online.  The session    *)
(* keeps participants and a waitlist (lifecycle/session.go), the pubsub    *)
(* session keeps the participants it knows with their capabilities         *)
(* (pubsub/ably.go), and clients come and go on the presence channel.      *)
(*                                                                         *)
(* Four kinds of goroutine meet here without a lock: HTTP handlers,        *)
(* the start of a session that is resumed, the presence callback of the    *)
(* client library, and monitorParticipants.                                *)
(***************************************************************************)
EXTENDS Naturals, Sequences, SequencesExt, FiniteSets

CONSTANTS
    Client,        \* client devices
    WhispererName, \* the literal "whisperer" that notifyNeedsAuth sends to
    InTurn,        \* a client sends a request when the last one was answered
    MaxMoves,      \* bound on the presence changes
    MaxRemovals,   \* bound on the participants removed
    MaxWaiting,    \* bound on the waitlist
    None           \* not a participant

ASSUME ClientNames == WhispererName \notin Client /\ None \notin Client
ASSUME FiniteClients == IsFiniteSet(Client)
ASSUME NoneIsNothing ==
    /\ None \notin [role : {"whisperer", "listener"}, online : BOOLEAN]
    /\ None \notin [whisper : BOOLEAN, attached : BOOLEAN]
ASSUME Bounds == MaxMoves \in Nat /\ MaxRemovals \in Nat /\ MaxWaiting \in Nat
ASSUME InTurnOrNot == InTurn \in BOOLEAN

VARIABLES
    part,      \* part[c]: Participants[c] of the session state
    waitlist,  \* the clients on its Waitlist
    hub,       \* hub[c]: the participant c of the pubsub session
    call,      \* call[c]: the join of c in progress
    removing,  \* removing[c]: the RemoveClient of c in progress
    starting,  \* the participants that start has still to add
    present,   \* present[c]: c is in the presence set of the channel
    messages,  \* presence messages not handled yet, in order
    sr,        \* the status receiver channel
    token,     \* token[c]: what c may do on the content channel
    told,      \* the names that "approve-requests" was published to
    announced, \* who was online at the last "participants-changed" that was published
    unheard,   \* one that could not be published has come after it
    ended,     \* EndSession has taken the session off the manager's map
    resumed,   \* history: the participants of the saved state
    removed,   \* history: who has ever been removed
    refused,   \* history: whom the manager has failed to add
    moves      \* presence changes so far

known == <<part, waitlist, hub>>
calls == <<call, removing, starting>>
channels == <<present, messages, sr, ended, moves>>
notices == <<announced, unheard>>
history == <<resumed, removed, refused>>
vars == <<known, calls, channels, token, told, notices, history>>

NoCall == [pc |-> "idle", role |-> "listener", attached |-> FALSE, seen |-> {}]

GoTo(c, p) == call' = [call EXCEPT ![c].pc = p]

Init ==
    /\ resumed \in SUBSET Client
    /\ part \in [Client -> {None} \cup [role : {"whisperer", "listener"}, online : BOOLEAN]]
    /\ \A c \in Client : c \in resumed <=> part[c] # None
    /\ waitlist \in SUBSET (Client \ resumed)
    /\ Cardinality(waitlist) <= MaxWaiting
    /\ hub = [c \in Client |-> None]
    /\ call = [c \in Client |-> NoCall]
    /\ removing = [c \in Client |-> "no"]
    /\ starting = resumed
    /\ present \in [Client -> BOOLEAN]
    /\ \A c \in Client : present[c] => c \in resumed
    /\ messages \in SetToSeqs({<<c, TRUE>> : c \in {d \in Client : present[d]}})
    /\ sr = <<>>
    /\ token = [c \in Client |->
                  IF c \notin resumed THEN "none"
                  ELSE IF part[c].role = "whisperer" THEN "publish" ELSE "subscribe"]
    /\ told = {}
    /\ announced = {}
    /\ unheard = FALSE
    /\ ended = FALSE
    /\ removed = {}
    /\ refused = {}
    /\ moves = 0

-----------------------------------------------------------------------------
(* notifyNeedsAuth and SendControl *)

OnlineWhisperer(p) == \E c \in Client : p[c] # None /\ p[c].role = "whisperer" /\ p[c].online

(* The control chunk is published if the hub knows a client of that name. *)
SendControl(name) ==
    told' = IF ~ended /\ name \in Client /\ hub[name] # None THEN told \cup {name} ELSE told

(* What cannot be published, or comes after the end, is only logged.       *)
BroadcastFails ==
    /\ unheard' = TRUE
    /\ UNCHANGED announced

(* Mutant: the change is announced before it is made. *)
BroadcastEarly ==
    \/ /\ ~ended
       /\ announced' = {c \in Client : part[c] # None /\ part[c].online}
       /\ unheard' = FALSE
    \/ BroadcastFails

(* BroadcastControl of "participants-changed", to all on the channel. *)
BroadcastControl ==
    \/ /\ ~ended
       /\ announced' = {c \in Client : part'[c] # None /\ part'[c].online}
       /\ unheard' = FALSE
    \/ BroadcastFails

NotifyNeedsAuth(p, w) ==
    IF w # {} /\ OnlineWhisperer(p) THEN SendControl(WhispererName) ELSE UNCHANGED told

-----------------------------------------------------------------------------
(* Joining *)

InFlight == {c \in Client : call[c].pc # "idle" \/ removing[c] # "no"}

(* A request about c reaches the session, which start has registered;      *)
(* those of other clients are served at the same time.                     *)
Request(c) ==
    /\ starting = {}
    /\ call[c].pc = "idle"
    /\ InTurn => c \notin InFlight

(* AddWhisperer and AddListener, up to the call of the pubsub manager: the *)
(* participant is entered, offline.  AddListener takes c off the waitlist; *)
(* one who is a participant already gets an error.                         *)
Join(c, role) ==
    /\ Request(c)
    /\ IF role = "listener"
       THEN waitlist' = waitlist \ {c}
       ELSE UNCHANGED waitlist
    /\ IF part[c] = None
       THEN /\ part' = [part EXCEPT ![c] = [role |-> role, online |-> FALSE]]
            /\ call' = [call EXCEPT ![c] = [NoCall EXCEPT !.pc = "hub", !.role = role]]
            /\ UNCHANGED told
       ELSE /\ IF role = "whisperer" THEN NotifyNeedsAuth(part, waitlist) ELSE UNCHANGED told
            /\ UNCHANGED <<part, call>>
    /\ UNCHANGED <<hub, removing, starting, channels, token, notices, history>>

(* start adds the participants of the saved state, one after the other; if *)
(* one cannot be added it gives up.                                        *)
Resume(c) ==
    /\ c \in starting
    /\ InFlight = {} /\ refused = {}
    /\ call' = [call EXCEPT ![c] = [NoCall EXCEPT !.pc = "hub", !.role = part[c].role]]
    /\ UNCHANGED <<known, removing, starting, channels, token, told, notices, history>>

(* updatePresence asks for the presence set of the channel; if that fails, *)
(* the client is taken to be away.                                         *)
UpdatePresence(c) ==
    \E found \in {present[c], FALSE} :
        call' = [call EXCEPT ![c].pc = "insert", ![c].attached = found]

(* addWhisperer and addListener: one the hub knows gains the role, another *)
(* one is looked for on the channel.                                       *)
AskHub(c) ==
    /\ call[c].pc = "hub" /\ ~ended
    /\ IF hub[c] # None
       THEN /\ hub' = [hub EXCEPT ![c].whisper = @ \/ call[c].role = "whisperer"]
            /\ call' = [call EXCEPT ![c].pc = "online", ![c].attached = hub[c].attached]
       ELSE UpdatePresence(c) /\ UNCHANGED hub
    /\ UNCHANGED <<part, waitlist, removing, starting, channels, token, told, notices, history>>

(* NoSessionError: the session has ended.  Its participant stays, offline, *)
(* and the answer is the error; start returns it, and requests will never  *)
(* reach the session.                                                      *)
AddFails(c) ==
    /\ call[c].pc = "hub" /\ ended
    /\ part' = IF part[c] = None THEN part ELSE [part EXCEPT ![c].online = FALSE]
    /\ refused' = refused \cup {c}
    /\ IF c \notin starting /\ call[c].role = "whisperer"
       THEN NotifyNeedsAuth(part', waitlist)
       ELSE UNCHANGED told
    /\ call' = [call EXCEPT ![c] = NoCall]
    /\ UNCHANGED <<waitlist, hub, removing, starting, channels, token, notices, resumed, removed>>

(* Mutant: every participant may whisper. *)
Whisperer(role, attached) == [whisper |-> TRUE, attached |-> attached]

Entry(role, attached) == [whisper |-> role = "whisperer", attached |-> attached]

(* The new participant of the pubsub session, with what was found. *)
InsertHub(c) ==
    /\ call[c].pc = "insert"
    /\ hub' = [hub EXCEPT ![c] = Entry(call[c].role, call[c].attached)]
    /\ GoTo(c, "online")
    /\ UNCHANGED <<part, waitlist, removing, starting, channels, token, told, notices, history>>

(* The participant's IsOnline is set to what the manager has returned.     *)
SetOnline(c) ==
    /\ call[c].pc = "online"
    /\ part' = IF part[c] = None THEN part
               ELSE [part EXCEPT ![c].online = call[c].attached]
    /\ starting' = starting \ {c}
    /\ IF (c \in starting /\ starting' = {}) \/ (c \notin starting /\ call[c].role = "whisperer")
       THEN NotifyNeedsAuth(part', waitlist)
       ELSE UNCHANGED told
    /\ call' = [call EXCEPT ![c] = NoCall]
    /\ UNCHANGED <<waitlist, hub, removing, channels, token, notices, history>>

(* AddListenerRequest reads the waitlist, which other handlers may change  *)
(* before it assigns the longer one.                                       *)
ReadWaitlist(c) ==
    /\ Request(c)
    /\ c \notin waitlist /\ Cardinality(waitlist) < MaxWaiting
    /\ call' = [call EXCEPT ![c] = [NoCall EXCEPT !.pc = "asking", !.seen = waitlist]]
    /\ UNCHANGED <<known, removing, starting, channels, token, told, notices, history>>

WriteWaitlist(c) ==
    /\ call[c].pc = "asking"
    /\ waitlist' = call[c].seen \cup {c}
    /\ NotifyNeedsAuth(part, waitlist')
    /\ call' = [call EXCEPT ![c] = NoCall]
    /\ UNCHANGED <<part, hub, removing, starting, channels, token, notices, history>>

-----------------------------------------------------------------------------
(* Leaving, tokens *)

(* RemoveClient of a participant takes it out of the pubsub session, an    *)
(* error if that has ended, ...                                            *)
RemoveFromHub(c) ==
    /\ starting = {} /\ ~ended /\ removing[c] = "no" /\ part[c] # None
    /\ InTurn => c \notin InFlight
    /\ Cardinality(removed \cup {d \in Client : removing[d] # "no"}) < MaxRemovals
    /\ hub' = [hub EXCEPT ![c] = None]
    /\ removing' = [removing EXCEPT ![c] = "state"]
    /\ UNCHANGED <<part, waitlist, call, starting, channels, token, told, notices, history>>

(* ... and then out of the session state. *)
RemoveFromState(c) ==
    /\ removing[c] = "state"
    /\ part' = [part EXCEPT ![c] = None]
    /\ removing' = [removing EXCEPT ![c] = "no"]
    /\ removed' = removed \cup {c}
    /\ UNCHANGED <<waitlist, hub, call, starting, channels, token, told, notices, resumed, refused>>

(* RemoveClient of one who is waiting. *)
RemoveWaiting(c) ==
    /\ starting = {} /\ removing[c] = "no" /\ part[c] = None /\ c \in waitlist
    /\ InTurn => c \notin InFlight
    /\ waitlist' = waitlist \ {c}
    /\ UNCHANGED <<part, hub, calls, channels, token, told, notices, history>>

(* Mutant: a client that is not a participant is answered with nil. *)
GetNilToken(c) ==
    /\ starting = {} /\ ~ended
    /\ InTurn => call[c].pc = "idle"
    /\ token' = [token EXCEPT ![c] = IF hub[c] = None THEN None
                                    ELSE IF hub[c].whisper THEN "publish" ELSE "subscribe"]
    /\ UNCHANGED <<known, calls, channels, told, notices, history>>

(* AuthenticateParticipant: clientToken grants what the role allows. *)
GetToken(c) ==
    /\ starting = {} /\ ~ended
    /\ InTurn => call[c].pc = "idle"
    /\ hub[c] # None
    /\ token' = [token EXCEPT ![c] = IF hub[c].whisper THEN "publish" ELSE "subscribe"]
    /\ UNCHANGED <<known, calls, channels, told, notices, history>>

-----------------------------------------------------------------------------
(* Presence *)

(* A client with a token enters or leaves, or its connection drops. *)
Move(c) ==
    /\ moves < MaxMoves
    /\ moves' = moves + 1
    /\ token[c] # "none"
    /\ present' = [present EXCEPT ![c] = ~@]
    /\ messages' = Append(messages, <<c, ~present[c]>>)
    /\ UNCHANGED <<known, calls, sr, ended, token, told, notices, history>>

(* Mutant: a status is passed on only when a client comes. *)
PassOnEnter(c, on) == sr' = IF on THEN Append(sr, <<c, on>>) ELSE sr

(* The status receiver channel is buffered. *)
PassOn(c, on) == sr' = Append(sr, <<c, on>>)

(* presenceReceiver: a change of a participant's status is passed on. *)
HandlePresence ==
    /\ messages # <<>>
    /\ messages' = Tail(messages)
    /\ LET c == Head(messages)[1]
           on == Head(messages)[2]
       IN  IF hub[c] # None /\ on # hub[c].attached
           THEN /\ hub' = [hub EXCEPT ![c].attached = on]
                /\ PassOn(c, on)
           ELSE UNCHANGED <<hub, sr>>
    /\ UNCHANGED <<part, waitlist, calls, present, ended, moves, token, told, notices, history>>

(* monitorParticipants takes a status; one of a stranger is dropped. *)
MonitorStatus ==
    /\ sr # <<>>
    /\ sr' = Tail(sr)
    /\ LET c == Head(sr)[1]
           on == Head(sr)[2]
       IN  IF part[c] = None THEN UNCHANGED <<part, told, notices>>
           ELSE /\ part' = [part EXCEPT ![c].online = on]
                /\ IF on /\ part[c].role = "whisperer"
                   THEN NotifyNeedsAuth(part', waitlist) ELSE UNCHANGED told
                /\ BroadcastControl
    /\ UNCHANGED <<waitlist, hub, calls, present, messages, ended, moves, token, history>>

(* EndSession, from End or from Shutdown: no call finds the session any    *)
(* more, but those that have found it go on.                               *)
EndSession ==
    /\ ~ended
    /\ ended' = TRUE
    /\ UNCHANGED <<known, calls, present, messages, sr, moves, token, told, notices, history>>

-----------------------------------------------------------------------------
Handler(c) == Resume(c) \/ AskHub(c) \/ AddFails(c) \/ InsertHub(c) \/ SetOnline(c)
              \/ WriteWaitlist(c) \/ RemoveFromState(c)

Next ==
    \/ HandlePresence \/ MonitorStatus \/ EndSession
    \/ \E c \in Client :
         \/ Join(c, "whisperer") \/ Join(c, "listener") \/ ReadWaitlist(c)
         \/ RemoveFromHub(c) \/ RemoveWaiting(c) \/ GetToken(c) \/ Move(c)
         \/ Handler(c)

Spec == Init /\ [][Next]_vars

-----------------------------------------------------------------------------
Role == {"whisperer", "listener"}

(* Every variable has the shape the code gives it. *)
TypeOK ==
    /\ part \in [Client -> {None} \cup [role : Role, online : BOOLEAN]]
    /\ waitlist \in SUBSET Client
    /\ hub \in [Client -> {None} \cup [whisper : BOOLEAN, attached : BOOLEAN]]
    /\ call \in [Client -> [pc : {"idle", "hub", "insert", "online", "asking"},
                            role : Role, attached : BOOLEAN, seen : SUBSET Client]]
    /\ removing \in [Client -> {"no", "state"}]
    /\ starting \in SUBSET Client
    /\ present \in [Client -> BOOLEAN]
    /\ messages \in Seq(Client \X BOOLEAN)
    /\ sr \in Seq(Client \X BOOLEAN)
    /\ token \in [Client -> {"none", "subscribe", "publish"}]
    /\ told \in SUBSET (Client \cup {WhispererName})
    /\ announced \in SUBSET Client
    /\ unheard \in BOOLEAN
    /\ ended \in BOOLEAN
    /\ resumed \in SUBSET Client
    /\ removed \in SUBSET Client
    /\ refused \in SUBSET Client
    /\ moves \in 0 .. MaxMoves

(* The pubsub session knows the participants of the session and no one     *)
(* else, and lets whisper whom the session has as whisperers, whatever     *)
(* joins, refused joins and removals came before.  The only participant it *)
(* does not know is one that was answered that it could not be added, as   *)
(* the session was ending.                                                 *)
HubAgrees ==
    \A c \in Client :
        /\ call[c].pc \notin {"hub", "insert"} /\ removing[c] = "no" /\ c \notin starting
           => (part[c] # None <=> hub[c] # None \/ c \in refused)
        /\ hub[c] # None
           => part[c] # None /\ (hub[c].whisper <=> part[c].role = "whisperer")

Pending(c) ==
    \/ call[c].pc # "idle" \/ removing[c] # "no" \/ c \in starting
    \/ \E i \in DOMAIN messages : messages[i][1] = c
    \/ \E i \in DOMAIN sr : sr[i][1] = c

Settled(c) ==
    part[c] # None /\ ~Pending(c) => part[c].online = present[c]

(* Once the messages about a client that has joined this session have been *)
(* dealt with, the session has it online exactly if it is present, whoever *)
(* else joins or leaves at that time.                                      *)
StatusSettles ==
    \A c \in Client \ (resumed \cup removed) : Settled(c)

(* By then everybody has been told so, unless the last broadcast failed,   *)
(* which is not repeated: monitorParticipants announces each change, a     *)
(* broadcast makes good for those that failed before it, and no answer of  *)
(* the hub is a change that would have to be announced.                    *)
AnnouncementsSettle ==
    \A c \in Client \ (resumed \cup removed) :
        part[c] # None /\ ~Pending(c) /\ ~unheard => (c \in announced <=> present[c])

-----------------------------------------------------------------------------
(* Statements of comments that the code does not meet.  No run checks      *)
(* them; the README says how each one fails.                               *)

(* "updatePresence gets the latest presence information": the same of the  *)
(* participants of a session that is resumed.                              *)
ResumedSettle == \A c \in resumed \ removed : Settled(c)

(* "Requesters return the list of those who have asked to be allowed to    *)
(* join": only a request that was approved or removed leaves the list.     *)
RequestsStay ==
    [][\A c \in waitlist \ waitlist' : Join(c, "listener") \/ RemoveWaiting(c)]_vars

(* "The pubsub manager ... should ignore/refuse any such interactions" of  *)
(* a client that was removed.                                              *)
RemovedIsRefused ==
    \A c \in removed : part[c] = None => hub[c] = None

(* "AddListenerRequest asks the Whisperer to admit a Listener": somebody   *)
(* is told when there is a request and a whisperer online.                 *)
WhispererIsTold ==
    (InFlight = {} /\ starting = {} /\ sr = <<>> /\ waitlist # {} /\ OnlineWhisperer(part))
    => told # {}
=============================================================================

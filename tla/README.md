# A formal model of whisper.server2

TLA+ models of the Whisper server (`srv2`, Go) and of its browser listener
(`listen.js`), checked with TLC, and theorems about every one of the models, proved with
TLAPS: each safety property that a run checks is one. Paths below are relative to the
repository.

## The system

A *conversation* belongs to a user. While its owner whispers, a *session* of the
conversation runs on one server: it follows what the whisperer types through a
pubsub service (Ably), keeps the live line and the past lines, and knows the
participants. When a server is replaced it hands its sessions to the next one by
way of Redis.

| Part | State | Operations | Modules |
|---|---|---|---|
| `lifecycle/session.go` | `sessions` (a map by conversation id); per session the participants, waitlist, live text, live packets, `shuttingDown` | `GetSession`, `start`, `Shutdown`, `End`, `AddWhisperer`, `AddListener`, `AddListenerRequest`, `RemoveClient`, `monitorParticipants`, `transcribeContent` | SessionHandoff, Transcription, Participants |
| `lifecycle/server.go` | the process | `Startup`, `Shutdown` | SessionHandoff |
| `storage/session.go` | session states, the suspended queue, suspended packets, transcripts, all in Redis | add, wait, remove; save, load | SessionHandoff, Transcription |
| `pubsub/ably.go` | pubsub sessions, their participants and channels | start, end, add, remove, `ClientToken`, presence and content receivers | SessionHandoff, Participants, Transcription |
| `storage/profile.go`, `storage/conversation.go`, `storage/client.go`, `handlers/*` | profiles, `EmailProfileMap`, conversations, `OwnedConversationMap`, the activity record of a client | launch, shutdown, patch, create and delete conversations and users | Accounts |
| `protocol/content.go`, `protocol/chunk.go` | none | `DiffLines`, `ProcessLiveChunk` | LiveText |
| `speech/*`, `platform/expiring_cache.go` | `signals`, cached audio | `GenerateSpeech`, `GeneratedSpeech`, `AddBlob`, `GetBlob` | Speech |
| `listen.js` | status, text, `resetInProgress`, `doneCounts` | control and content packets, rereads | Listener |
| `platform/orm.go` | none: it is the one way to Redis | lists, maps, stored values and their lifetimes | operators and actions of the modules that use them |
| `protocol/control.go`, middleware, router, `cmd`, configuration, files, AWS | little or none | | not modelled |

How they interact. `cmd/serve` starts `lifecycle.Startup`, which runs the HTTP
server and, beside it, a loader for suspended sessions. Handlers call
`GetSession`, which loads the state from storage, starts a pubsub session and
registers the session in the map. The pubsub session feeds two Go channels of the
session: `cr` (content, read by `transcribeContent`) and `sr` (presence, read by
`monitorParticipants`). An interrupt makes `ShutdownAllSessions` suspend every
session in a goroutine of its own, save its state, and queue its id; the loader
of another server takes the id from the queue. `StartWhisperSessionHandler`
and `StartListenSessionHandler` exist, but `api/console/router.go` does not
register them; `Transcribe`, `End`, `EndAllSessions`, `RemoveClient` and
`DeleteExistingUser` are called by tests only. They are modelled as the operations
that they are.

What is hard here:

- *Two servers and one store.* No transaction joins any two Redis commands, so
  every pair of commands can be interleaved with another server's, fail half way
  or be cut by a crash.
- *Goroutines without locks.* The map of sessions, `shuttingDown`, a session's
  state and the map of signals are shared without synchronisation; a `select`
  whose cases are all ready picks one at random.
- *Order of callbacks.* Attach notices, content and presence arrive through
  callbacks that run independently.
- *Stale answers.* Presence is asked for at one time and used at another.
- *Time.* Ten seconds of grace, thirty seconds of waiting for the queue, thirty
  seconds of life for saved packets.

`PROJECT.json` lists each hazard with its line and the properties aimed at it.

## The modules

### SessionHandoff (composes the session map, storage, queue and pubsub registry)

Several servers, each with its loader (`StartAllSuspendedSessions`), request
handlers, and the goroutines of `ShutdownAllSessions` and `Session.Shutdown`. A
*caller* (a loader or a request) walks through `GetSession` one shared access at a
time: `Lookup`, `FetchState`, `DeleteState`, `MakeSession`, `StartPubsub`,
`AddParticipants`, `Register`, with `GiveUp` and `Return` for its error paths.
`Interrupt`, `ShutdownSession`, `LoopDone`, `EndGrace`, `SaveState`,
`QueueSuspended` and `Exit` are the shutdown. Each storage or pubsub call can fail;
a crash ends a process at any point. A failed Redis command is taken to have had
no effect.

`SessionOwnership` is the abstract specification: a session is kept by one server,
or is in storage, or nowhere, and goes from server to server only by way of
storage. `ImplementsOwnership` states that the hand-off implements it, under the
mapping `Place`.

The load is a read and a delete. The code does not make them one, so the module
has three specifications: `Spec`; `ApartSpec`, in which no two callers are between
the two commands for one conversation (`LoadsApart`); and `OrderlySpec`, in which
moreover servers are interrupted only when their loader has stopped and no request is
being handled. `SingleMonitor` and `NeverLost` fail for `Spec` (see *Where code and
comments differ*). What holds under `ApartSpec` and `OrderlySpec` says that
nothing else breaks them.

### Transcription

The transcriber goroutine of a session on successive servers, and the content
channel: the attach packet racing the first packets (`Signal`, `Publish`), the wait
for the first packet, the loading of suspended packets in its two commands (`LoadPackets`,
`LimitPackets`), the loop with its `select`
(`Receive`, `HandOver`, `Skip`, `TranscribeOne`, `Done`), and what shutdown and `End`
do to it (`Cancel`, `EndSession`, `SaveState`, `Exit`). Packets are
numbers in the order of publication; `Newline` says which of them end a line. After
the channel is closed, receives yield zero packets; the loop takes one while fewer than
`MaxZeros` are kept, with any server. Servers take turns, as SessionHandoff establishes for the cases where
loads do not overlap, and are numbered in the order of their turns; the transcriber of an
earlier server may linger.

`EndSession` of the pubsub manager detaches the channel and closes `cr`. A detach that
fails is logged, and the session is saved and queued with the channel attached, until its
client is closed a second later (`CloseClient`). What a server passes to its session is
therefore `Listening`: attached, and `cr` open. The histories `read` and `late` tell packets
that a later server has read from the list from those pushed on a list that was read already.

A process can crash at any stage (`Crash`, and what it `Forget`s). The code has a cause
of its own: `contentReceiver` sends on `cr` from a callback of the client library, and
`EndSession` closes `cr` without waiting for it; a send on a closed channel panics. A
callback that comes because the detach failed ends the process (`Panic`), and so does a late
one, which `Crash` stands for.

Transcripts are the two commands of `saveTranscript` (`StoreTranscript`,
`LimitTranscript`), `LoadTranscript` (`FetchTranscript`, `RenewTranscript`) and
`DeleteTranscript` together with the end of the year (`DropTranscript`). The last
two run only while no transcriber does (`Silent`), which keeps the state space small and
hides nothing: the transcriber does not look at transcripts. For the same reason a session is
marked for transcription only when no transcriber of an earlier server lingers (`Transcribe`).

### Participants

One session and its pubsub session: joins step by step through `newParticipant` and
`addWhisperer`/`addListener`, presence messages through `presenceReceiver` and
`monitorParticipants` with the announcement it makes (`announced`), requests and the
waitlist, removal, tokens, and a resumed session (`Resume`). With `InTurn` a client
sends a request when its last one was answered, which says nothing about the requests of
other clients, the presence callback and the monitor: those interleave freely. Without
it two requests about one client overlap. Ably's `SubscribeAll` is taken to return when
attached.

The session can end at any time, also while `start` is adding participants (`EndSession`).
A call that has found the session goes on; the manager refuses it (`AddFails`, the
`NoSessionError`), but the participant stays in the session state, which `refused` remembers.
That is the only failure of `AddWhisperer` and `AddListener`: a presence set that cannot be
read counts as an absent client (`UpdatePresence`). A broadcast of the monitor can fail each
time (`BroadcastFails`) and is then only logged; `unheard` says that the last one was lost.
That a late presence callback, which sends on the `sr` that the end has closed, ends the
process is in Transcription, for `cr`; here the messages and statuses under way are dealt
with or not. A second session value of the same conversation that would share the pubsub session,
which overlapping loads can make on one server, is not in this model.

### Accounts

Users, emails, conversations, names and the activity records of clients as Redis
structures, one command a step (`StoreObject`, `DeleteStorage`, `SetMapValue`,
`MapRemoveKey`, `GetMapAll`), with the cleanup that each operation makes when a command
fails. A crash abandons a request where it is. `overlap` remembers whether two requests
were ever served at the same time, and `failed` which kinds of failure have happened, so
that one run checks what holds always (`MappingsResolve`, short of a failed command) and
what holds of requests in turn (the others). `history` notes what clients were answered,
as long as requests come in turn; after that it is empty, since no property looks at it.

A profile has two fields, of which the secret also is *usable* or not: a request can only
be authenticated with a secret that is a UUID. Launches of a client with a profile
(`Relaunch`) look up the email and then authenticate; both kinds of launch save the
client's record, and `GetShutdownHandler` reads it and saves it again. A client uses a
profile once the launch that creates it has ended. The code tells its id a little earlier, to
another client that launches with the same email (`handlers/launch.go:40-46`): requests with
that id beside the end of the first launch are left out.

### LiveText

`DiffLines` and `ProcessLiveChunk` as operators; a whisperer who edits, a server
that plays the chunks, and a receiver that attaches late. The texts are sequences
of characters, so that offsets, fill characters and line breaks are computed as the
code does. What the code does in loops (`Split` at line breaks, `LineChunks`, `PlayAll`) are
recursive functions on how much of the text or of the queue is left.

### Speech

Each call of `GenerateSpeech` is a job with a channel of its own; the cache is
absent, stored without lifetime, or stored with one. The deferred close looks the
channel up again in the map, as the code does. `Reuse` allows two lines with one
id; the runs have distinct ids, which the server takes from clients unchecked. With
`Reuse`, `NoPanic` and `EveryoneIsAnswered` do not hold. Redis commands fail one by one
(`HSet`, `HExpire`; `HDel`, the delete that cleans up after a failed expiration, needs no fault of
its own, since what failed the one can fail the other), and the server can die (`Crash`) between any two of them: callers are cut off, and an entry that has no
lifetime yet keeps none. `unlimited` remembers the entries left so.

### Listener

The browser's page, one step a handler, with the whisperer as the packets imply it:
it answers offers, requests and rereads, types, ends lines, and sends up to
`MaxNotices` control packets unasked (an offer, a transcript id, dropping, restart).
The content
channel delivers in order and without loss while it is attached. There is one content
channel: a second `listenAuthYes` that names another is left out. React's updaters
are taken to run at once.

## The runs

Every module has an MC module and one cfg per run. Deadlock checking is off in all
of them: in every model the clients may stop doing anything, and the bounds end
every behaviour.

| Run | Shows | Bounds |
|---|---|---|
| `handoff_apart` | with loads apart, a session is in one place, hears its participants, is never overwritten; implements SessionOwnership | 2 servers, 1 conversation, 1 request, 4 session values, 1 failure of any kind but an unnoticed delete |
| `handoff_orderly` | without failures no session and no acknowledged join is lost; every queued session resumes | as above, 2 conversations, no failure |
| `handoff_fair` | every queued id is dealt with; an interrupted server exits | 2 servers, 1 conversation, no request, 1 failure of any kind |
| `handoff_two_monitors` * | two servers run one conversation | no failure |
| `handoff_no_create` * | `GetSession` fails where it should create | no failure |
| `transcription` | text in order, nothing handed over twice, one listener, wherever a process crashes and even if it cannot detach; without failures nothing lost by a transcriber that stops; transcripts expire; every cancelled transcriber stops | 2 servers, 2 packets, 1 newline, 1 storage failure, failed detach or crash, 1 zero packet |
| `transcription_unprocessed` * | saved packets are never transcribed | 2 servers, 2 packets |
| `participants` | session and pubsub agree but for joins answered with an error; the status of one who joins settles on its presence and is announced, unless the last broadcast was lost | 2 clients, 2 presence changes, 1 removal, a waitlist of 1, requests of one client in turn; the session ends at any time; presence reads and broadcasts fail any number of times |
| `accounts` | no mapping leads to nothing, whatever interleaves or crashes; in turn, everything can be found, nothing is left behind, patches and the record of a launch are kept | 2 requests, 1 email, 2 profiles, 2 conversations, 2 names, 1 client, 1 failed command or crash |
| `live_text` | diffs rebuild the typed text exactly; a late receiver is right where it knows | 2 characters, texts up to 3, 2 edits, 1 other chunk |
| `speech` | no panic; "expired" only for what was lost or ran out; every entry expires unless its own expiration and delete fail or the server dies between them; every caller is answered, unless the server dies | 2 lines, 2 callers, 2 generations, 2 failing Redis commands or crashes |
| `listener` | the text shown is the text whispered; no line is missed or taken away; a waiting listener is answered and catches up | 2 characters, live text up to 2, 3 edits, 1 unasked packet |

Runs with * find a violation: the statement comes from a comment of the repository,
quoted in `PROJECT.json` under `findings`, and the code does otherwise.

Why the bounds are enough. The hazards are about pairs: two callers of one load,
two servers of one hand-over, two handlers, two packets on either side of a newline or
of a cancellation. One failure is enough to take each error path; `speech` allows two, so that
one line fails beside the failure of another, or before a crash. Four session values let each of two servers load the
session twice. Three characters of text with two letters and a line break reach a diff
before, at and after every boundary. Symmetry is used for sets whose members are never
compared, in runs without liveness properties; the servers of Transcription are numbered, so they have none.
Packets are published only while a server listens or can still be started (`Publish`): those
published later reach nobody.

Fairness. Goroutines run on, a blocking call returns and a sleep ends: weak fairness of
the goroutines' steps.
Nothing makes a request arrive, a client type, a server start or an interrupt come.
In Speech the synthesis service answers sooner or later, which the code relies on
too (its HTTP client has no timeout). In Listener messages are delivered. In Transcription
the end of a session (`EndSession`), the first steps of the transcriber, or `Done` is taken if
one of them always can be. For `Done` this is so although a receive from the closed channel
may always be ready as well:
`select` picks a ready case at random, so it does not pick the same one for ever. Nothing
there makes a packet come; a transcriber that waits for its first one stops because
`EndSession` closes the channel.

## The proofs

Hardly any property below is inductive by itself; each module has an invariant that is, with
one lemma per action.

`SessionHandoffProofs` proves, for any finite set of servers, requests,
conversations and session values and any number of failures:

- `TypeCorrect`: `Spec => []TypeOK`.
- `OnePlaceAlways`, `HubFeedsSessionAlways`, `SaveNeverOverwritesHolds`: `OnePlace`,
  `HubFeedsSession` and `SaveNeverOverwrites` for `ApartSpec`, when a failed delete
  does not go unnoticed (`"delete" \notin Faults`).
- `AckedJoinAlwaysKept`: `AckedJoinKept` for `OrderlySpec`, under the same assumption: so it
  holds through crashes and every other failure, of which its run has none.
- `NeverLostHolds`: `NeverLost` for `OrderlySpec`, when nothing fails that loses a session by
  itself (`LosingFaults`: a crash, a save that fails, and so on). Failures of the queue, and of
  reading a state, are allowed.

The invariant `IInv` adds: what a caller
inside `GetSession` owns (`CallersOwn`), what an allocated or registered session
looks like (`SessionsOwn`), that a caller about to delete a state has one to delete and is
then alone with it (`LoadConsumes`), and whose session the pubsub registry holds, also after
a start that failed (`HubOwner`). The last is needed because the pubsub session of a
failed start stays registered; the proof shows that its conversation is then lost, so that
no later session of it is fed by stale channels. The proof goes in three
layers, each with a lemma per action: types and owners, which hold for `Spec`; then,
with loads apart, the parts about storage and memory; then the temporal
conclusions. The assumption about deletes is needed: with an unnoticed failure of a delete
the state stays in storage while the session runs.

For `OrderlySpec` two parts are added. `Orderly`: only a server that is up has callers at work
(`Parked`), a request that joins has the session that runs on its server (`Joins`), and one
that was told so is a participant of its conversation in whatever holds it, a session value, a
stored state or a state just read (`JoinKept`, `ReadKept`). `Accounted` and `Counted` are why no
server exits too early: `ShutdownAllSessions` counts its sessions once and then down, and
`left` always is the number of conversations whose sessions are still to be saved
(`Undone`) plus those saved and not yet queued (`completed`). So when it is zero nothing
is left in memory.

`OwnershipProofs` builds on that invariant and proves the refinement:
`ImplementsOwnershipHolds`, `ApartSpec => ImplementsOwnership`, under the same assumption.
A conversation whose state is not stored has at most one keeper (a session value that has not
been saved, or a caller between the delete and the session value), so `Place` is a function of
the state that an action changes for the conversations it touches only. `DeleteState` and a
load take the session out of storage, `SaveState` returns it, `GiveUp`, a failed save,
`Exit` and `Crash` lose sessions, and every other action is a stutter; there is a lemma for
each way and one for each action.

`TranscriptionProofs` proves, for any servers, packets, newlines, failures and crashes,
every invariant of Transcription that is checked: `TypeCorrect`, `OneListenerAlways`,
`TranscriptsExpireHolds`, `TakenIsKeptHolds`, `TranscribedInOrderAlways` and
`HandedOverOnceAlways`. The proof is in layers, each an invariant of its own. `Base`: the
types, that a session is with one server, or in storage, or nowhere (`InTurns`), and that a
server without the session has nothing in memory. `OneListener` follows from `InTurns` because
`cr` is closed before the state is saved: a server whose detach failed may be attached beside
the next one, but has no channel to pass packets to. `AllAccounted`: where each packet taken
is, as long as nothing has failed; with it, that a channel that stays attached is a failure
(`DetachFailed`), and that a list is given its lifetime only once a server has read it
(`ReadFirst`), so what expires was read or was late. `AllOrdered`: on each server the past text comes before the live packets and what
is said before what is still on the channel, all of it published; so a server that starts is
only ever sent packets that are later than the state it starts from. `Once`: what a
transcriber has still to say has not been kept, and no other server has it or has said it.
The last is the reason why a transcriber that lingers, or a save that fails and is repeated
with the next packet, puts nothing on the list twice.

`ParticipantsProofs` proves, for any finite set of clients and any number of presence
changes, removals and failures, whenever the session ends, when the requests of each client come in turn (`InTurn`):
`TypeCorrect` and `HubAgreesHolds`. `HubAgrees` says nothing of a client that is being
added or removed, so `IInv` says what such a request has found and made (`CallsOwn`): a client
being added is a participant with the role asked for and unknown to the hub, one that has been
inserted is known, one being removed is unknown to the hub and nobody else touches it;
`start` finds the participants it has still to add as the saved state has them
(`StartersWait`); and somebody is refused only after the end, when nobody is a new member of
the hub any more (`RefusedAtEnd`), so no refused participant is known to it. It follows that in turn the hub never knows the client it is asked to add:
the first branch of `addWhisperer` and `addListener` is taken only when requests overlap.

`StatusAlwaysSettles` and `AnnouncementsAlwaysSettle` are proved under the same assumption:
`StatusSettles` and `AnnouncementsSettle`. A presence change goes through two queues, to the
hub and on to the session. `Chain` says of a client that joined this session what each queue
leads to: the last message about the client in `messages`, or where there is none the status
that the hub has, is the presence of the client; the last in `sr`, or the status that the
session has, is that of the hub; and who was online in the last announcement is who is online in
the session, unless a later one was lost (`unheard`). A refused client is offline in the session
and was never given a token, so it is not present either. A client gets its token only once it is a participant and can enter the channel only
with a token (`Outside`, `Joining`), which is why its first message finds it there. It says nothing of
participants of a resumed session, for which it fails (see `ResumedSettle` below).

`SpeechProofs` proves, for any lines, callers, generations, failing Redis commands and crashes, when
no two lines share an id (`~Reuse`): `TypeCorrect`, `NoPanicEver`, `ExpiredIsTrueHolds` and
`LifetimesAreLimitedHolds`. The invariant: an id is one goroutine's, and its signal is in the
map while that runs (`SignalsOwn`), so the channel that the deferred close looks up is the
goroutine's own; a caller waits for the channel of its id and reads after the close
(`WaitersOwn`); and a goroutine that has got to its close has cached its audio, unless a
command failed or the entry lapsed (`CacheFollows`).

`AccountsProofs` proves, for any requests, emails, profiles, conversations, names, clients and
failures, when `None` is none of them (`NoneIsNothing`), all invariants of Accounts: `TypeCorrect`,
`MappingsAlwaysResolve`, `EverythingStaysReachable`, `DeletionIsComplete`, `PatchesAreKept`
and `LaunchesAreKept`. `MappingsResolve` is about any interleaving and any crash. Its proof is in
layers: `Types`, with what a request has at hand at each of its commands; `ProfileIds` and `ConvIds`,
that what a request creates is nobody else's and is stored before anything maps to it (`FreshProfiles`,
`FreshConvs`), that a profile or conversation belongs to one email, or one profile and name, even while it
is being made or removed (`OneEmail`, `OwnedOnce`); and `Resolve`, that a mapping leads to what is
stored, or to what a request is about to make, or is about to take the mapping away from. The
others are about requests in turn (`Alone`). `Patches`: what a patch has read is what is stored.
`Reachable`: a user or conversation that cannot be found is under way in the request of the moment,
and a deletion knows of every conversation of its user. `Gone` and `Launched` say the
same of deleted users and of the activity of clients.

`LiveTextProofs` proves, for any characters, texts of any length and any number of edits:
`TypeCorrect`, `ServerStaysInStep` and `LateAlwaysAgrees`. Induction over the length of a
text or of a queue is in the lemma `Induction`, in the form that a set of numbers that has 0 and
is closed under successor has them all; it follows from the least element of a
set of numbers. From it come the lemmas about the recursive
functions: the lines of a text (`SplitLines`, `LinesOfWhole`), the state after a queue of chunks
(`PlayedIs`, `PlayConcat`, `PlayFirst`), and what the chunks of a diff do (`DiffIs`,
`LinesArePlayed`): playing the chunks of `DiffLines(old, new)` on `old` gives the lines
of `new` (`EditAgrees`). The invariant extends `ServerInStep`, which is inductive, by `LateInStep`: what
a late receiver will have, once it has played what is under way, agrees with the typed text where
it knows it, and past lines but the first are exactly those ended since it attached.

`ListenerProofs` proves, for any characters and bounds: `TypeCorrect`, `PastIsKept`
(`KeepsPast`) and `TextIsAlwaysTrue` (`TextIsTrue`). What the property says of the page once it
has played the chunks under way (`Seen`) is inductive together with three facts: there are no past
lines where the page has not caught up with the live text (part of `Shows`), a view that is not
attached is empty, and a page that listens has asked for its reread (`initialRead`), so that being
let in again does not reset an attached view.

The proof modules for LiveText and Listener each have their own lemmas about played chunks: the code
of the browser is not that of the server.

Only model-checked are the liveness properties: `SuspendedResumes`, `QueueDrains` and
`ShutdownEnds` of the hand-off, `TranscriberStops`, `EveryoneIsAnswered` of
Speech, and `IsAnswered` and `CatchesUp` of Listener. They
need rules for fairness and `ENABLED`, which the prover does not have. `SingleMonitor`,
`FindsOrCreates` and `SuspendedProcessed` do not hold, and the properties that the last section names
as broken by some execution are not claimed.

## Not modelled

- `EndAllSessions`, a loop over `End`; `AllowedListeners` (`storage/conversation.go`), a set
  that only tests add to and that is empty otherwise; `addWaitLister` and
  `DeleteClientActivity`, which no other part uses; the id of a server, a constant.
- `BroadcastControl` of the end of a session, which changes no state of the server.
- The session handlers are not routed; Participants and SessionHandoff have what they
  call. `handlers/session.go:29-31` answers a request for a conversation that is
  not the user's ("invalid conversation id") and goes on without returning.
- Authentication beyond whether the user's profile is found and its secret can be a key;
  mail, upload and encryption of files, configuration (`platform/config.go`, `aws.go`, `io.go`)
  and commands (`cmd`, which start the server or copy the database key by key): sequential
  input and output.
- How long the two channels of a session take to attach, while `StartSession` holds the
  manager's lock.
- Sets, sorted sets and iteration over keys of `platform/orm.go`: no modelled part uses them.
- Concurrent writes to one Go map: the runtime ends the process, which the models
  have as a crash where they have crashes.
- Bytes against characters: offsets count bytes in Go and UTF-16 units in JavaScript.

## Where code and comments differ

Three differences are shown by runs and listed as findings: two servers can run one
session (`SingleMonitor`), `GetSession` never creates one (`FindsOrCreates`), and packets
saved for the next server are not transcribed by it (`SuspendedProcessed`). The models
have more executions that a comment rules out. Where an item names a definition, the
execution can be had by checking it, which no run does because it does not hold.

- `NeverLost` under `Spec` (`lifecycle/session.go:38-40`): the loader of a server that is
  shutting down can load a session back that the server has just saved, and exit with it.
- `LiveTextSaved` (`lifecycle/session.go:168-171`): the process can exit before the
  transcriber goroutine has saved the live packets; `Shutdown` does not wait for it.
- `SuspendedWereReceived` (`storage/session.go:166-169`): a receive from the closed
  channel yields a zero packet, which is saved with the others.
- `NoneExpiresUnread` (`storage/session.go:166-169`): packets are saved for the next server,
  but one pushed on a list that was read already is dropped 30 seconds after that read, since
  the push does not prolong the list's life. `TakenIsKept` names this case (`late`).
- `ListensOn` (`lifecycle/session.go:170-172`): the server is to keep listening until the next
  one has resumed the session. The next one can resume it only once it is queued, after
  `EndSession` has closed `cr`; so there is a time when nobody listens, and never one when
  two do, which is what `OneListener` says.
- `lifecycle/session.go:378-382`: a broadcast of a presence change that fails is logged and not
  repeated, so what clients were told last need not be the presence until somebody else comes or
  goes. `AnnouncementsSettle` excludes that state (`unheard`).
- `ReturnsTranscript` (`lifecycle/session.go:191-192`): `saveTranscript` clears the id
  before `End` returns it. It also appends the live line to a copy and saves the
  original, so the last line of an ended session is in no transcript.
- `ResumedSettle` (`pubsub/ably.go:379-381`): a presence change between the read of the
  presence set and the insertion of the participant is dropped as a stranger's, and
  `start` overwrites a status the monitor has set meanwhile.
- `RemovedIsRefused` (`pubsub/interface.go:62-66`) with `InTurn = FALSE`: a client
  removed while it joins comes back into the pubsub session; and `WhispererIsTold`
  (`lifecycle/session.go:227`): the notice of pending requests goes to the client id
  `whisperer`, which nobody has.
- `RequestsStay` (`lifecycle/session.go:248`): `AddListenerRequest` reads the waitlist and
  assigns a longer one, so requests of two clients served together lose one of them, and a
  request served beside an approval puts the approved client back.
- `SecretsAreUsable` (`handlers/auth.go:67`): `PatchProfile` stores any string as the secret.
  One that is not a UUID locks its user out, with a message about corrupt server data.
- `storage/session.go:301` expects `LoadTranscript` to find nothing without an error; it
  compares with `redis.Nil`, but `FetchValueAtKey` returns an error of its own.
- `handlers/launch.go:124` inverts its check: the activity of a client is recorded for
  shutdowns that are *not* authenticated, and the authenticated ones are ignored (`ReadActivity`).
- The record of a client is read and saved again (`storage/client.go:104-118`): a launch that
  falls in between is undone. `LaunchIsKept` is therefore about requests in turn.
- A session that is marked for transcription and then handed over loses the mark
  (`lifecycle/session.go:281`): the saved state does not have it.
- `storage/profile.go:184` calls a second user of one email an error: two launches that
  overlap, or one whose lookup fails (`handlers/launch.go:40` ignores the error), create one.
- `platform/expiring_cache.go:17-18`: an entry stays for good when its expiration fails
  and the delete after it, which has the same context, fails too, or when the server dies
  before the one or the other. These are the cases that `LifetimesAreLimited` exempts, for the
  entry concerned only (`unlimited`).
- `listen.js/src/listen/listen.tsx:406`: a transcript id, which the listener expects, goes
  on to the default case and makes it offer again.
- A listener that is let in a second time does not ask for a reread, because `doCount`
  counts per page; no comment says otherwise.

## Plan

Done, in this order: the hand-off (model, checks, proofs), transcription,
participants, accounts, live text, speech, listener; then crashes and transcripts in
Transcription, announcements in Participants, client records and Redis commands in
Accounts; the proofs about speech, transcription, the refinement of `SessionOwnership`, and
`HubAgrees`; the proofs about accounts, live text and the listener; `StatusSettles` and
`AnnouncementsSettle`; `AckedJoinKept` and `NeverLost`; then failed detaches and the panic
that follows them, sessions that end under a join, lost broadcasts, and a crash while speech is
cached, with the proofs they concern.

Next:

1. `HubAgrees` and `StatusSettles` with requests that overlap, under the weakest
   condition on the overlap.
2. `NeverLost` with a condition weaker than `Quiet`: which requests may be under way when a
   server is interrupted.
3. The safety halves of the liveness properties: that a step which counts down is never undone
   (`left` in the hand-off, the stages of a transcriber).
4. A composition of Transcription with SessionHandoff in which servers need not
   take turns.

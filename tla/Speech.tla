------------------------------- MODULE Speech -------------------------------
(* Speech for past lines (speech/resemble_manager.go): GenerateSpeech makes a  *)
(* signal channel and a goroutine that asks the synthesis service, caches the  *)
(* audio in Redis for a limited time and closes the signal; GeneratedSpeech    *)
(* waits for the signal and reads the cache.  The map of signals is looked up  *)
(* again at the close, so it matters what has replaced or deleted the entry.   *)
EXTENDS Naturals

CONSTANTS SpeechId,     \* line ids, which name their speech
          Waiter,       \* callers of GeneratedSpeech
          MaxGenerate,  \* bound: calls of GenerateSpeech
          MaxFaults,    \* bound: failing Redis connections and crashes
          Reuse,        \* two lines may carry one id
          None

ASSUME BoundsAreNat == MaxGenerate \in Nat /\ MaxFaults \in Nat /\ Reuse \in BOOLEAN
ASSUME NoneIsNone == None \notin SpeechId /\ None \notin Nat

Job == 1..MaxGenerate

VARIABLES signals,  \* rm.signals: speech id to channel (the number of its job)
          closed,   \* closed channels
          job,      \* goroutines of GenerateSpeech
          cache,    \* the Redis hash: absent, without or with a time to live
          waiter,   \* callers of GeneratedSpeech
          panicked, \* a goroutine closed a closed or a nil channel
          failed,   \* history: speech that could not be made or cached
          lapsed,   \* history: speech whose time to live has run out
          unlimited, \* history: speech left in the cache with no time to live
          faults

vars == <<signals, closed, job, cache, waiter, panicked, failed, lapsed, unlimited, faults>>
histories == <<failed, lapsed, unlimited>>

Started == {j \in Job : job[j].pc # "unused"}

Fault == faults < MaxFaults /\ faults' = faults + 1

At(j, pc) == ~panicked /\ job[j].pc = pc
Goto(j, pc) == job' = [job EXCEPT ![j].pc = pc]

\* A mistake: the close is not deferred.
ReturnAtOnce(j) == Goto(j, "done")

\* The goroutine returns, by way of its deferred close.
Return(j) == Goto(j, "closing")

\* A mistake: an entry that cannot be given a time to live is left.
LeaveEntry(j) == Goto(j, "closing")

DeleteEntry(j) == Goto(j, "deleting")

(* GenerateSpeech and its goroutine.                                         *)

GenerateSpeech(id) ==
  \E j \in Job \ Started :
    /\ ~panicked
    /\ \A k \in Job : k < j => k \in Started
    /\ Reuse \/ \A k \in Started : job[k].id # id
    /\ signals' = [signals EXCEPT ![id] = j]
    /\ job' = [job EXCEPT ![j] = [id |-> id, pc |-> "asking"]]
    /\ UNCHANGED <<closed, cache, waiter, panicked, histories, faults>>

\* A mistake: the signal is closed once the audio is there, not once it is kept.
TextToSpeechCloses(j) ==
  /\ At(j, "asking")
  /\ Goto(j, "storing")
  /\ closed' = closed \cup {signals[job[j].id]}
  /\ UNCHANGED <<signals, cache, waiter, panicked, histories, faults>>

\* The service answers.  The token and the voice fall back to defaults.
TextToSpeech(j) ==
  /\ At(j, "asking")
  /\ Goto(j, "storing")
  /\ UNCHANGED <<signals, closed, cache, waiter, panicked, histories, faults>>

\* The request fails, or its answer is no success or cannot be decoded.
TextToSpeechFails(j) ==
  /\ At(j, "asking")
  /\ Return(j)
  /\ failed' = failed \cup {job[j].id}
  /\ UNCHANGED <<signals, closed, cache, waiter, panicked, lapsed, unlimited, faults>>

\* AddBlob, first command: storing a field drops the time to live it had.
HSet(j) ==
  /\ At(j, "storing")
  /\ \/ /\ cache' = [cache EXCEPT ![job[j].id] = "forever"]
        /\ Goto(j, "expiring")
        /\ UNCHANGED <<failed, faults>>
     \/ /\ Fault
        /\ failed' = failed \cup {job[j].id}
        /\ Return(j)
        /\ UNCHANGED cache
  /\ UNCHANGED <<signals, closed, waiter, panicked, lapsed, unlimited>>

\* Second command: the time to live.
HExpire(j) ==
  /\ At(j, "expiring")
  /\ \/ /\ cache' = [cache EXCEPT ![job[j].id] = IF @ = "none" THEN @ ELSE "timed"]
        /\ Return(j)
        /\ UNCHANGED <<failed, faults>>
     \/ /\ Fault
        /\ failed' = failed \cup {job[j].id}
        /\ DeleteEntry(j)
        /\ UNCHANGED cache
  /\ UNCHANGED <<signals, closed, waiter, panicked, lapsed, unlimited>>

\* An entry that cannot expire is deleted.  A failure of that is ignored; it needs
\* no fault of its own, since what failed the expiration can fail the delete.
HDel(j) ==
  /\ At(j, "deleting")
  /\ \/ cache' = [cache EXCEPT ![job[j].id] = "none"] /\ UNCHANGED unlimited
     \/ unlimited' = unlimited \cup {job[j].id} /\ UNCHANGED cache
  /\ Return(j)
  /\ UNCHANGED <<signals, closed, waiter, panicked, failed, lapsed, faults>>

\* The deferred close of whatever channel the map holds for the id by now: the
\* runtime panics if there is none or it is closed already.
CloseSignal(j) ==
  LET channel == signals[job[j].id]
      open == channel # None /\ channel \notin closed
  IN  /\ At(j, "closing")
      /\ Goto(j, "done")
      /\ panicked' = ~open
      /\ closed' = IF open THEN closed \cup {channel} ELSE closed
      /\ UNCHANGED <<signals, cache, waiter, histories, faults>>

(* GeneratedSpeech.                                                          *)

Move(w, pc) == waiter' = [waiter EXCEPT ![w].pc = pc]

\* Something of this id has been started or is cached when the caller asks.
Known(id) == cache[id] # "none" \/ \E j \in Started : job[j].id = id

\* A mistake: the signal is taken out of the map before it is waited for.
AskTakes(w, id) ==
  /\ ~panicked /\ waiter[w].pc = "idle"
  /\ waiter' = [waiter EXCEPT ![w] = [pc |-> IF signals[id] = None THEN "reading" ELSE "waiting",
                                      id |-> id, channel |-> signals[id], known |-> Known(id)]]
  /\ signals' = [signals EXCEPT ![id] = None]
  /\ UNCHANGED <<closed, job, cache, panicked, histories, faults>>

Ask(w, id) ==
  /\ ~panicked /\ waiter[w].pc = "idle"
  /\ waiter' = [waiter EXCEPT ![w] = [pc |-> IF signals[id] = None THEN "reading" ELSE "waiting",
                                      id |-> id, channel |-> signals[id], known |-> Known(id)]]
  /\ UNCHANGED <<signals, closed, job, cache, panicked, histories, faults>>

\* The caller's context is canceled.
Cancel(w) ==
  /\ ~panicked /\ waiter[w].pc = "waiting"
  /\ Move(w, "canceled")
  /\ UNCHANGED <<signals, closed, job, cache, panicked, histories, faults>>

\* The signal is closed; its entry is deleted, whatever channel it holds.
Wake(w) ==
  /\ ~panicked /\ waiter[w].pc = "waiting"
  /\ waiter[w].channel \in closed
  /\ signals' = [signals EXCEPT ![waiter[w].id] = None]
  /\ Move(w, "reading")
  /\ UNCHANGED <<closed, job, cache, panicked, histories, faults>>

\* GetBlob: the audio, or "requested speech has expired", or a storage error.
GetBlob(w) ==
  /\ ~panicked /\ waiter[w].pc = "reading"
  /\ \/ /\ Move(w, IF cache[waiter[w].id] = "none" THEN "expired" ELSE "speech")
        /\ UNCHANGED faults
     \/ Fault /\ Move(w, "error")
  /\ UNCHANGED <<signals, closed, job, cache, panicked, histories>>

\* Redis drops an entry whose time to live has run out.
Lapse(id) ==
  /\ ~panicked /\ cache[id] = "timed"
  /\ cache' = [cache EXCEPT ![id] = "none"]
  /\ lapsed' = lapsed \cup {id}
  /\ UNCHANGED <<signals, closed, job, waiter, panicked, failed, unlimited, faults>>

\* The server dies and another is started: goroutines and callers are gone, what is
\* in Redis stays, and what was stored but not yet given a time to live for good.
Crash ==
  LET running == {j \in Started : job[j].pc # "done"}
  IN  /\ ~panicked /\ Fault
      /\ signals' = [id \in SpeechId |-> None]
      /\ job' = [j \in Job |-> IF j \in running THEN [job[j] EXCEPT !.pc = "done"] ELSE job[j]]
      /\ waiter' = [w \in Waiter |-> IF waiter[w].pc \in {"waiting", "reading"}
                                      THEN [waiter[w] EXCEPT !.pc = "cut"] ELSE waiter[w]]
      /\ failed' = failed \cup {job[j].id : j \in running}
      /\ unlimited' = unlimited \cup {job[j].id : j \in {k \in running :
                                         job[k].pc \in {"expiring", "deleting"}}}
      /\ UNCHANGED <<closed, cache, panicked, lapsed>>

Init ==
  /\ signals = [id \in SpeechId |-> None]
  /\ closed = {}
  /\ job = [j \in Job |-> [id |-> None, pc |-> "unused"]]
  /\ cache = [id \in SpeechId |-> "none"]
  /\ waiter = [w \in Waiter |-> [pc |-> "idle", id |-> None, channel |-> None, known |-> FALSE]]
  /\ panicked = FALSE
  /\ failed = {} /\ lapsed = {} /\ unlimited = {} /\ faults = 0

Goroutine(j) ==
  \/ TextToSpeech(j) \/ TextToSpeechFails(j)
  \/ HSet(j) \/ HExpire(j) \/ HDel(j) \/ CloseSignal(j)

Next ==
  \/ \E id \in SpeechId : GenerateSpeech(id)
  \/ \E j \in Job : Goroutine(j)
  \/ \E w \in Waiter, id \in SpeechId : Ask(w, id)
  \/ \E w \in Waiter : Cancel(w) \/ Wake(w) \/ GetBlob(w)
  \/ \E id \in SpeechId : Lapse(id)
  \/ Crash

Spec == Init /\ [][Next]_vars

\* Goroutines run on, the service and Redis answer each request sooner or later
\* and a caller whose signal is closed is scheduled.
Fairness ==
  /\ \A j \in Job : WF_vars(Goroutine(j))
  /\ \A w \in Waiter : WF_vars(Wake(w)) /\ WF_vars(GetBlob(w))

FairSpec == Spec /\ Fairness

(* Properties.                                                               *)

Stages == {"unused", "asking", "storing", "expiring", "deleting", "closing", "done"}
Answers == {"speech", "expired", "error", "canceled", "cut"}

\* Every value has its kind; a channel belongs to a goroutine that was started,
\* and no channel is closed before its goroutine is done.
TypeOK ==
  /\ signals \in [SpeechId -> Started \cup {None}]
  /\ closed \subseteq {j \in Job : job[j].pc = "done"}
  /\ job \in [Job -> [id : SpeechId \cup {None}, pc : Stages]]
  /\ cache \in [SpeechId -> {"none", "forever", "timed"}]
  /\ waiter \in [Waiter -> [pc : Answers \cup {"idle", "waiting", "reading"},
                            id : SpeechId \cup {None}, channel : Started \cup {None},
                            known : BOOLEAN]]
  /\ panicked \in BOOLEAN
  /\ failed \subseteq SpeechId /\ lapsed \subseteq SpeechId /\ unlimited \subseteq SpeechId
  /\ faults \in 0..MaxFaults

\* No goroutine ends the server by closing a signal that is closed or gone,
\* however its close falls among the callers that delete signals.
NoPanic == ~panicked

\* A caller is told "requested speech has expired" of a speech that had been
\* started when it asked only if its time ran out, or if it was never made or kept:
\* the code gives the one answer for both.
ExpiredIsTrue ==
  \A w \in Waiter : waiter[w].pc = "expired" /\ waiter[w].known
                      => waiter[w].id \in failed \cup lapsed

\* "each entry has a limited lifetime": an entry is without a time to live only
\* while the goroutine that stored it is still in AddBlob.  There are two exceptions,
\* and the code has both: its expiration failed and so did the delete that makes up
\* for it, or the server died between the two commands.
LifetimesAreLimited ==
  \A id \in SpeechId : cache[id] = "forever" =>
    \/ \E j \in Job : job[j].id = id /\ job[j].pc \in {"expiring", "deleting"}
    \/ id \in unlimited

\* Whoever waits for a speech is answered, whether the generation succeeds, fails, or
\* cannot be cached, unless the server dies under it.
EveryoneIsAnswered ==
  \A w \in Waiter : waiter[w].pc \in {"waiting", "reading"} ~> waiter[w].pc \in Answers
=============================================================================

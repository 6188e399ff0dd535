---------------------------- MODULE SpeechProofs ----------------------------
(* Proofs about Speech, for any ids, callers, calls of GenerateSpeech,         *)
(* failing Redis commands and crashes, as long as no two lines share an id.    *)
EXTENDS Speech, TLAPS

Active == {j \in Job : job[j].pc \notin {"unused", "done"}}

Lost == failed \cup lapsed

(* An id is one goroutine's; while that runs, its signal is in the map.        *)
SignalsOwn ==
  /\ \A j \in Started : job[j].id \in SpeechId
  /\ \A j, k \in Started : job[j].id = job[k].id => j = k
  /\ \A id \in SpeechId : signals[id] # None => job[signals[id]].id = id
  /\ \A j \in Active : signals[job[j].id] = j

(* A caller waits for the signal of its id; one who reads what was started is  *)
(* late enough to find it done.                                                *)
WaitersOwn ==
  \A w \in Waiter :
    /\ waiter[w].pc \in {"waiting", "reading"} => waiter[w].id \in SpeechId
    /\ waiter[w].pc = "waiting" => /\ waiter[w].channel \in Started
                                   /\ job[waiter[w].channel].id = waiter[w].id
    /\ waiter[w].pc = "reading" /\ waiter[w].known
         => \E j \in Started : job[j].pc = "done" /\ job[j].id = waiter[w].id

(* What a goroutine that returns has made is cached, or known to be lost.      *)
CacheFollows ==
  /\ \A id \in SpeechId : cache[id] # "none" => \E j \in Started : job[j].id = id
  /\ \A j \in Started :
       /\ job[j].pc \in {"closing", "done"} => cache[job[j].id] # "none" \/ job[j].id \in Lost
       /\ job[j].pc = "expiring" => cache[job[j].id] = "forever"
       /\ job[j].pc = "deleting" => job[j].id \in failed

IInv == TypeOK /\ SignalsOwn /\ WaitersOwn /\ CacheFollows
        /\ NoPanic /\ ExpiredIsTrue /\ LifetimesAreLimited
-----------------------------------------------------------------------------
(* A step of a goroutine leaves its id, and every other goroutine, alone.      *)
LEMMA GotoMoves ==
  ASSUME TypeOK, NEW j \in Started, NEW pc \in Stages \ {"unused"}, Goto(j, pc)
  PROVE  /\ job' \in [Job -> [id : SpeechId \cup {None}, pc : Stages]]
         /\ Started' = Started
         /\ \A k \in Job : job'[k].id = job[k].id
         /\ \A k \in Job : job'[k].pc = IF k = j THEN pc ELSE job[k].pc
<1>1. /\ job \in [Job -> [id : SpeechId \cup {None}, pc : Stages]]
      /\ j \in Job /\ job[j].pc # "unused"
  BY DEF TypeOK, Started
<1>2. job' \in [Job -> [id : SpeechId \cup {None}, pc : Stages]]
  BY <1>1 DEF Goto, Stages
<1>3. \A k \in Job : job'[k].id = job[k].id
  BY <1>1 DEF Goto
<1>4. \A k \in Job : job'[k].pc = IF k = j THEN pc ELSE job[k].pc
  BY <1>1 DEF Goto
<1> QED BY <1>1, <1>2, <1>3, <1>4 DEF Started

WaiterOK == waiter \in [Waiter -> [pc : Answers \cup {"idle", "waiting", "reading"},
                                  id : SpeechId \cup {None}, channel : Started \cup {None},
                                  known : BOOLEAN]]

(* One caller moves on, and nothing else of any caller changes.                *)
MovesOnly(w, pc) ==
  /\ waiter'[w].pc = pc
  /\ \A v \in Waiter : /\ waiter'[v].id = waiter[v].id
                       /\ waiter'[v].channel = waiter[v].channel
                       /\ waiter'[v].known = waiter[v].known
                       /\ v # w => waiter'[v].pc = waiter[v].pc

(* A step of a caller leaves what it knows, and every other caller, alone.     *)
LEMMA MoveMoves ==
  ASSUME TypeOK, job' = job,
         NEW w \in Waiter, NEW pc \in Answers \cup {"reading"}, Move(w, pc)
  PROVE  WaiterOK' /\ MovesOnly(w, pc)
<1>1. WaiterOK
  BY DEF TypeOK, WaiterOK
<1>2. MovesOnly(w, pc)
  BY <1>1 DEF Move, MovesOnly, WaiterOK
<1>3. WaiterOK'
  BY <1>1 DEF Move, WaiterOK, Started
<1> QED BY <1>2, <1>3

(* A step of a goroutine that runs, up to its return, leaves the signals and    *)
(* the callers as they should be.                                              *)
LEMMA JobKeepsOwners ==
  ASSUME TypeOK, SignalsOwn, WaitersOwn,
         NEW j \in Active, NEW pc \in Stages \ {"unused"}, Goto(j, pc),
         signals' = signals, waiter' = waiter
  PROVE  SignalsOwn' /\ WaitersOwn'
<1>1. j \in Started /\ Active \subseteq Started
  BY DEF Active, Started
<1>2. /\ Started' = Started
      /\ \A k \in Job : job'[k].id = job[k].id
      /\ \A k \in Job : job'[k].pc = IF k = j THEN pc ELSE job[k].pc
  BY <1>1, GotoMoves
<1>3. Started \subseteq Job /\ Active' \subseteq Active
  BY <1>2 DEF Active, Started
<1>4. \A id \in SpeechId : signals[id] # None => signals[id] \in Started
  BY DEF TypeOK
<1>5. SignalsOwn'
  BY <1>1, <1>2, <1>3, <1>4 DEF SignalsOwn
<1>6. \A k \in Started : job[k].pc = "done" => job'[k].pc = "done"
  BY <1>2, <1>3 DEF Active
<1>7. WaitersOwn'
  <2> SUFFICES ASSUME NEW w \in Waiter
               PROVE  /\ waiter[w].pc \in {"waiting", "reading"} => waiter[w].id \in SpeechId
                      /\ waiter[w].pc = "waiting" =>
                           /\ waiter[w].channel \in Started
                           /\ job'[waiter[w].channel].id = waiter[w].id
                      /\ waiter[w].pc = "reading" /\ waiter[w].known =>
                           \E k \in Started : job'[k].pc = "done" /\ job'[k].id = waiter[w].id
    BY <1>2 DEF WaitersOwn
  <2> QED
    BY <1>2, <1>3, <1>6 DEF WaitersOwn
<1> QED BY <1>5, <1>7

(* The service's answer changes nothing but the goroutine.                     *)
LEMMA TextToSpeechKeeps ==
  ASSUME IInv, ~Reuse, NEW j \in Job, TextToSpeech(j)
  PROVE  IInv'
<1>1. j \in Active /\ j \in Started /\ job[j].id \in SpeechId
  BY DEF IInv, SignalsOwn, Active, Started, At, TextToSpeech
<1>2. /\ job' \in [Job -> [id : SpeechId \cup {None}, pc : Stages]]
      /\ Started' = Started
      /\ \A k \in Job : job'[k].id = job[k].id
      /\ \A k \in Job : job'[k].pc = IF k = j THEN "storing" ELSE job[k].pc
  BY <1>1, GotoMoves DEF IInv, TextToSpeech, Return, Stages
<1>3. SignalsOwn' /\ WaitersOwn'
  BY <1>1, JobKeepsOwners DEF IInv, TextToSpeech, Return, Stages
<1>4. TypeOK'
  BY <1>1, <1>2 DEF IInv, TypeOK, At, TextToSpeech, histories
<1>5. CacheFollows'
  <2>1. Lost' = Lost /\ cache' = cache /\ failed' = failed /\ Started \subseteq Job
    BY DEF Lost, TextToSpeech, histories, Started
  <2> QED
    BY <1>1, <1>2, <2>1 DEF IInv, CacheFollows
<1>6. NoPanic' /\ ExpiredIsTrue'
  BY <1>2 DEF IInv, TypeOK, NoPanic, ExpiredIsTrue, TextToSpeech, histories
<1>7. LifetimesAreLimited'
  BY <1>2 DEF IInv, TypeOK, LifetimesAreLimited, At, TextToSpeech, histories
<1> QED BY <1>3, <1>4, <1>5, <1>6, <1>7 DEF IInv

(* A failed request is a loss its callers may be told of.                      *)
LEMMA TextToSpeechFailsKeeps ==
  ASSUME IInv, ~Reuse, NEW j \in Job, TextToSpeechFails(j)
  PROVE  IInv'
<1>1. j \in Active /\ j \in Started /\ job[j].id \in SpeechId
  BY DEF IInv, SignalsOwn, Active, Started, At, TextToSpeechFails
<1>2. /\ job' \in [Job -> [id : SpeechId \cup {None}, pc : Stages]]
      /\ Started' = Started
      /\ \A k \in Job : job'[k].id = job[k].id
      /\ \A k \in Job : job'[k].pc = IF k = j THEN "closing" ELSE job[k].pc
  BY <1>1, GotoMoves DEF IInv, TextToSpeechFails, Return, Stages
<1>3. SignalsOwn' /\ WaitersOwn'
  BY <1>1, JobKeepsOwners DEF IInv, TextToSpeechFails, Return, Stages
<1>4. TypeOK'
  BY <1>1, <1>2 DEF IInv, TypeOK, At, TextToSpeechFails
<1>5. CacheFollows'
  BY <1>1, <1>2 DEF IInv, TypeOK, CacheFollows, Lost, Started, At, TextToSpeechFails
<1>6. NoPanic' /\ ExpiredIsTrue'
  BY <1>2 DEF IInv, TypeOK, NoPanic, ExpiredIsTrue, TextToSpeechFails
<1>7. LifetimesAreLimited'
  BY <1>2 DEF IInv, TypeOK, LifetimesAreLimited, At, TextToSpeechFails
<1> QED BY <1>3, <1>4, <1>5, <1>6, <1>7 DEF IInv

(* A delete follows only a failure: what it takes away is already lost.        *)
LEMMA HDelKeeps ==
  ASSUME IInv, ~Reuse, NEW j \in Job, HDel(j)
  PROVE  IInv'
<1>1. j \in Active /\ j \in Started /\ job[j].id \in SpeechId
  BY DEF IInv, SignalsOwn, Active, Started, At, HDel
<1>2. /\ job' \in [Job -> [id : SpeechId \cup {None}, pc : Stages]]
      /\ Started' = Started
      /\ \A k \in Job : job'[k].id = job[k].id
      /\ \A k \in Job : job'[k].pc = IF k = j THEN "closing" ELSE job[k].pc
  BY <1>1, GotoMoves DEF IInv, HDel, Return, Stages
<1>3. SignalsOwn' /\ WaitersOwn'
  BY <1>1, JobKeepsOwners DEF IInv, HDel, Return, Stages
<1>4. /\ job[j].id \in failed
      /\ cache' \in [SpeechId -> {"none", "forever", "timed"}]
      /\ \A id \in SpeechId \ {job[j].id} : cache'[id] = cache[id]
  BY <1>1 DEF IInv, TypeOK, CacheFollows, At, HDel
<1>5. /\ unlimited \subseteq unlimited' /\ unlimited' \subseteq SpeechId
      /\ \/ cache'[job[j].id] = "none"
         \/ cache' = cache /\ job[j].id \in unlimited'
  BY <1>1 DEF IInv, TypeOK, HDel
<1>6. TypeOK'
  BY <1>1, <1>2, <1>4, <1>5 DEF IInv, TypeOK, At, HDel
<1>7. CacheFollows'
  <2>1. \A id \in SpeechId : cache'[id] # "none" => cache[id] # "none"
    BY <1>4, <1>5
  <2>2. failed' = failed /\ Lost' = Lost
    BY DEF HDel, Lost
  <2>3. \A k \in Started : job[k].id \in SpeechId /\ (job[k].id = job[j].id => k = j)
    BY <1>1 DEF IInv, SignalsOwn
  <2>4. Started \subseteq Job
    BY DEF Started
  <2> QED
    BY <1>1, <1>2, <1>4, <2>1, <2>2, <2>3, <2>4 DEF IInv, CacheFollows, Lost
<1>8. NoPanic' /\ ExpiredIsTrue'
  BY DEF IInv, NoPanic, ExpiredIsTrue, HDel
<1>9. LifetimesAreLimited'
  <2> SUFFICES ASSUME NEW id \in SpeechId, cache'[id] = "forever", id \notin unlimited'
               PROVE  \E k \in Job : job'[k].id = id /\ job'[k].pc \in {"expiring", "deleting"}
    BY DEF LifetimesAreLimited
  <2>1. id # job[j].id /\ cache[id] = "forever" /\ id \notin unlimited
    BY <1>4, <1>5
  <2>2. PICK k \in Job : job[k].id = id /\ job[k].pc \in {"expiring", "deleting"}
    BY <2>1 DEF IInv, LifetimesAreLimited
  <2> QED
    BY <1>2, <2>1, <2>2
<1> QED BY <1>3, <1>6, <1>7, <1>8, <1>9 DEF IInv

(* What HSet stores has no time to live; the goroutine that stored it is in     *)
(* AddBlob.  Where it fails, the speech is lost.                                *)
LEMMA HSetKeeps ==
  ASSUME IInv, ~Reuse, NEW j \in Job, HSet(j)
  PROVE  IInv'
<1>1. j \in Active /\ j \in Started /\ job[j].id \in SpeechId
  BY DEF IInv, SignalsOwn, Active, Started, At, HSet
<1> DEFINE pc == job'[j].pc
<1>2. pc \in Stages \ {"unused"} /\ Goto(j, pc)
  BY DEF IInv, TypeOK, HSet, Goto, Return, Stages
<1>3. /\ job' \in [Job -> [id : SpeechId \cup {None}, pc : Stages]]
      /\ Started' = Started
      /\ \A k \in Job : job'[k].id = job[k].id
      /\ \A k \in Job : job'[k].pc = IF k = j THEN pc ELSE job[k].pc
  BY <1>1, <1>2, GotoMoves DEF IInv
<1>4. SignalsOwn' /\ WaitersOwn'
  BY <1>1, <1>2, JobKeepsOwners DEF IInv, HSet
<1>5. \/ /\ pc = "expiring" /\ cache' = [cache EXCEPT ![job[j].id] = "forever"]
         /\ failed' = failed /\ faults' = faults
      \/ /\ pc = "closing" /\ cache' = cache
         /\ failed' = failed \cup {job[j].id} /\ faults' = faults + 1 /\ faults < MaxFaults
  BY DEF IInv, TypeOK, HSet, Goto, Return, Fault, Stages
<1> HIDE DEF pc
<1>6. /\ cache' \in [SpeechId -> {"none", "forever", "timed"}]
      /\ \A id \in SpeechId \ {job[j].id} : cache'[id] = cache[id]
      /\ pc = "expiring" => cache'[job[j].id] = "forever"
      /\ pc = "closing" => cache' = cache /\ job[j].id \in failed'
      /\ pc \in {"expiring", "closing"}
      /\ failed \subseteq failed' /\ failed' \subseteq SpeechId
  BY <1>1, <1>5 DEF IInv, TypeOK
<1>7. faults' \in 0..MaxFaults
  BY <1>5, BoundsAreNat DEF IInv, TypeOK
<1>8. TypeOK'
  BY <1>1, <1>3, <1>6, <1>7 DEF IInv, TypeOK, At, HSet
<1>9. CacheFollows'
  <2>1. \A k \in Started : job[k].id \in SpeechId /\ (job[k].id = job[j].id => k = j)
    BY <1>1 DEF IInv, SignalsOwn
  <2>2. Started \subseteq Job /\ Lost \subseteq Lost'
    BY <1>6, <1>7 DEF Started, Lost, HSet, IInv, TypeOK
  <2>3. \A id \in SpeechId : cache'[id] # "none" => \E k \in Started : job'[k].id = id
    BY <1>1, <1>3, <1>6, <2>2 DEF IInv, CacheFollows
  <2>4. job[j].id \in failed' => job[j].id \in Lost'
    BY DEF Lost
  <2> QED
    BY <1>1, <1>3, <1>6, <2>1, <2>2, <2>3, <2>4 DEF IInv, CacheFollows
<1>10. NoPanic' /\ ExpiredIsTrue'
  BY <1>6 DEF IInv, NoPanic, ExpiredIsTrue, HSet
<1>11. LifetimesAreLimited'
  <2> SUFFICES ASSUME NEW id \in SpeechId, cache'[id] = "forever", id \notin unlimited'
               PROVE  \E k \in Job : job'[k].id = id /\ job'[k].pc \in {"expiring", "deleting"}
    BY DEF LifetimesAreLimited
  <2>1. CASE id = job[j].id /\ pc = "expiring"
    BY <1>3, <2>1
  <2>2. CASE id # job[j].id \/ pc = "closing"
    <3>1. cache[id] = "forever" /\ id \notin unlimited
      BY <1>6, <2>2 DEF HSet
    <3>2. PICK k \in Job : job[k].id = id /\ job[k].pc \in {"expiring", "deleting"}
      BY <3>1 DEF IInv, LifetimesAreLimited
    <3>3. k # j
      BY <3>2 DEF HSet, At
    <3> QED
      BY <1>3, <3>2, <3>3
  <2> QED BY <1>6, <2>1, <2>2
<1> QED BY <1>4, <1>8, <1>9, <1>10, <1>11 DEF IInv

(* HExpire gives the entry its time to live, or its goroutine goes on to delete *)
(* what cannot have one.                                                        *)
LEMMA HExpireKeeps ==
  ASSUME IInv, ~Reuse, NEW j \in Job, HExpire(j)
  PROVE  IInv'
<1>1. j \in Active /\ j \in Started /\ job[j].id \in SpeechId
  BY DEF IInv, SignalsOwn, Active, Started, At, HExpire
<1> DEFINE pc == job'[j].pc
<1>2. pc \in Stages \ {"unused"} /\ Goto(j, pc)
  BY DEF IInv, TypeOK, HExpire, Goto, Return, DeleteEntry, Stages
<1>3. /\ job' \in [Job -> [id : SpeechId \cup {None}, pc : Stages]]
      /\ Started' = Started
      /\ \A k \in Job : job'[k].id = job[k].id
      /\ \A k \in Job : job'[k].pc = IF k = j THEN pc ELSE job[k].pc
  BY <1>1, <1>2, GotoMoves DEF IInv
<1>4. SignalsOwn' /\ WaitersOwn'
  BY <1>1, <1>2, JobKeepsOwners DEF IInv, HExpire
<1>5. cache[job[j].id] = "forever"
  BY <1>1 DEF IInv, CacheFollows, HExpire, At
<1>6. \/ /\ pc = "closing" /\ cache' = [cache EXCEPT ![job[j].id] = "timed"]
         /\ failed' = failed /\ faults' = faults
      \/ /\ pc = "deleting" /\ cache' = cache
         /\ failed' = failed \cup {job[j].id} /\ faults' = faults + 1 /\ faults < MaxFaults
  BY <1>5 DEF IInv, TypeOK, HExpire, Goto, Return, DeleteEntry, Fault, Stages
<1> HIDE DEF pc
<1>7. /\ cache' \in [SpeechId -> {"none", "forever", "timed"}]
      /\ \A id \in SpeechId \ {job[j].id} : cache'[id] = cache[id]
      /\ pc = "closing" => cache'[job[j].id] = "timed"
      /\ pc = "deleting" => cache' = cache /\ job[j].id \in failed'
      /\ pc \in {"deleting", "closing"}
      /\ failed \subseteq failed' /\ failed' \subseteq SpeechId
  BY <1>1, <1>6 DEF IInv, TypeOK
<1>8. faults' \in 0..MaxFaults
  BY <1>6, BoundsAreNat DEF IInv, TypeOK
<1>9. TypeOK'
  BY <1>1, <1>3, <1>7, <1>8 DEF IInv, TypeOK, At, HExpire
<1>10. CacheFollows'
  <2>1. \A k \in Started : job[k].id \in SpeechId /\ (job[k].id = job[j].id => k = j)
    BY <1>1 DEF IInv, SignalsOwn
  <2>2. Started \subseteq Job /\ Lost \subseteq Lost'
    BY <1>7, <1>8 DEF Started, Lost, HExpire, IInv, TypeOK
  <2>3. \A id \in SpeechId : cache'[id] # "none" => \E k \in Started : job'[k].id = id
    BY <1>1, <1>3, <1>7, <2>2 DEF IInv, CacheFollows
  <2> QED
    BY <1>1, <1>3, <1>7, <1>8, <2>1, <2>2, <2>3 DEF IInv, CacheFollows
<1>11. NoPanic' /\ ExpiredIsTrue'
  BY <1>7 DEF IInv, NoPanic, ExpiredIsTrue, HExpire
<1>12. LifetimesAreLimited'
  <2> SUFFICES ASSUME NEW id \in SpeechId, cache'[id] = "forever", id \notin unlimited'
               PROVE  \E k \in Job : job'[k].id = id /\ job'[k].pc \in {"expiring", "deleting"}
    BY DEF LifetimesAreLimited
  <2>1. CASE id = job[j].id
    BY <1>3, <1>7, <2>1
  <2>2. CASE id # job[j].id
    <3>1. cache[id] = "forever" /\ id \notin unlimited
      BY <1>7, <2>2 DEF HExpire
    <3>2. PICK k \in Job : job[k].id = id /\ job[k].pc \in {"expiring", "deleting"}
      BY <3>1 DEF IInv, LifetimesAreLimited
    <3> QED
      BY <1>3, <2>2, <3>2
  <2> QED BY <2>1, <2>2
<1> QED BY <1>4, <1>9, <1>10, <1>11, <1>12 DEF IInv

(* A close finds the goroutine's own signal, open: whatever else has touched    *)
(* the map, no one replaces or deletes the signal of a goroutine that runs.     *)
LEMMA CloseSignalKeeps ==
  ASSUME IInv, ~Reuse, NEW j \in Job, CloseSignal(j)
  PROVE  IInv'
<1>1. j \in Active /\ j \in Started /\ job[j].id \in SpeechId
  BY DEF IInv, SignalsOwn, Active, Started, At, CloseSignal
<1>2. /\ job' \in [Job -> [id : SpeechId \cup {None}, pc : Stages]]
      /\ Started' = Started
      /\ \A k \in Job : job'[k].id = job[k].id
      /\ \A k \in Job : job'[k].pc = IF k = j THEN "done" ELSE job[k].pc
  BY <1>1, GotoMoves DEF IInv, CloseSignal, Stages
<1>3. SignalsOwn' /\ WaitersOwn'
  BY <1>1, JobKeepsOwners DEF IInv, CloseSignal, Stages
<1>4. signals[job[j].id] = j /\ j # None /\ j \notin closed
  BY <1>1, NoneIsNone DEF IInv, TypeOK, SignalsOwn, Active, Job
<1>5. panicked' = FALSE /\ closed' = closed \cup {j}
  BY <1>4 DEF CloseSignal
<1>6. TypeOK'
  BY <1>1, <1>2, <1>5 DEF IInv, TypeOK, CloseSignal, histories
<1>7. CacheFollows'
  BY <1>1, <1>2 DEF IInv, CacheFollows, Lost, Started, At, CloseSignal, histories
<1>8. NoPanic' /\ ExpiredIsTrue'
  BY <1>5 DEF IInv, NoPanic, ExpiredIsTrue, CloseSignal, histories
<1>9. LifetimesAreLimited'
  BY <1>2 DEF IInv, LifetimesAreLimited, At, CloseSignal, histories
<1> QED BY <1>3, <1>6, <1>7, <1>8, <1>9 DEF IInv

(* A new goroutine has an id that no other has, and the id's signal.            *)
LEMMA GenerateSpeechKeeps ==
  ASSUME IInv, ~Reuse, NEW id \in SpeechId, GenerateSpeech(id)
  PROVE  IInv'
<1> PICK j \in Job \ Started :
      /\ \A k \in Started : job[k].id # id
      /\ signals' = [signals EXCEPT ![id] = j]
      /\ job' = [job EXCEPT ![j] = [id |-> id, pc |-> "asking"]]
      /\ UNCHANGED <<closed, cache, waiter, panicked, histories, faults>>
  BY DEF GenerateSpeech
<1>1. /\ job' \in [Job -> [id : SpeechId \cup {None}, pc : Stages]]
      /\ Started' = Started \cup {j}
      /\ job'[j] = [id |-> id, pc |-> "asking"]
      /\ \A k \in Job \ {j} : job'[k] = job[k]
  BY DEF IInv, TypeOK, Started, Stages
<1>2. TypeOK'
  BY <1>1 DEF IInv, TypeOK, Started, histories
<1>3. SignalsOwn'
  BY <1>1 DEF IInv, TypeOK, SignalsOwn, Active, Started, Stages
<1>4. WaitersOwn'
  BY <1>1 DEF IInv, WaitersOwn, Started
<1>5. CacheFollows'
  BY <1>1 DEF IInv, CacheFollows, Lost, Started, histories
<1>6. NoPanic' /\ ExpiredIsTrue'
  BY DEF IInv, NoPanic, ExpiredIsTrue, histories
<1>7. LifetimesAreLimited'
  BY <1>1 DEF IInv, LifetimesAreLimited, Started, histories
<1> QED BY <1>2, <1>3, <1>4, <1>5, <1>6, <1>7 DEF IInv

(* A caller who asks finds the signal of a goroutine that runs; if there is no  *)
(* signal, what was started is done.                                            *)
LEMMA AskKeeps ==
  ASSUME IInv, ~Reuse, NEW w \in Waiter, NEW id \in SpeechId, Ask(w, id)
  PROVE  IInv'
<1> DEFINE asked == [pc |-> IF signals[id] = None THEN "reading" ELSE "waiting",
                     id |-> id, channel |-> signals[id], known |-> Known(id)]
<1>1. asked \in [pc : Answers \cup {"idle", "waiting", "reading"},
                 id : SpeechId \cup {None}, channel : Started \cup {None}, known : BOOLEAN]
  BY DEF IInv, TypeOK, Known
<1>2. /\ waiter' = [waiter EXCEPT ![w] = asked]
      /\ UNCHANGED <<signals, closed, job, cache, panicked, failed, lapsed, unlimited, faults>>
  BY DEF Ask, histories
<1>3. /\ asked.pc = IF signals[id] = None THEN "reading" ELSE "waiting"
      /\ asked.id = id /\ asked.channel = signals[id] /\ (asked.known <=> Known(id))
  OBVIOUS
<1> HIDE DEF asked
<1>4. TypeOK'
  BY <1>1, <1>2 DEF IInv, TypeOK, Started
<1>5. /\ waiter'[w] = asked
      /\ \A v \in Waiter \ {w} : waiter'[v] = waiter[v]
  BY <1>2 DEF IInv, TypeOK
<1>6. SignalsOwn' /\ CacheFollows' /\ NoPanic' /\ LifetimesAreLimited'
  BY <1>2 DEF IInv, SignalsOwn, CacheFollows, NoPanic, LifetimesAreLimited, Active, Started, Lost
<1>7. Known(id) => \E j \in Started : job[j].id = id
  BY DEF IInv, CacheFollows, Known
<1>8. signals[id] = None /\ Known(id) => \E j \in Started : job[j].pc = "done" /\ job[j].id = id
  <2> SUFFICES ASSUME signals[id] = None, Known(id)
               PROVE  \E j \in Started : job[j].pc = "done" /\ job[j].id = id
    OBVIOUS
  <2>1. PICK j \in Started : job[j].id = id
    BY <1>7
  <2>2. j # None
    BY NoneIsNone DEF Started, Job
  <2> QED
    BY <2>1, <2>2 DEF IInv, SignalsOwn, Active, Started
<1>9. signals[id] # None => signals[id] \in Started /\ job[signals[id]].id = id
  BY DEF IInv, TypeOK, SignalsOwn
<1>10. WaitersOwn'
  BY <1>2, <1>3, <1>5, <1>8, <1>9 DEF IInv, WaitersOwn, Started
<1>11. ExpiredIsTrue'
  BY <1>2, <1>3, <1>5 DEF IInv, ExpiredIsTrue
<1> QED BY <1>4, <1>6, <1>10, <1>11 DEF IInv

(* A caller who gives up waits for nothing.                                     *)
LEMMA CancelKeeps ==
  ASSUME IInv, ~Reuse, NEW w \in Waiter, Cancel(w)
  PROVE  IInv'
<1>1. Move(w, "canceled") /\ job' = job
  BY DEF Cancel
<1>2. WaiterOK' /\ MovesOnly(w, "canceled")
  BY <1>1, MoveMoves DEF IInv, Answers
<1>3. UNCHANGED <<signals, closed, job, cache, panicked, failed, lapsed, unlimited, faults>>
  BY DEF Cancel, histories
<1>4. TypeOK'
  BY <1>2, <1>3 DEF IInv, TypeOK, WaiterOK, Started
<1>5. SignalsOwn' /\ CacheFollows' /\ NoPanic' /\ LifetimesAreLimited'
  BY <1>3 DEF IInv, SignalsOwn, CacheFollows, NoPanic, LifetimesAreLimited, Active, Started, Lost
<1>6. WaitersOwn'
  BY <1>1, <1>2, <1>3 DEF IInv, WaitersOwn, MovesOnly, Started
<1>7. ExpiredIsTrue'
  BY <1>1, <1>2, <1>3 DEF IInv, ExpiredIsTrue, MovesOnly
<1> QED BY <1>4, <1>5, <1>6, <1>7 DEF IInv

(* A caller wakes when its goroutine is done; the signal that it deletes is that *)
(* goroutine's, since the id is no other's.                                      *)
LEMMA WakeKeeps ==
  ASSUME IInv, ~Reuse, NEW w \in Waiter, Wake(w)
  PROVE  IInv'
<1> DEFINE c == waiter[w].channel
           id == waiter[w].id
<1>1. /\ id \in SpeechId /\ c \in Started /\ job[c].id = id /\ job[c].pc = "done"
  BY DEF IInv, TypeOK, WaitersOwn, Wake
<1>2. Move(w, "reading") /\ job' = job
  BY DEF Wake
<1>3. WaiterOK' /\ MovesOnly(w, "reading")
  BY <1>2, MoveMoves DEF IInv
<1>4. /\ signals' = [signals EXCEPT ![id] = None]
      /\ UNCHANGED <<closed, job, cache, panicked, failed, lapsed, unlimited, faults>>
  BY DEF Wake, histories
<1> HIDE DEF c, id
<1>5. TypeOK'
  BY <1>1, <1>3, <1>4 DEF IInv, TypeOK, WaiterOK, Started
<1>6. \A j \in Active : job[j].id # id
  BY <1>1 DEF IInv, SignalsOwn, Active, Started
<1>7. SignalsOwn'
  BY <1>1, <1>4, <1>6 DEF IInv, TypeOK, SignalsOwn, Active, Started
<1>8. CacheFollows' /\ NoPanic' /\ LifetimesAreLimited'
  BY <1>4 DEF IInv, CacheFollows, NoPanic, LifetimesAreLimited, Started, Lost
<1>9. WaitersOwn'
  BY <1>1, <1>2, <1>3, <1>4 DEF IInv, WaitersOwn, MovesOnly, Started, id
<1>10. ExpiredIsTrue'
  BY <1>2, <1>3, <1>4 DEF IInv, ExpiredIsTrue, MovesOnly
<1> QED BY <1>5, <1>7, <1>8, <1>9, <1>10 DEF IInv

(* A caller who finds nothing reads after the goroutine is done, so that the     *)
(* speech is lost.                                                               *)
LEMMA GetBlobKeeps ==
  ASSUME IInv, ~Reuse, NEW w \in Waiter, GetBlob(w)
  PROVE  IInv'
<1> DEFINE pc == waiter'[w].pc
<1>1. /\ Move(w, pc) /\ job' = job /\ pc \in {"expired", "speech", "error"}
      /\ pc = "expired" => cache[waiter[w].id] = "none"
  BY DEF IInv, TypeOK, GetBlob, Move
<1>2. WaiterOK' /\ MovesOnly(w, pc)
  BY <1>1, MoveMoves DEF IInv, Answers
<1>3. UNCHANGED <<signals, closed, job, cache, panicked, failed, lapsed, unlimited>>
  BY DEF GetBlob, histories
<1>4. faults' \in 0..MaxFaults
  BY BoundsAreNat DEF IInv, TypeOK, GetBlob, Fault
<1>5. TypeOK'
  BY <1>2, <1>3, <1>4 DEF IInv, TypeOK, WaiterOK, Started
<1>6. SignalsOwn' /\ NoPanic'
  BY <1>3 DEF IInv, SignalsOwn, NoPanic, Active, Started
<1>7. CacheFollows'
  BY <1>3, <1>4 DEF IInv, TypeOK, CacheFollows, Started, Lost
<1>8. LifetimesAreLimited'
  BY <1>3, <1>4 DEF IInv, TypeOK, LifetimesAreLimited
<1>9. WaitersOwn'
  BY <1>1, <1>2, <1>3 DEF IInv, WaitersOwn, MovesOnly, Started
<1>10. pc = "expired" /\ waiter[w].known => waiter[w].id \in failed \cup lapsed
  BY <1>1 DEF IInv, WaitersOwn, CacheFollows, Lost, GetBlob
<1>11. ExpiredIsTrue'
  BY <1>2, <1>3, <1>10 DEF IInv, ExpiredIsTrue, MovesOnly
<1> QED BY <1>5, <1>6, <1>7, <1>8, <1>9, <1>11 DEF IInv

(* An entry that lapses had its time to live; its speech is lost from now on.    *)
LEMMA LapseKeeps ==
  ASSUME IInv, ~Reuse, NEW id \in SpeechId, Lapse(id)
  PROVE  IInv'
<1>1. /\ cache[id] = "timed" /\ cache' = [cache EXCEPT ![id] = "none"]
      /\ lapsed' = lapsed \cup {id}
      /\ UNCHANGED <<signals, closed, job, waiter, panicked, failed, unlimited, faults>>
  BY DEF Lapse
<1>2. TypeOK'
  BY <1>1 DEF IInv, TypeOK, Started
<1>3. SignalsOwn' /\ WaitersOwn' /\ NoPanic' /\ ExpiredIsTrue'
  BY <1>1 DEF IInv, SignalsOwn, WaitersOwn, NoPanic, ExpiredIsTrue, Active, Started
<1>4. CacheFollows'
  BY <1>1 DEF IInv, TypeOK, SignalsOwn, CacheFollows, Lost, Started
<1>5. LifetimesAreLimited'
  BY <1>1 DEF IInv, TypeOK, LifetimesAreLimited
<1> QED BY <1>2, <1>3, <1>4, <1>5 DEF IInv

(* A crash ends every goroutine.  What it had not finished is lost, and what it  *)
(* had stored without a time to live is recorded as such.                        *)
LEMMA CrashKeeps ==
  ASSUME IInv, Crash
  PROVE  IInv'
<1> DEFINE running == {j \in Started : job[j].pc # "done"}
<1>1. /\ signals' = [id \in SpeechId |-> None]
      /\ job' = [j \in Job |-> IF j \in running THEN [job[j] EXCEPT !.pc = "done"] ELSE job[j]]
      /\ waiter' = [w \in Waiter |-> IF waiter[w].pc \in {"waiting", "reading"}
                                      THEN [waiter[w] EXCEPT !.pc = "cut"] ELSE waiter[w]]
      /\ failed' = failed \cup {job[j].id : j \in running}
      /\ unlimited' = unlimited \cup {job[j].id : j \in {k \in running :
                                         job[k].pc \in {"expiring", "deleting"}}}
      /\ UNCHANGED <<closed, cache, panicked, lapsed>>
  BY DEF Crash
<1>2. running \subseteq Started /\ Started \subseteq Job
  BY DEF Started
<1>3. /\ job' \in [Job -> [id : SpeechId \cup {None}, pc : Stages]]
      /\ \A k \in Job : job'[k].id = job[k].id
      /\ \A k \in Job : job'[k].pc = IF k \in running THEN "done" ELSE job[k].pc
  BY <1>1, <1>2 DEF IInv, TypeOK, Stages
<1>4. Started' = Started /\ \A k \in Started : job'[k].pc = "done"
  BY <1>3 DEF Started
<1>5. /\ \A w \in Waiter : /\ waiter'[w].id = waiter[w].id
                           /\ waiter'[w].known = waiter[w].known
                           /\ waiter'[w].pc # "waiting" /\ waiter'[w].pc # "reading"
                           /\ waiter'[w].pc = "expired" => waiter[w].pc = "expired"
      /\ WaiterOK'
  <2>1. WaiterOK
    BY DEF IInv, TypeOK, WaiterOK
  <2>2. \A w \in Waiter : /\ waiter'[w].id = waiter[w].id
                          /\ waiter'[w].known = waiter[w].known
                          /\ waiter'[w].pc # "waiting" /\ waiter'[w].pc # "reading"
                          /\ waiter'[w].pc = "expired" => waiter[w].pc = "expired"
    BY <1>1, <2>1 DEF WaiterOK
  <2>3. waiter' \in [Waiter -> [pc : Answers \cup {"idle", "waiting", "reading"},
                               id : SpeechId \cup {None}, channel : Started \cup {None},
                               known : BOOLEAN]]
    BY <1>1, <2>1 DEF WaiterOK, Answers
  <2> QED
    BY <1>4, <2>2, <2>3 DEF WaiterOK
<1>6. \A j \in Started : job[j].id \in SpeechId
  BY DEF IInv, SignalsOwn
<1>7. failed' \subseteq SpeechId /\ unlimited' \subseteq SpeechId
  BY <1>1, <1>2, <1>6 DEF IInv, TypeOK
<1>8. faults' \in 0..MaxFaults
  BY BoundsAreNat DEF IInv, TypeOK, Crash, Fault
<1>9. closed \subseteq {j \in Job : job'[j].pc = "done"}
  BY <1>3 DEF IInv, TypeOK
<1>10. TypeOK'
  BY <1>1, <1>3, <1>5, <1>7, <1>8, <1>9 DEF IInv, TypeOK, WaiterOK
<1>11. SignalsOwn'
  BY <1>1, <1>3, <1>4 DEF IInv, SignalsOwn, Active, Started
<1>12. WaitersOwn'
  BY <1>5 DEF WaitersOwn
<1>13. \A j \in Started : j \in running => job[j].id \in failed'
  BY <1>1
<1>14. \A j \in running : job[j].pc \in {"expiring", "deleting"} => job[j].id \in unlimited'
  BY <1>1
<1>15. failed \subseteq failed' /\ unlimited \subseteq unlimited'
  BY <1>1
<1>16. \A j \in Job : job[j].pc \in {"expiring", "deleting"} => j \in running
  BY DEF Started
<1>17. \A j \in Started : j \notin running => job[j].pc = "done"
  OBVIOUS
<1> HIDE DEF running
<1>18. CacheFollows'
  BY <1>1, <1>2, <1>3, <1>4, <1>13, <1>15, <1>17 DEF IInv, CacheFollows, Lost
<1>19. NoPanic' /\ ExpiredIsTrue'
  BY <1>1, <1>5, <1>15 DEF IInv, NoPanic, ExpiredIsTrue
<1>20. LifetimesAreLimited'
  BY <1>1, <1>14, <1>15, <1>16 DEF IInv, LifetimesAreLimited
<1> QED BY <1>10, <1>11, <1>12, <1>18, <1>19, <1>20 DEF IInv

-----------------------------------------------------------------------------
(* At the start nothing has been asked for.                                      *)
LEMMA InitEstablishes == Init => IInv
<1> SUFFICES ASSUME Init PROVE IInv
  OBVIOUS
<1>1. Started = {} /\ Active = {}
  BY DEF Init, Started, Active
<1>2. TypeOK
  <2>1. job \in [Job -> [id : SpeechId \cup {None}, pc : Stages]]
    BY DEF Init, Stages
  <2>2. waiter \in [Waiter -> [pc : Answers \cup {"idle", "waiting", "reading"},
                              id : SpeechId \cup {None}, channel : Started \cup {None},
                              known : BOOLEAN]]
    BY DEF Init
  <2>3. signals \in [SpeechId -> Started \cup {None}]
    BY DEF Init
  <2>4. /\ cache \in [SpeechId -> {"none", "forever", "timed"}]
        /\ closed = {} /\ failed = {} /\ lapsed = {} /\ unlimited = {}
    BY DEF Init
  <2>5. panicked \in BOOLEAN
    BY DEF Init
  <2>6. faults \in 0..MaxFaults
    BY BoundsAreNat DEF Init
  <2> QED
    BY <2>1, <2>2, <2>3, <2>4, <2>5, <2>6 DEF TypeOK
<1>3. SignalsOwn /\ WaitersOwn /\ CacheFollows
  BY <1>1 DEF Init, SignalsOwn, WaitersOwn, CacheFollows
<1>4. NoPanic /\ ExpiredIsTrue /\ LifetimesAreLimited
  BY DEF Init, NoPanic, ExpiredIsTrue, LifetimesAreLimited
<1> QED BY <1>2, <1>3, <1>4 DEF IInv

(* Every step keeps the invariant, if ids are not used again.                    *)
LEMMA StepKeeps ==
  ASSUME IInv, ~Reuse, [Next]_vars
  PROVE  IInv'
<1>1. CASE UNCHANGED vars
  BY <1>1 DEF vars, histories, IInv, TypeOK, SignalsOwn, WaitersOwn, CacheFollows, Lost,
              NoPanic, ExpiredIsTrue, LifetimesAreLimited, Active, Started
<1>2. ASSUME NEW id \in SpeechId, GenerateSpeech(id) PROVE IInv'
  BY <1>2, GenerateSpeechKeeps
<1>3. ASSUME NEW j \in Job, Goroutine(j) PROVE IInv'
  BY <1>3, TextToSpeechKeeps, TextToSpeechFailsKeeps, HSetKeeps, HExpireKeeps, HDelKeeps,
     CloseSignalKeeps DEF Goroutine
<1>4. ASSUME NEW w \in Waiter, NEW id \in SpeechId, Ask(w, id) PROVE IInv'
  BY <1>4, AskKeeps
<1>5. ASSUME NEW w \in Waiter, Cancel(w) \/ Wake(w) \/ GetBlob(w) PROVE IInv'
  BY <1>5, CancelKeeps, WakeKeeps, GetBlobKeeps
<1>6. ASSUME NEW id \in SpeechId, Lapse(id) PROVE IInv'
  BY <1>6, LapseKeeps
<1>7. CASE Crash
  BY <1>7, CrashKeeps
<1> QED BY <1>1, <1>2, <1>3, <1>4, <1>5, <1>6, <1>7 DEF Next

(* The invariant holds throughout, if ids are not used again.                    *)
LEMMA Invariance ==
  ASSUME ~Reuse
  PROVE  Spec => []IInv
<1>1. IInv /\ [Next]_vars => IInv'
  BY StepKeeps
<1> QED BY <1>1, InitEstablishes, PTL DEF Spec

(* Values keep their kinds, and no signal is closed before its goroutine is      *)
(* done (speech/resemble_manager.go, GenerateSpeech).                            *)
THEOREM TypeCorrect ==
  ASSUME ~Reuse
  PROVE  Spec => []TypeOK
<1>1. IInv => TypeOK
  BY DEF IInv
<1> QED BY <1>1, Invariance, PTL

(* The deferred close never ends the server, for any number of lines and         *)
(* callers: GenerateSpeech closes the signal it made.                            *)
THEOREM NoPanicEver ==
  ASSUME ~Reuse
  PROVE  Spec => []NoPanic
<1>1. IInv => NoPanic
  BY DEF IInv
<1> QED BY <1>1, Invariance, PTL

(* GeneratedSpeech says that a speech has expired only if it was never made or   *)
(* kept or its time ran out, whatever other callers do with its signal.          *)
THEOREM ExpiredIsTrueHolds ==
  ASSUME ~Reuse
  PROVE  Spec => []ExpiredIsTrue
<1>1. IInv => ExpiredIsTrue
  BY DEF IInv
<1> QED BY <1>1, Invariance, PTL

(* AddBlob leaves no entry without a time to live, unless the expiration of that *)
(* entry failed and its delete as well, or the server died between the two       *)
(* commands (platform/expiring_cache.go).                                        *)
THEOREM LifetimesAreLimitedHolds ==
  ASSUME ~Reuse
  PROVE  Spec => []LifetimesAreLimited
<1>1. IInv => LifetimesAreLimited
  BY DEF IInv
<1> QED BY <1>1, Invariance, PTL
=============================================================================

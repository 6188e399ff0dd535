---------------------------- MODULE AccountsProofs ----------------------------
(***************************************************************************)
(* Proofs about Accounts, for any requests, ids, names and clients, any    *)
(* commands that fail and any crashes.                                     *)
(***************************************************************************)
EXTENDS Accounts, TLAPS

-----------------------------------------------------------------------------
(* Types *)

Making == {"saveProfile", "mapEmail", "cleanEmail", "cleanProfile"}

Creating == {"saveConv", "link", "cleanConv"}

Removing == {"getConv", "unlink", "deleteConv"}

(* What a request has found out when it gets to a place.                   *)
CallTyped(c) ==
    /\ c.pc = "idle" => c = Idle
    /\ c.pc \notin {"idle", "active"} => c.prof \in Profile
    /\ c.pc \in Making => c.op = "launch"
    /\ c.op = "launch" => c.email \in Email /\ c.client \in Client
    /\ c.pc \in Creating => c.op \in {"launch", "post"} /\ c.conv \in Conv /\ c.name \in Name
    /\ c.pc = "post" => c.op = "post" /\ c.name \in Name
    /\ c.pc = "delete" => c.op = "delete" /\ c.name \in Name
    /\ c.pc \in Removing => c.op \in {"delete", "deleteUser"} /\ c.conv \in Conv
    /\ c.pc \in {"unlink", "deleteConv"} => c.name \in Name
    /\ c.pc \in {"deleteUser", "list", "next"} => c.op = "deleteUser"
    /\ c.pc = "patch" => c.op = "patch"
    /\ c.op \in {"deleteUser", "patch"} => c.email \in Email
    /\ c.pc = "authenticate" => c.op = "relaunch" /\ c.client \in Client
    /\ c.pc = "observe" => c.op \in {"launch", "relaunch"} /\ c.client \in Client
    /\ c.pc = "active" => c.op = "shutdown" /\ c.client \in Client /\ c.seen \in Profile
    /\ c.todo # {} => c.op = "deleteUser"

CallsTyped == \A r \in Request : CallTyped(call[r])

Types == TypeOK /\ CallsTyped

LEMMA IdleTyped == Idle \in CallRecord /\ CallTyped(Idle) /\ Idle.pc = "idle"
BY NoneIsNothing DEF Idle, CallRecord, CallTyped, Place, Operation, Fields, Unchanged, Field, Making, Creating, Removing

(* A step moves one request.                                               *)
LEMMA CallMoves ==
    ASSUME Types, NEW r \in Request, NEW c \in CallRecord, CallTyped(c), call' = [call EXCEPT ![r] = c]
    PROVE  call' \in [Request -> CallRecord] /\ CallsTyped'
BY DEF Types, TypeOK, CallsTyped

LEMMA FaultTyped ==
    ASSUME failed \in SUBSET Faults, NEW kind, Fault(kind)
    PROVE  failed' \in SUBSET Faults
BY DEF Fault

LEMMA HistoryTyped ==
    ASSUME TypeOK, NEW r, Begin(r)
    PROVE  /\ history' \in [patched : [Profile -> Fields], deleted : SUBSET Profile,
                            launched : [Client -> Profile \cup {None}]]
           /\ overlap' \in BOOLEAN
<1>1. overlap' \in BOOLEAN
  BY DEF Begin, TypeOK
<1>2. NoHistory \in [patched : [Profile -> Fields], deleted : SUBSET Profile,
                     launched : [Client -> Profile \cup {None}]]
  BY DEF NoHistory, Fields, Unchanged
<1> QED BY <1>1, <1>2 DEF Begin, TypeOK

(* A request that has been answered, or has moved on. *)
LEMMA AnswerTyped ==
    ASSUME Types, NEW r \in Request, Answer(r)
    PROVE  call' \in [Request -> CallRecord] /\ CallsTyped'
BY IdleTyped, CallMoves DEF Answer

LEMMA PlaceMoves ==
    ASSUME NEW c \in CallRecord, NEW pc \in Place
    PROVE  [c EXCEPT !.pc = pc] \in CallRecord
BY DEF CallRecord

LEMMA GoToTyped ==
    ASSUME Types, NEW r \in Request, NEW pc \in Place, GoTo(r, pc),
           CallTyped([call[r] EXCEPT !.pc = pc])
    PROVE  call' \in [Request -> CallRecord] /\ CallsTyped'
<1>1. [call[r] EXCEPT !.pc = pc] \in CallRecord
  BY PlaceMoves DEF Types, TypeOK
<1>2. call' = [call EXCEPT ![r] = [call[r] EXCEPT !.pc = pc]]
  BY DEF GoTo, Types, TypeOK
<1> QED BY <1>1, <1>2, CallMoves

(* A request that is started. *)
Start(r) ==
    \/ \E k \in Client :
         \/ \E e \in Email : Launch(r, e, k)
         \/ \E p \in Profile : Relaunch(r, p, k)
         \/ ReadActivity(r, k)
    \/ \E p \in Profile :
         \/ \E n \in Name, op \in {"post", "delete"} : Authenticate(r, op, p, n)
         \/ \E op \in {"deleteUser", "patch"} : Authenticate(r, op, p, None)

LEMMA StartTyped ==
    ASSUME Types, NEW r \in Request, Start(r)
    PROVE  call' \in [Request -> CallRecord] /\ CallsTyped'
<1>1. ASSUME NEW e \in Email, NEW k \in Client, Launch(r, e, k)
      PROVE  call' \in [Request -> CallRecord] /\ CallsTyped'
  <2>1. PICK p \in fresh \cap Profile :
          call' = [call EXCEPT ![r] = [Idle EXCEPT !.pc = "saveProfile", !.op = "launch",
                                                   !.email = e, !.prof = p, !.client = k]]
    BY <1>1 DEF Launch
  <2> DEFINE c == [Idle EXCEPT !.pc = "saveProfile", !.op = "launch", !.email = e,
                               !.prof = p, !.client = k]
  <2>2. c \in CallRecord /\ CallTyped(c)
    BY NoneIsNothing DEF Idle, CallRecord, CallTyped, Place, Operation, Fields, Unchanged, Field,
       Making, Creating, Removing
  <2> HIDE DEF c
  <2> QED BY <2>1, <2>2, CallMoves DEF c
<1>2. ASSUME NEW p \in Profile, NEW k \in Client, Relaunch(r, p, k)
      PROVE  call' \in [Request -> CallRecord] /\ CallsTyped'
  <2> DEFINE c == [Idle EXCEPT !.pc = "authenticate", !.op = "relaunch", !.prof = p, !.client = k]
  <2>1. c \in CallRecord /\ CallTyped(c)
    BY NoneIsNothing DEF Idle, CallRecord, CallTyped, Place, Operation, Fields, Unchanged, Field,
       Making, Creating, Removing
  <2>2. call' = [call EXCEPT ![r] = c]
    BY <1>2 DEF Relaunch
  <2> HIDE DEF c
  <2> QED BY <2>1, <2>2, CallMoves
<1>3. ASSUME NEW k \in Client, ReadActivity(r, k)
      PROVE  call' \in [Request -> CallRecord] /\ CallsTyped'
  <2> DEFINE c == [Idle EXCEPT !.pc = "active", !.op = "shutdown", !.client = k,
                               !.seen = activity[k]]
  <2>1. activity[k] \in Profile
    BY <1>3 DEF ReadActivity, Types, TypeOK
  <2>2. c \in CallRecord /\ CallTyped(c)
    BY <2>1, NoneIsNothing DEF Idle, CallRecord, CallTyped, Place, Operation, Fields, Unchanged,
       Field, Making, Creating, Removing
  <2>3. call' = [call EXCEPT ![r] = c]
    BY <1>3 DEF ReadActivity
  <2> HIDE DEF c
  <2> QED BY <2>2, <2>3, CallMoves
<1>4. ASSUME NEW p \in Profile, NEW n \in Name \cup {None},
             NEW op \in {"post", "delete", "deleteUser", "patch"},
             op \in {"post", "delete"} => n \in Name, Authenticate(r, op, p, n)
      PROVE  call' \in [Request -> CallRecord] /\ CallsTyped'
  <2> DEFINE fs == IF op = "patch" THEN profile[p].fields ELSE Unchanged
             c == [Idle EXCEPT !.pc = op, !.op = op, !.prof = p, !.name = n,
                               !.email = profile[p].email, !.fields = fs]
  <2>1. profile[p] \in ProfileRecord
    BY <1>4 DEF Authenticate, CanAuthenticate, Types, TypeOK
  <2>2. profile[p].email \in Email /\ fs \in Fields
    BY <2>1 DEF ProfileRecord, Fields, Unchanged
  <2>3. call' = [call EXCEPT ![r] = c]
    BY <1>4 DEF Authenticate
  <2> HIDE DEF fs
  <2>4. c \in CallRecord /\ CallTyped(c)
    BY <1>4, <2>2, NoneIsNothing DEF Idle, CallRecord, CallTyped, Place, Operation,
       Making, Creating, Removing
  <2> HIDE DEF c
  <2> QED BY <2>3, <2>4, CallMoves
<1> QED BY <1>1, <1>2, <1>3, <1>4 DEF Start

LEMMA CreateTyped ==
    ASSUME Types, NEW r \in Request, Create(r)
    PROVE  call' \in [Request -> CallRecord] /\ CallsTyped'
<1> DEFINE c == call[r]
<1>0. c \in CallRecord /\ CallTyped(c)
  BY DEF Types, TypeOK, CallsTyped
<1>1. CASE SaveProfile(r)
  <2>1. CASE GoTo(r, "mapEmail")
    <3>1. CallTyped([c EXCEPT !.pc = "mapEmail"])
      BY <1>0, <1>1, <2>1 DEF SaveProfile, CallRecord, CallTyped, Place, Making, Creating, Removing
    <3> QED BY <2>1, <3>1, GoToTyped DEF Place
  <2> QED BY <1>1, <2>1, AnswerTyped DEF SaveProfile
<1>2. CASE SetEmailProfile(r)
  <2>1. CASE GoTo(r, "cleanEmail")
    <3>1. CallTyped([c EXCEPT !.pc = "cleanEmail"])
      BY <1>0, <1>2, <2>1 DEF SetEmailProfile, CallRecord, CallTyped, Place, Making, Creating, Removing
    <3> QED BY <2>1, <3>1, GoToTyped DEF Place
  <2>2. ASSUME NEW v \in fresh \cap Conv,
               call' = [call EXCEPT ![r].pc = "saveConv", ![r].conv = v, ![r].name = FirstName]
        PROVE  call' \in [Request -> CallRecord] /\ CallsTyped'
    <3> DEFINE d == [c EXCEPT !.pc = "saveConv", !.conv = v, !.name = FirstName]
    <3>1. call' = [call EXCEPT ![r] = d]
      BY <2>2 DEF Types, TypeOK
    <3>2. d \in CallRecord
      BY <1>0, FirstNameIsName DEF CallRecord, Place
    <3>3. CallTyped(d)
      BY <1>0, <1>2, FirstNameIsName DEF SetEmailProfile, CallRecord, CallTyped, Place, Making, Creating, Removing
    <3> HIDE DEF d
    <3> QED BY <3>1, <3>2, <3>3, CallMoves
  <2> QED BY <1>2, <2>1, <2>2 DEF SetEmailProfile
<1>3. CASE CleanEmail(r)
  <2>1. CallTyped([c EXCEPT !.pc = "cleanProfile"])
    BY <1>0, <1>3 DEF CleanEmail, CallRecord, CallTyped, Place, Making, Creating, Removing
  <2> QED BY <1>3, <2>1, GoToTyped DEF Place, CleanEmail
<1>4. CASE CleanProfile(r)
  BY <1>4, AnswerTyped DEF CleanProfile
<1>5. CASE LookupName(r)
  <2>1. ASSUME NEW v \in fresh \cap Conv,
               call' = [call EXCEPT ![r].pc = "saveConv", ![r].conv = v]
        PROVE  call' \in [Request -> CallRecord] /\ CallsTyped'
    <3> DEFINE d == [c EXCEPT !.pc = "saveConv", !.conv = v]
    <3>1. call' = [call EXCEPT ![r] = d]
      BY <2>1 DEF Types, TypeOK
    <3>2. d \in CallRecord
      BY <1>0, FirstNameIsName DEF CallRecord, Place
    <3>3. CallTyped(d)
      BY <1>0, <1>5 DEF LookupName, CallRecord, CallTyped, Place, Making, Creating, Removing
    <3> HIDE DEF d
    <3> QED BY <3>1, <3>2, <3>3, CallMoves
  <2> QED BY <1>5, <2>1, AnswerTyped DEF LookupName
<1>6. ASSUME NotCreated(r), c.pc \in Creating
      PROVE  call' \in [Request -> CallRecord] /\ CallsTyped'
  <2>1. CASE c.op = "launch" /\ GoTo(r, "cleanEmail")
    <3>1. CallTyped([c EXCEPT !.pc = "cleanEmail"])
      BY <1>0, <1>6, <2>1 DEF CallRecord, CallTyped, Place, Making, Creating, Removing
    <3> QED BY <2>1, <3>1, GoToTyped DEF Place
  <2> QED BY <1>6, <2>1, AnswerTyped DEF NotCreated
<1>7. CASE SaveConversation(r)
  <2>1. CASE GoTo(r, "link")
    <3>1. CallTyped([c EXCEPT !.pc = "link"])
      BY <1>0, <1>7, <2>1 DEF SaveConversation, CallRecord, CallTyped, Place, Making, Creating, Removing
    <3> QED BY <2>1, <3>1, GoToTyped DEF Place
  <2> QED BY <1>7, <1>6, <2>1 DEF SaveConversation, Creating
<1>8. CASE AddOwnedConversation(r)
  <2>1. CASE c.op = "launch" /\ GoTo(r, "observe")
    <3>1. CallTyped([c EXCEPT !.pc = "observe"])
      BY <1>0, <1>8, <2>1 DEF AddOwnedConversation, CallRecord, CallTyped, Place, Making, Creating, Removing
    <3> QED BY <2>1, <3>1, GoToTyped DEF Place
  <2>2. CASE GoTo(r, "cleanConv")
    <3>1. CallTyped([c EXCEPT !.pc = "cleanConv"])
      BY <1>0, <1>8, <2>2 DEF AddOwnedConversation, CallRecord, CallTyped, Place, Making, Creating, Removing
    <3> QED BY <2>2, <3>1, GoToTyped DEF Place
  <2> QED BY <1>8, <2>1, <2>2, AnswerTyped DEF AddOwnedConversation
<1>9. CASE CleanConversation(r)
  BY <1>6, <1>9 DEF CleanConversation, Creating
<1> QED BY <1>1, <1>2, <1>3, <1>4, <1>5, <1>7, <1>8, <1>9 DEF Create

LEMMA DeleteTyped ==
    ASSUME Types, NEW r \in Request, Delete(r)
    PROVE  call' \in [Request -> CallRecord] /\ CallsTyped'
<1> DEFINE c == call[r]
<1>0. c \in CallRecord /\ CallTyped(c)
  BY DEF Types, TypeOK, CallsTyped
<1>1. ASSUME NEW pc \in {"next", "deleteConv", "list"}, Failed(r, pc),
             pc = "deleteConv" => c.pc = "unlink",
             c.op \in {"delete", "deleteUser"}, c.prof \in Profile
      PROVE  call' \in [Request -> CallRecord] /\ CallsTyped'
  <2>1. CASE c.op = "deleteUser" /\ call' = [call EXCEPT ![r].pc = pc, ![r].errs = TRUE]
    <3> DEFINE d == [c EXCEPT !.pc = pc, !.errs = TRUE]
    <3>1. call' = [call EXCEPT ![r] = d]
      BY <2>1 DEF Types, TypeOK
    <3>2. d \in CallRecord
      BY <1>0, FirstNameIsName DEF CallRecord, Place
    <3>3. CallTyped(d)
      BY <1>0, <1>1, <2>1 DEF CallRecord, CallTyped, Place, Making, Creating, Removing
    <3> HIDE DEF d
    <3> QED BY <3>1, <3>2, <3>3, CallMoves
  <2> QED BY <1>1, <2>1, AnswerTyped DEF Failed
<1>2. CASE FindConversation(r)
  <2>1. ASSUME NEW v \in Conv, call' = [call EXCEPT ![r].pc = "getConv", ![r].conv = v]
        PROVE  call' \in [Request -> CallRecord] /\ CallsTyped'
    <3> DEFINE d == [c EXCEPT !.pc = "getConv", !.conv = v]
    <3>1. call' = [call EXCEPT ![r] = d]
      BY <2>1 DEF Types, TypeOK
    <3>2. d \in CallRecord
      BY <1>0, FirstNameIsName DEF CallRecord, Place
    <3>3. CallTyped(d)
      BY <1>0, <1>2 DEF FindConversation, CallRecord, CallTyped, Place, Making, Creating, Removing
    <3> HIDE DEF d
    <3> QED BY <3>1, <3>2, <3>3, CallMoves
  <2>2. owned[c.prof][c.name] \in Conv \cup {None}
    BY <1>0, <1>2 DEF FindConversation, CallTyped, Types, TypeOK
  <2> QED BY <1>2, <2>1, <2>2, AnswerTyped DEF FindConversation
<1>3. CASE GetConversation(r)
  <2>1. c.conv \in Conv /\ c.op \in {"delete", "deleteUser"} /\ c.prof \in Profile
    BY <1>0, <1>3 DEF GetConversation, CallTyped, Removing
  <2>2. ASSUME NEW n \in Name, call' = [call EXCEPT ![r].pc = "unlink", ![r].name = n]
        PROVE  call' \in [Request -> CallRecord] /\ CallsTyped'
    <3> DEFINE d == [c EXCEPT !.pc = "unlink", !.name = n]
    <3>1. call' = [call EXCEPT ![r] = d]
      BY <2>2 DEF Types, TypeOK
    <3>2. d \in CallRecord
      BY <1>0, FirstNameIsName DEF CallRecord, Place
    <3>3. CallTyped(d)
      BY <1>0, <1>3 DEF GetConversation, CallRecord, CallTyped, Place, Making, Creating, Removing
    <3> HIDE DEF d
    <3> QED BY <3>1, <3>2, <3>3, CallMoves
  <2>3. conv[c.conv] # None => conv[c.conv].name \in Name
    BY <2>1 DEF Types, TypeOK, ConvRecord
  <2> QED BY <1>3, <1>1, <2>1, <2>2, <2>3 DEF GetConversation
<1>4. CASE RemoveOwnedConversation(r)
  <2>1. c.pc = "unlink" /\ c.op \in {"delete", "deleteUser"} /\ c.prof \in Profile
    BY <1>0, <1>4 DEF RemoveOwnedConversation, CallTyped, Removing
  <2>2. CASE GoTo(r, "deleteConv")
    <3>1. CallTyped([c EXCEPT !.pc = "deleteConv"])
      BY <1>0, <1>4, <2>2 DEF RemoveOwnedConversation, CallRecord, CallTyped, Place, Making, Creating, Removing
    <3> QED BY <2>2, <3>1, GoToTyped DEF Place
  <2> QED BY <1>4, <1>1, <2>1, <2>2 DEF RemoveOwnedConversation
<1>5. CASE DeleteConversation(r)
  <2>1. c.op \in {"delete", "deleteUser"} /\ c.prof \in Profile
    BY <1>0, <1>5 DEF DeleteConversation, CallTyped, Removing
  <2>2. CASE c.op = "deleteUser" /\ GoTo(r, "next")
    <3>1. CallTyped([c EXCEPT !.pc = "next"])
      BY <1>0, <1>5, <2>2 DEF DeleteConversation, CallRecord, CallTyped, Place, Making, Creating, Removing
    <3> QED BY <2>2, <3>1, GoToTyped DEF Place
  <2> QED BY <1>5, <1>1, <2>1, <2>2, AnswerTyped DEF DeleteConversation, Deleted
<1>6. CASE RemoveEmailProfile(r)
  <2>1. c.op = "deleteUser" /\ c.prof \in Profile
    BY <1>0, <1>6 DEF RemoveEmailProfile, CallTyped
  <2>2. CASE GoTo(r, "list")
    <3>1. CallTyped([c EXCEPT !.pc = "list"])
      BY <1>0, <1>6, <2>2 DEF RemoveEmailProfile, CallRecord, CallTyped, Place, Making, Creating, Removing
    <3> QED BY <2>2, <3>1, GoToTyped DEF Place
  <2> QED BY <1>6, <1>1, <2>1, <2>2 DEF RemoveEmailProfile
<1>7. CASE ListOwned(r)
  <2>1. c.op = "deleteUser" /\ c.prof \in Profile
    BY <1>0, <1>7 DEF ListOwned, CallTyped
  <2>2. GetMapAll(owned[c.prof]) \in SUBSET Conv
    BY <2>1 DEF GetMapAll, Types, TypeOK
  <2>3. ASSUME NEW s \in SUBSET Conv, call' = [call EXCEPT ![r].pc = "next", ![r].todo = s]
        PROVE  call' \in [Request -> CallRecord] /\ CallsTyped'
    <3> DEFINE d == [c EXCEPT !.pc = "next", !.todo = s]
    <3>1. call' = [call EXCEPT ![r] = d]
      BY <2>3 DEF Types, TypeOK
    <3>2. d \in CallRecord
      BY <1>0, FirstNameIsName DEF CallRecord, Place
    <3>3. CallTyped(d)
      BY <1>0, <1>7, <2>1 DEF ListOwned, CallRecord, CallTyped, Place, Making, Creating, Removing
    <3> HIDE DEF d
    <3> QED BY <3>1, <3>2, <3>3, CallMoves
  <2> QED BY <1>7, <1>1, <2>1, <2>2, <2>3 DEF ListOwned
<1>8. CASE NextConversation(r)
  <2>1. PICK v \in c.todo :
          call' = [call EXCEPT ![r].pc = "getConv", ![r].conv = v, ![r].todo = @ \ {v}]
    BY <1>8 DEF NextConversation
  <2>2. v \in Conv /\ c.todo \ {v} \in SUBSET Conv
    BY <1>0 DEF CallRecord
  <2> DEFINE d == [c EXCEPT !.pc = "getConv", !.conv = v, !.todo = c.todo \ {v}]
  <2>3. call' = [call EXCEPT ![r] = d]
    BY <2>1, <1>0 DEF Types, TypeOK, CallRecord
  <2>4. d \in CallRecord
    BY <1>0, <2>2, FirstNameIsName DEF CallRecord, Place
  <2>5. CallTyped(d)
    BY <1>0, <1>8, <2>2 DEF NextConversation, CallRecord, CallTyped, Place, Making, Creating, Removing
  <2> HIDE DEF d
  <2> QED BY <2>3, <2>4, <2>5, CallMoves
<1>9. CASE DeleteProfile(r)
  BY <1>9, AnswerTyped DEF DeleteProfile
<1> QED BY <1>2, <1>3, <1>4, <1>5, <1>6, <1>7, <1>8, <1>9 DEF Delete

LEMMA OthersTyped ==
    ASSUME Types, NEW r \in Request,
           Observe(r) \/ Crash(r) \/ \E f \in Field : PatchProfile(r, f)
    PROVE  call' \in [Request -> CallRecord] /\ CallsTyped'
<1> DEFINE c == call[r]
<1>1. c \in CallRecord /\ CallTyped(c)
  BY DEF Types, TypeOK, CallsTyped
<1>2. CASE AuthenticateLaunch(r)
  <2>1. CASE GoTo(r, "observe")
    <3>1. CallTyped([c EXCEPT !.pc = "observe"])
      BY <1>1, <1>2, <2>1 DEF AuthenticateLaunch, CallRecord, CallTyped, Place, Making, Creating, Removing
    <3> QED BY <2>1, <3>1, GoToTyped DEF Place
  <2> QED BY <1>2, <2>1, AnswerTyped DEF AuthenticateLaunch
<1> QED BY <1>2, AnswerTyped DEF Observe, ObserveClientLaunch, SaveActivity, Crash, PatchProfile

(* The rest of the state, step by step.                                    *)
StoreOK ==
    /\ profile \in [Profile -> ProfileRecord \cup {None}]
    /\ emails \in [Email -> Profile \cup {None}]
    /\ conv \in [Conv -> ConvRecord \cup {None}]
    /\ owned \in [Profile -> [Name -> Conv \cup {None}]]
    /\ activity \in [Client -> Profile \cup {None}]
    /\ users \in SUBSET Profile
    /\ fresh \in SUBSET (Profile \cup Conv)
    /\ history \in [patched : [Profile -> Fields], deleted : SUBSET Profile,
                    launched : [Client -> Profile \cup {None}]]
    /\ overlap \in BOOLEAN
    /\ failed \in SUBSET Faults

LEMMA StartStores ==
    ASSUME Types, NEW r \in Request, Start(r)
    PROVE  StoreOK'
<1>1. Begin(r)
  BY DEF Start, Launch, Relaunch, ReadActivity, Authenticate
<1>2. UNCHANGED storage /\ UNCHANGED users /\ fresh' \subseteq fresh
  BY DEF Start, Launch, Relaunch, ReadActivity, Authenticate, ids
<1>3. UNCHANGED failed \/ Fault("command")
  BY DEF Start, Launch, Relaunch, ReadActivity, Authenticate
<1> QED BY <1>1, <1>2, <1>3, FaultTyped, HistoryTyped DEF StoreOK, Types, TypeOK, storage

LEMMA CreateStores ==
    ASSUME Types, NEW r \in Request, Create(r)
    PROVE  StoreOK'
<1> DEFINE c == call[r]
<1>0. c \in CallRecord /\ CallTyped(c) /\ StoreOK
  BY DEF Types, TypeOK, CallsTyped, StoreOK
<1>1. CASE SaveProfile(r)
  <2>1. c.email \in Email /\ c.prof \in Profile
    BY <1>0, <1>1 DEF SaveProfile, CallTyped, Making
  <2>2. [email |-> c.email, fields |-> Unchanged, usable |-> TRUE] \in ProfileRecord
    BY <2>1 DEF ProfileRecord, Fields, Unchanged
  <2> QED BY <1>0, <1>1, <2>1, <2>2, FaultTyped DEF SaveProfile, StoreOK, StoreObject, ids
<1>2. CASE SetEmailProfile(r)
  <2>1. c.email \in Email /\ c.prof \in Profile
    BY <1>0, <1>2 DEF SetEmailProfile, CallTyped, Making
  <2> QED BY <1>0, <1>2, <2>1, FaultTyped DEF SetEmailProfile, StoreOK, SetMapValue
<1>3. CASE CleanEmail(r)
  <2>1. c.email \in Email /\ c.prof \in Profile
    BY <1>0, <1>3 DEF CleanEmail, CallTyped, Making
  <2> QED BY <1>0, <1>3, <2>1, FaultTyped DEF CleanEmail, StoreOK, MapRemoveKey, ids
<1>4. CASE CleanProfile(r)
  BY <1>0, <1>4, FaultTyped DEF CleanProfile, StoreOK, DeleteStorage, ids
<1>5. CASE LookupName(r)
  BY <1>0, <1>5, FaultTyped DEF LookupName, StoreOK, storage
<1>6. CASE SaveConversation(r)
  <2>1. c.conv \in Conv /\ c.prof \in Profile /\ c.name \in Name
    BY <1>0, <1>6 DEF SaveConversation, CallTyped, Creating
  <2>2. [owner |-> c.prof, name |-> c.name] \in ConvRecord
    BY <2>1 DEF ConvRecord
  <2> QED BY <1>0, <1>6, <2>1, <2>2, FaultTyped DEF SaveConversation, StoreOK, StoreObject, ids
<1>7. CASE AddOwnedConversation(r)
  <2>1. c.conv \in Conv /\ c.prof \in Profile /\ c.name \in Name
    BY <1>0, <1>7 DEF AddOwnedConversation, CallTyped, Creating
  <2>2. SetMapValue(owned[c.prof], c.name, c.conv) \in [Name -> Conv \cup {None}]
    BY <1>0, <2>1 DEF StoreOK, SetMapValue
  <2>3. owned' \in [Profile -> [Name -> Conv \cup {None}]]
    BY <1>0, <1>7, <2>1, <2>2 DEF AddOwnedConversation, StoreOK
  <2> QED BY <1>0, <1>7, <2>3, FaultTyped DEF AddOwnedConversation, StoreOK, ids
<1>8. CASE CleanConversation(r)
  BY <1>0, <1>8, FaultTyped DEF CleanConversation, StoreOK, DeleteStorage, ids
<1> QED BY <1>1, <1>2, <1>3, <1>4, <1>5, <1>6, <1>7, <1>8 DEF Create

LEMMA DeleteStores ==
    ASSUME Types, NEW r \in Request, Delete(r)
    PROVE  StoreOK'
<1> DEFINE c == call[r]
<1>0. c \in CallRecord /\ CallTyped(c) /\ StoreOK
  BY DEF Types, TypeOK, CallsTyped, StoreOK
<1>1. CASE FindConversation(r)
  BY <1>0, <1>1, FaultTyped DEF FindConversation, StoreOK, storage, ids
<1>2. CASE GetConversation(r)
  BY <1>0, <1>2, FaultTyped DEF GetConversation, StoreOK, storage, ids
<1>3. CASE RemoveOwnedConversation(r)
  <2>1. c.prof \in Profile /\ c.name \in Name
    BY <1>0, <1>3 DEF RemoveOwnedConversation, CallTyped
  <2>2. MapRemoveKey(owned[c.prof], c.name) \in [Name -> Conv \cup {None}]
    BY <1>0, <2>1 DEF StoreOK, MapRemoveKey
  <2>3. owned' \in [Profile -> [Name -> Conv \cup {None}]]
    BY <1>0, <1>3, <2>1, <2>2 DEF RemoveOwnedConversation, StoreOK
  <2> QED BY <1>0, <1>3, <2>3, FaultTyped DEF RemoveOwnedConversation, StoreOK, ids
<1>4. CASE DeleteConversation(r)
  BY <1>0, <1>4, FaultTyped DEF DeleteConversation, StoreOK, DeleteStorage, ids
<1>5. CASE RemoveEmailProfile(r)
  BY <1>0, <1>5, FaultTyped DEF RemoveEmailProfile, StoreOK, MapRemoveKey, ids
<1>6. CASE ListOwned(r)
  BY <1>0, <1>6, FaultTyped DEF ListOwned, StoreOK, storage, ids
<1>7. CASE NextConversation(r)
  BY <1>0, <1>7, FaultTyped DEF NextConversation, StoreOK, storage, ids
<1>8. CASE DeleteProfile(r)
  <2>1. c.prof \in Profile
    BY <1>0, <1>8 DEF DeleteProfile, CallTyped
  <2>2. [history EXCEPT !.deleted = @ \cup {c.prof}]
           \in [patched : [Profile -> Fields], deleted : SUBSET Profile,
                launched : [Client -> Profile \cup {None}]]
    BY <1>0, <2>1 DEF StoreOK
  <2>3. history' \in [patched : [Profile -> Fields], deleted : SUBSET Profile,
                      launched : [Client -> Profile \cup {None}]]
    BY <1>0, <1>8, <2>2 DEF DeleteProfile, Note, StoreOK
  <2> QED BY <1>0, <1>8, <2>3, FaultTyped DEF DeleteProfile, StoreOK, DeleteStorage, ids
<1> QED BY <1>1, <1>2, <1>3, <1>4, <1>5, <1>6, <1>7, <1>8 DEF Delete

LEMMA ObserveStores ==
    ASSUME Types, NEW r \in Request, Observe(r) \/ Crash(r)
    PROVE  StoreOK'
<1> DEFINE c == call[r]
<1>0. c \in CallRecord /\ CallTyped(c) /\ StoreOK
  BY DEF Types, TypeOK, CallsTyped, StoreOK
<1>1. CASE AuthenticateLaunch(r)
  BY <1>0, <1>1 DEF AuthenticateLaunch, StoreOK, storage, ids
<1>2. CASE ObserveClientLaunch(r)
  <2>1. c.prof \in Profile /\ c.client \in Client
    BY <1>0, <1>2 DEF ObserveClientLaunch, CallTyped
  <2>2. [history EXCEPT !.launched[c.client] = c.prof]
           \in [patched : [Profile -> Fields], deleted : SUBSET Profile,
                launched : [Client -> Profile \cup {None}]]
    BY <1>0, <2>1 DEF StoreOK
  <2>3. history' \in [patched : [Profile -> Fields], deleted : SUBSET Profile,
                      launched : [Client -> Profile \cup {None}]]
    BY <1>0, <1>2, <2>2 DEF ObserveClientLaunch, Note, StoreOK
  <2>4. activity' \in [Client -> Profile \cup {None}] /\ users' \in SUBSET Profile
    BY <1>0, <1>2, <2>1 DEF ObserveClientLaunch, StoreObject, StoreOK
  <2> QED BY <1>0, <1>2, <2>3, <2>4, FaultTyped DEF ObserveClientLaunch, StoreOK
<1>3. CASE SaveActivity(r)
  <2>1. c.seen \in Profile /\ c.client \in Client
    BY <1>0, <1>3 DEF SaveActivity, CallTyped
  <2> QED BY <1>0, <1>3, <2>1, FaultTyped DEF SaveActivity, StoreObject, StoreOK, ids
<1>4. CASE Crash(r)
  BY <1>0, <1>4, FaultTyped DEF Crash, StoreOK, storage, ids
<1> QED BY <1>1, <1>2, <1>3, <1>4 DEF Observe

LEMMA PatchStores ==
    ASSUME Types, NEW r \in Request, NEW f \in Field, PatchProfile(r, f)
    PROVE  StoreOK'
<1> DEFINE c == call[r]
<1>0. c \in CallRecord /\ CallTyped(c) /\ StoreOK
  BY DEF Types, TypeOK, CallsTyped, StoreOK
<1>1. c.prof \in Profile /\ c.email \in Email /\ c.fields \in Fields
  BY <1>0 DEF PatchProfile, CallTyped, CallRecord
<1>2. ASSUME NEW ok \in BOOLEAN PROVE Patched(c, f, ok) \in ProfileRecord
  BY <1>1 DEF Patched, ProfileRecord, Fields
<1>3. profile' \in [Profile -> ProfileRecord \cup {None}]
  BY <1>0, <1>1, <1>2 DEF PatchProfile, StoreObject, StoreOK
<1>4. [history EXCEPT !.patched[c.prof][f] = TRUE]
         \in [patched : [Profile -> Fields], deleted : SUBSET Profile,
              launched : [Client -> Profile \cup {None}]]
  <2>1. [history.patched[c.prof] EXCEPT ![f] = TRUE] \in Fields
    BY <1>0, <1>1 DEF StoreOK, Fields
  <2>2. [history.patched EXCEPT ![c.prof] = [history.patched[c.prof] EXCEPT ![f] = TRUE]]
           \in [Profile -> Fields]
    BY <1>0, <1>1, <2>1 DEF StoreOK
  <2> QED BY <1>0, <1>1, <2>2 DEF StoreOK
<1>5. history' \in [patched : [Profile -> Fields], deleted : SUBSET Profile,
                    launched : [Client -> Profile \cup {None}]]
  BY <1>0, <1>4 DEF PatchProfile, Note, StoreOK
<1> QED BY <1>0, <1>3, <1>5, FaultTyped DEF PatchProfile, StoreOK, ids

(* The steps of a request. *)
Work(r) == Create(r) \/ Delete(r) \/ Observe(r) \/ Crash(r) \/ \E f \in Field : PatchProfile(r, f)

LEMMA NextSteps == Next => \E r \in Request : Start(r) \/ Work(r)
BY DEF Next, Start, Work

LEMMA TypesInit == Init => Types
<1> SUFFICES ASSUME Init PROVE Types
  OBVIOUS
<1>1. NoHistory \in [patched : [Profile -> Fields], deleted : SUBSET Profile,
                     launched : [Client -> Profile \cup {None}]]
  BY DEF NoHistory, Fields, Unchanged
<1>2. call \in [Request -> CallRecord] /\ CallsTyped
  BY IdleTyped DEF Init, CallsTyped
<1> QED BY <1>1, <1>2 DEF Types, TypeOK, Init

LEMMA TypesStep == Types /\ [Next]_vars => Types'
<1> SUFFICES ASSUME Types, [Next]_vars PROVE Types'
  OBVIOUS
<1>1. CASE UNCHANGED vars
  BY <1>1 DEF Types, TypeOK, CallsTyped, vars, storage, ids
<1>2. ASSUME NEW r \in Request, Start(r) \/ Work(r)
      PROVE  Types'
  <2>1. call' \in [Request -> CallRecord] /\ CallsTyped'
    BY <1>2, StartTyped, CreateTyped, DeleteTyped, OthersTyped DEF Work
  <2>2. StoreOK'
    BY <1>2, StartStores, CreateStores, DeleteStores, ObserveStores, PatchStores DEF Work
  <2> QED BY <2>1, <2>2 DEF Types, TypeOK, StoreOK
<1> QED BY <1>1, <1>2, NextSteps

(* Every variable keeps the shape the code gives it.                       *)
THEOREM TypeCorrect == Spec => []TypeOK
<1>1. Types => TypeOK
  BY DEF Types
<1> QED BY <1>1, TypesInit, TypesStep, PTL DEF Spec
-----------------------------------------------------------------------------
(* What a working request can have changed *)

(* A request keeps to what it was about.                                   *)
Carries(r) ==
    /\ call[r].pc # "idle"
    /\ \A s \in Request \ {r} : call'[s] = call[s]
    /\ \/ call'[r] = Idle
       \/ /\ call'[r].pc # "idle"
          /\ call'[r].op = call[r].op
          /\ call'[r].prof = call[r].prof
          /\ call'[r].email = call[r].email
          /\ call'[r].client = call[r].client
          /\ call'[r].fields = call[r].fields
          /\ call'[r].seen = call[r].seen

LEMMA WorkCarries ==
    ASSUME Types, NEW r \in Request, Work(r)
    PROVE  Carries(r)
<1> DEFINE c == call[r]
<1>0. c \in CallRecord /\ CallTyped(c) /\ call \in [Request -> CallRecord] /\ StoreOK
  BY DEF Types, TypeOK, CallsTyped, StoreOK
<1>1. CASE SaveProfile(r)
  BY <1>0, <1>1 DEF SaveProfile, Answer, GoTo, StoreObject, ids, Carries, CallRecord
<1>2. CASE SetEmailProfile(r)
  <2>1. CASE GoTo(r, "cleanEmail")
    BY <1>0, <1>2, <2>1 DEF SetEmailProfile, GoTo, Carries, CallRecord
  <2>2. ASSUME NEW v \in fresh \cap Conv,
               call' = [call EXCEPT ![r].pc = "saveConv", ![r].conv = v, ![r].name = FirstName]
        PROVE  Carries(r)
    <3>1. c.pc # "idle"
      BY <1>2 DEF SetEmailProfile
    <3> QED BY <1>0, <2>2, <3>1 DEF Carries, CallRecord
  <2> QED BY <1>2, <2>1, <2>2 DEF SetEmailProfile
<1>3. CASE CleanEmail(r)
  BY <1>0, <1>3 DEF CleanEmail, GoTo, MapRemoveKey, ids, Carries, CallRecord
<1>4. CASE CleanProfile(r)
  BY <1>0, <1>4 DEF CleanProfile, Answer, DeleteStorage, ids, Carries, CallRecord
<1>5. CASE LookupName(r)
  BY <1>0, <1>5 DEF LookupName, Answer, storage, Carries, CallRecord
<1>6. CASE SaveConversation(r)
  BY <1>0, <1>6 DEF SaveConversation, GoTo, Answer, NotCreated, StoreObject, ids, Carries, CallRecord
<1>7. CASE AddOwnedConversation(r)
  BY <1>0, <1>7 DEF AddOwnedConversation, GoTo, Answer, SetMapValue, ids, Carries, CallRecord
<1>8. CASE CleanConversation(r)
  BY <1>0, <1>8 DEF CleanConversation, GoTo, Answer, NotCreated, DeleteStorage, ids, Carries, CallRecord
<1>9. CASE FindConversation(r)
  BY <1>0, <1>9 DEF FindConversation, Answer, storage, ids, Carries, CallRecord
<1>10. CASE GetConversation(r)
  BY <1>0, <1>10 DEF GetConversation, Failed, Answer, storage, ids, Carries, CallRecord
<1>11. CASE RemoveOwnedConversation(r)
  BY <1>0, <1>11 DEF RemoveOwnedConversation, GoTo, Failed, Answer, MapRemoveKey, ids, Carries, CallRecord
<1>12. CASE DeleteConversation(r)
  BY <1>0, <1>12 DEF DeleteConversation, Deleted, Failed, GoTo, Answer, DeleteStorage, ids, Carries, CallRecord
<1>13. CASE RemoveEmailProfile(r)
  BY <1>0, <1>13 DEF RemoveEmailProfile, GoTo, Failed, Answer, MapRemoveKey, ids, Carries, CallRecord
<1>14. CASE ListOwned(r)
  BY <1>0, <1>14 DEF ListOwned, Failed, Answer, storage, ids, Carries, CallRecord
<1>15. CASE NextConversation(r)
  BY <1>0, <1>15 DEF NextConversation, storage, ids, Carries, CallRecord
<1>16. CASE DeleteProfile(r)
  BY <1>0, <1>16 DEF DeleteProfile, Answer, DeleteStorage, Note, ids, Carries, CallRecord
<1>17. CASE AuthenticateLaunch(r)
  BY <1>0, <1>17 DEF AuthenticateLaunch, GoTo, Answer, storage, ids, Carries, CallRecord
<1>18. CASE ObserveClientLaunch(r)
  BY <1>0, <1>18 DEF ObserveClientLaunch, Answer, StoreObject, Note, Carries, CallRecord
<1>19. CASE SaveActivity(r)
  BY <1>0, <1>19 DEF SaveActivity, Answer, StoreObject, ids, Carries, CallRecord
<1>20. CASE Crash(r)
  BY <1>0, <1>20 DEF Crash, Answer, storage, ids, Carries, CallRecord
<1>21. ASSUME NEW f \in Field, PatchProfile(r, f)
       PROVE  Carries(r)
  BY <1>0, <1>21 DEF PatchProfile, Patched, Answer, StoreObject, Note, ids, Carries, CallRecord
<1> QED BY <1>1, <1>2, <1>3, <1>4, <1>5, <1>6, <1>7, <1>8, <1>9, <1>10, <1>11, <1>12, <1>13, <1>14, <1>15, <1>16, <1>17, <1>18, <1>19, <1>20, <1>21 DEF Work, Create, Delete, Observe

(* Which steps change what.                                               *)
LEMMA WorkChanges ==
    ASSUME NEW r \in Request, Work(r)
    PROVE  /\ profile' = profile \/ SaveProfile(r) \/ CleanProfile(r) \/ DeleteProfile(r)
              \/ (\E f \in Field : PatchProfile(r, f))
           /\ emails' = emails \/ SetEmailProfile(r) \/ CleanEmail(r) \/ RemoveEmailProfile(r)
           /\ conv' = conv \/ SaveConversation(r) \/ CleanConversation(r) \/ DeleteConversation(r)
           /\ owned' = owned \/ AddOwnedConversation(r) \/ RemoveOwnedConversation(r)
           /\ activity' = activity \/ ObserveClientLaunch(r) \/ SaveActivity(r)
           /\ users' = users \/ ObserveClientLaunch(r)
           /\ fresh' = fresh \/ SetEmailProfile(r) \/ LookupName(r)
           /\ history' = history \/ DeleteProfile(r) \/ (\E f \in Field : PatchProfile(r, f))
              \/ ObserveClientLaunch(r)
           /\ overlap' = overlap
<1>1. profile' = profile \/ SaveProfile(r) \/ CleanProfile(r) \/ DeleteProfile(r)
              \/ (\E f \in Field : PatchProfile(r, f))
  BY DEF Work, Create, Delete, Observe, SetEmailProfile, CleanEmail, LookupName, SaveConversation, AddOwnedConversation, CleanConversation,
     FindConversation, GetConversation, RemoveOwnedConversation, DeleteConversation, RemoveEmailProfile, ListOwned, NextConversation,
     AuthenticateLaunch, ObserveClientLaunch, SaveActivity, Crash, storage
<1>2. emails' = emails \/ SetEmailProfile(r) \/ CleanEmail(r) \/ RemoveEmailProfile(r)
  BY DEF Work, Create, Delete, Observe, SaveProfile, CleanProfile, LookupName, SaveConversation, AddOwnedConversation, CleanConversation,
     FindConversation, GetConversation, RemoveOwnedConversation, DeleteConversation, ListOwned, NextConversation, DeleteProfile,
     AuthenticateLaunch, ObserveClientLaunch, SaveActivity, Crash, PatchProfile, storage
<1>3. conv' = conv \/ SaveConversation(r) \/ CleanConversation(r) \/ DeleteConversation(r)
  BY DEF Work, Create, Delete, Observe, SaveProfile, SetEmailProfile, CleanEmail, CleanProfile, LookupName, AddOwnedConversation,
     FindConversation, GetConversation, RemoveOwnedConversation, RemoveEmailProfile, ListOwned, NextConversation, DeleteProfile,
     AuthenticateLaunch, ObserveClientLaunch, SaveActivity, Crash, PatchProfile, storage
<1>4. owned' = owned \/ AddOwnedConversation(r) \/ RemoveOwnedConversation(r)
  BY DEF Work, Create, Delete, Observe, SaveProfile, SetEmailProfile, CleanEmail, CleanProfile, LookupName, SaveConversation,
     CleanConversation, FindConversation, GetConversation, DeleteConversation, RemoveEmailProfile, ListOwned, NextConversation,
     DeleteProfile, AuthenticateLaunch, ObserveClientLaunch, SaveActivity, Crash, PatchProfile, storage
<1>5. activity' = activity \/ ObserveClientLaunch(r) \/ SaveActivity(r)
  BY DEF Work, Create, Delete, Observe, SaveProfile, SetEmailProfile, CleanEmail, CleanProfile, LookupName, SaveConversation,
     AddOwnedConversation, CleanConversation, FindConversation, GetConversation, RemoveOwnedConversation, DeleteConversation, RemoveEmailProfile,
     ListOwned, NextConversation, DeleteProfile, AuthenticateLaunch, Crash, PatchProfile, storage
<1>6. users' = users \/ ObserveClientLaunch(r)
  BY DEF Work, Create, Delete, Observe, SaveProfile, SetEmailProfile, CleanEmail, CleanProfile, LookupName, SaveConversation,
     AddOwnedConversation, CleanConversation, FindConversation, GetConversation, RemoveOwnedConversation, DeleteConversation, RemoveEmailProfile,
     ListOwned, NextConversation, DeleteProfile, AuthenticateLaunch, SaveActivity, Crash, PatchProfile, ids
<1>7. fresh' = fresh \/ SetEmailProfile(r) \/ LookupName(r)
  BY DEF Work, Create, Delete, Observe, SaveProfile, CleanEmail, CleanProfile, SaveConversation, AddOwnedConversation, CleanConversation,
     FindConversation, GetConversation, RemoveOwnedConversation, DeleteConversation, RemoveEmailProfile, ListOwned, NextConversation,
     DeleteProfile, AuthenticateLaunch, ObserveClientLaunch, SaveActivity, Crash, PatchProfile, ids
<1>8. history' = history \/ DeleteProfile(r) \/ (\E f \in Field : PatchProfile(r, f))
              \/ ObserveClientLaunch(r)
  BY DEF Work, Create, Delete, Observe, SaveProfile, SetEmailProfile, CleanEmail, CleanProfile, LookupName, SaveConversation,
     AddOwnedConversation, CleanConversation, FindConversation, GetConversation, RemoveOwnedConversation, DeleteConversation, RemoveEmailProfile,
     ListOwned, NextConversation, AuthenticateLaunch, SaveActivity, Crash
<1>9. overlap' = overlap
  BY DEF Work, Create, Delete, Observe, SaveProfile, SetEmailProfile, CleanEmail, CleanProfile, LookupName, SaveConversation,
     AddOwnedConversation, CleanConversation, FindConversation, GetConversation, RemoveOwnedConversation, DeleteConversation, RemoveEmailProfile,
     ListOwned, NextConversation, DeleteProfile, AuthenticateLaunch, ObserveClientLaunch, SaveActivity, Crash, PatchProfile
<1> QED BY <1>1, <1>2, <1>3, <1>4, <1>5, <1>6, <1>7, <1>8, <1>9

(* Where a request can have come from.                                    *)
Arrives(r) ==
    LET d == call'[r] IN
    /\ d.pc \notin {"saveProfile", "post", "delete", "deleteUser", "patch", "authenticate", "active"}
    /\ d.pc = "mapEmail" => SaveProfile(r)
    /\ d.pc = "saveConv" => SetEmailProfile(r) \/ LookupName(r)
    /\ d.pc = "link" => SaveConversation(r)
    /\ d.pc = "cleanConv" => AddOwnedConversation(r)
    /\ d.pc = "cleanEmail" => SetEmailProfile(r) \/ SaveConversation(r) \/ CleanConversation(r)
    /\ d.pc = "cleanProfile" => CleanEmail(r)
    /\ d.pc = "observe" => AddOwnedConversation(r) \/ AuthenticateLaunch(r)
    /\ d.pc = "getConv" => FindConversation(r) \/ NextConversation(r)
    /\ d.pc = "unlink" => GetConversation(r)
    /\ d.pc = "deleteConv" => RemoveOwnedConversation(r)
    /\ d.pc = "list" => RemoveEmailProfile(r)
    /\ d.pc = "next" => GetConversation(r) \/ DeleteConversation(r) \/ ListOwned(r)

LEMMA WorkArrives ==
    ASSUME Types, NEW r \in Request, Work(r)
    PROVE  Arrives(r)
<1> DEFINE c == call[r]
<1>0. c \in CallRecord /\ call \in [Request -> CallRecord] /\ Idle.pc = "idle"
  BY IdleTyped DEF Types, TypeOK
<1>1. CASE SaveProfile(r)
  <2>1. call'[r].pc \in {"mapEmail", "idle"}
    BY <1>0, <1>1 DEF SaveProfile, Answer, GoTo, CallRecord
  <2> QED BY <1>1, <2>1 DEF Arrives
<1>2. CASE SetEmailProfile(r)
  <2>1. call'[r].pc \in {"saveConv", "cleanEmail"}
    <3>1. CASE GoTo(r, "cleanEmail")
      BY <1>0, <3>1 DEF GoTo, CallRecord
    <3>2. ASSUME NEW v,
                 call' = [call EXCEPT ![r].pc = "saveConv", ![r].conv = v, ![r].name = FirstName]
          PROVE  call'[r].pc = "saveConv"
      BY <1>0, <3>2 DEF CallRecord
    <3> QED BY <1>2, <3>1, <3>2 DEF SetEmailProfile
  <2> QED BY <1>2, <2>1 DEF Arrives
<1>3. CASE CleanEmail(r)
  <2>1. call'[r].pc \in {"cleanProfile"}
    BY <1>0, <1>3 DEF CleanEmail, GoTo, CallRecord
  <2> QED BY <1>3, <2>1 DEF Arrives
<1>4. CASE CleanProfile(r)
  <2>1. call'[r].pc \in {"idle"}
    BY <1>0, <1>4 DEF CleanProfile, Answer, CallRecord
  <2> QED BY <1>4, <2>1 DEF Arrives
<1>5. CASE LookupName(r)
  <2>1. call'[r].pc \in {"saveConv", "idle"}
    BY <1>0, <1>5 DEF LookupName, Answer, CallRecord
  <2> QED BY <1>5, <2>1 DEF Arrives
<1>6. CASE SaveConversation(r)
  <2>1. call'[r].pc \in {"link", "cleanEmail", "idle"}
    BY <1>0, <1>6 DEF SaveConversation, GoTo, Answer, NotCreated, CallRecord
  <2> QED BY <1>6, <2>1 DEF Arrives
<1>7. CASE AddOwnedConversation(r)
  <2>1. call'[r].pc \in {"observe", "cleanConv", "idle"}
    BY <1>0, <1>7 DEF AddOwnedConversation, GoTo, Answer, CallRecord
  <2> QED BY <1>7, <2>1 DEF Arrives
<1>8. CASE CleanConversation(r)
  <2>1. call'[r].pc \in {"cleanEmail", "idle"}
    BY <1>0, <1>8 DEF CleanConversation, GoTo, Answer, NotCreated, CallRecord
  <2> QED BY <1>8, <2>1 DEF Arrives
<1>9. CASE FindConversation(r)
  <2>1. call'[r].pc \in {"getConv", "idle"}
    BY <1>0, <1>9 DEF FindConversation, Answer, CallRecord
  <2> QED BY <1>9, <2>1 DEF Arrives
<1>10. CASE GetConversation(r)
  <2>1. call'[r].pc \in {"unlink", "next", "idle"}
    BY <1>0, <1>10 DEF GetConversation, Failed, Answer, CallRecord
  <2> QED BY <1>10, <2>1 DEF Arrives
<1>11. CASE RemoveOwnedConversation(r)
  <2>1. call'[r].pc \in {"deleteConv", "idle"}
    BY <1>0, <1>11 DEF RemoveOwnedConversation, GoTo, Failed, Answer, CallRecord
  <2> QED BY <1>11, <2>1 DEF Arrives
<1>12. CASE DeleteConversation(r)
  <2>1. call'[r].pc \in {"next", "idle"}
    BY <1>0, <1>12 DEF DeleteConversation, Deleted, Failed, GoTo, Answer, CallRecord
  <2> QED BY <1>12, <2>1 DEF Arrives
<1>13. CASE RemoveEmailProfile(r)
  <2>1. call'[r].pc \in {"list", "idle"}
    BY <1>0, <1>13 DEF RemoveEmailProfile, GoTo, Failed, Answer, CallRecord
  <2> QED BY <1>13, <2>1 DEF Arrives
<1>14. CASE ListOwned(r)
  <2>1. call'[r].pc \in {"next", "idle"}
    BY <1>0, <1>14 DEF ListOwned, Failed, Answer, CallRecord
  <2> QED BY <1>14, <2>1 DEF Arrives
<1>15. CASE NextConversation(r)
  <2>1. call'[r].pc \in {"getConv"}
    BY <1>0, <1>15 DEF NextConversation, CallRecord
  <2> QED BY <1>15, <2>1 DEF Arrives
<1>16. CASE DeleteProfile(r)
  <2>1. call'[r].pc \in {"idle"}
    BY <1>0, <1>16 DEF DeleteProfile, Answer, CallRecord
  <2> QED BY <1>16, <2>1 DEF Arrives
<1>17. CASE AuthenticateLaunch(r)
  <2>1. call'[r].pc \in {"observe", "idle"}
    BY <1>0, <1>17 DEF AuthenticateLaunch, GoTo, Answer, CallRecord
  <2> QED BY <1>17, <2>1 DEF Arrives
<1>18. CASE ObserveClientLaunch(r)
  <2>1. call'[r].pc \in {"idle"}
    BY <1>0, <1>18 DEF ObserveClientLaunch, Answer, CallRecord
  <2> QED BY <1>18, <2>1 DEF Arrives
<1>19. CASE SaveActivity(r)
  <2>1. call'[r].pc \in {"idle"}
    BY <1>0, <1>19 DEF SaveActivity, Answer, CallRecord
  <2> QED BY <1>19, <2>1 DEF Arrives
<1>20. CASE Crash(r)
  <2>1. call'[r].pc \in {"idle"}
    BY <1>0, <1>20 DEF Crash, Answer, CallRecord
  <2> QED BY <1>20, <2>1 DEF Arrives
<1>21. ASSUME NEW f \in Field, PatchProfile(r, f)
       PROVE  Arrives(r)
  <2>1. call'[r].pc \in {"idle"}
    BY <1>0, <1>21 DEF PatchProfile, Answer, CallRecord
  <2> QED BY <1>21, <2>1 DEF Arrives
<1> QED BY <1>1, <1>2, <1>3, <1>4, <1>5, <1>6, <1>7, <1>8, <1>9, <1>10, <1>11,
           <1>12, <1>13, <1>14, <1>15, <1>16, <1>17, <1>18, <1>19, <1>20, <1>21 DEF Work, Create, Delete, Observe

-----------------------------------------------------------------------------
(* Profiles *)

ForUser(c) == c.op \in {"post", "delete", "deleteUser", "patch", "relaunch"}

(* Nothing is known of an id that has not been generated.                  *)
FreshProfiles ==
    \A p \in fresh \cap Profile :
        /\ p \notin users
        /\ profile[p] = None
        /\ \A e \in Email : emails[e] # p
        /\ \A n \in Name : owned[p][n] = None
        /\ \A r \in Request : call[r].prof # p

(* A user that is being created belongs to that request alone.             *)
Launches ==
    \A r \in Request : call[r].op = "launch" =>
        /\ call[r].prof \notin users /\ call[r].prof \notin fresh
        /\ \A s \in Request \ {r} : call[s].prof # call[r].prof
        /\ call[r].pc = "mapEmail" => profile[call[r].prof] # None
        /\ call[r].pc \in {"saveProfile", "mapEmail", "saveConv", "link"} =>
              \A n \in Name : owned[call[r].prof][n] = None

(* The other requests are about users whose creation has been answered.    *)
UsersKnown ==
    /\ \A r \in Request : ForUser(call[r]) => call[r].prof \in users
    /\ history.deleted \subseteq users
    /\ \A p \in Profile, f \in Field : history.patched[p][f] => p \in users

(* A profile has one email, wherever it is written down.                   *)
Claims(p, e) ==
    \/ profile[p] # None /\ profile[p].email = e
    \/ emails[e] = p
    \/ \E r \in Request : call[r].prof = p /\ call[r].email = e

OneEmail == \A p \in Profile, e, f \in Email : Claims(p, e) /\ Claims(p, f) => e = f

ProfileIds == FreshProfiles /\ Launches /\ UsersKnown /\ OneEmail

(* What a working request changes about profiles: nothing about another    *)
(* profile than its own, and it claims no other email for that one.        *)
ProfileSteps(r) ==
    LET c == call[r]
        d == call'[r]
    IN  /\ \A p \in Profile : p # c.prof => profile'[p] = profile[p] /\ owned'[p] = owned[p]
        /\ c.prof \in Profile /\ profile'[c.prof] # None =>
              \/ profile'[c.prof] = profile[c.prof]
              \/ profile'[c.prof].email = c.email
        /\ \A e \in Email : \/ emails'[e] = emails[e]
                            \/ emails'[e] = None
                            \/ emails'[e] = c.prof /\ e = c.email
        /\ users' = users \/ (users' = users \cup {c.prof} /\ d = Idle)
        /\ fresh' \subseteq fresh
        /\ history'.deleted = history.deleted
           \/ (ForUser(c) /\ history'.deleted \subseteq history.deleted \cup {c.prof})
        /\ \A p \in Profile, f \in Field :
              history'.patched[p][f] => history.patched[p][f] \/ (ForUser(c) /\ p = c.prof)
        /\ d.pc # "saveProfile"
        /\ d.pc = "mapEmail" => profile'[c.prof] # None
        /\ d.pc \in {"saveConv", "link"} /\ d.op = "launch" =>
              owned' = owned /\ c.pc \in {"mapEmail", "saveConv"}

LEMMA WorkProfiles ==
    ASSUME Types, NEW r \in Request, Work(r)
    PROVE  ProfileSteps(r)
<1> DEFINE c == call[r]
           d == call'[r]
<1>0. c \in CallRecord /\ CallTyped(c) /\ call \in [Request -> CallRecord] /\ StoreOK
  BY DEF Types, TypeOK, CallsTyped, StoreOK
<1>1. Carries(r) /\ Arrives(r) /\ Idle.pc = "idle"
  BY WorkCarries, WorkArrives, IdleTyped
<1> HIDE DEF c, d
<1>2. /\ \A p \in Profile : p # c.prof => profile'[p] = profile[p]
      /\ c.prof \in Profile /\ profile'[c.prof] # None =>
            \/ profile'[c.prof] = profile[c.prof]
            \/ profile'[c.prof].email = c.email
  <2>1. CASE SaveProfile(r)
    BY <1>0, <2>1 DEF SaveProfile, StoreObject, StoreOK, c
  <2>2. CASE CleanProfile(r) \/ DeleteProfile(r)
    BY <1>0, <2>2 DEF CleanProfile, DeleteProfile, DeleteStorage, StoreOK, c
  <2>3. ASSUME NEW f \in Field, PatchProfile(r, f)
        PROVE  /\ \A p \in Profile : p # c.prof => profile'[p] = profile[p]
               /\ profile'[c.prof] = profile[c.prof] \/ profile'[c.prof].email = c.email
    <3>1. c.prof \in Profile
      BY <1>0, <2>3 DEF PatchProfile, CallTyped, c
    <3>2. CASE profile' = profile
      BY <3>2
    <3>3. ASSUME NEW ok, profile' = StoreObject(profile, c.prof, Patched(c, f, ok))
          PROVE  (\A p \in Profile : p # c.prof => profile'[p] = profile[p])
                 /\ profile'[c.prof].email = c.email
      BY <1>0, <3>1, <3>3 DEF Patched, StoreObject, StoreOK
    <3> QED BY <2>3, <3>2, <3>3 DEF PatchProfile, c
  <2> QED BY <2>1, <2>2, <2>3, WorkChanges
<1>3. \A p \in Profile : p # c.prof => owned'[p] = owned[p]
  BY <1>0, WorkChanges DEF AddOwnedConversation, RemoveOwnedConversation, StoreOK, c
<1>4. \A e \in Email : \/ emails'[e] = emails[e]
                       \/ emails'[e] = None
                       \/ emails'[e] = c.prof /\ e = c.email
  BY <1>0, WorkChanges DEF SetEmailProfile, CleanEmail, RemoveEmailProfile, SetMapValue,
     MapRemoveKey, StoreOK, c
<1>5. users' = users \/ (users' = users \cup {c.prof} /\ d = Idle)
  BY <1>0, WorkChanges DEF ObserveClientLaunch, Answer, c, d
<1>6. fresh' \subseteq fresh
  BY WorkChanges DEF SetEmailProfile, LookupName
<1>7. /\ history'.deleted = history.deleted
         \/ (ForUser(c) /\ history'.deleted \subseteq history.deleted \cup {c.prof})
      /\ \A p \in Profile, f \in Field :
            history'.patched[p][f] => history.patched[p][f] \/ (ForUser(c) /\ p = c.prof)
  <2>1. CASE DeleteProfile(r)
    BY <1>0, <2>1 DEF DeleteProfile, Note, CallTyped, ForUser, StoreOK, c
  <2>2. CASE ObserveClientLaunch(r)
    BY <1>0, <2>2 DEF ObserveClientLaunch, Note, StoreOK, c
  <2>3. ASSUME NEW f \in Field, PatchProfile(r, f)
        PROVE  /\ history'.deleted = history.deleted
               /\ \A p \in Profile, g \in Field :
                     history'.patched[p][g] => history.patched[p][g] \/ (ForUser(c) /\ p = c.prof)
    <3>1. c.prof \in Profile /\ ForUser(c)
      BY <1>0, <2>3 DEF PatchProfile, CallTyped, ForUser, c
    <3>2. CASE history' = [history EXCEPT !.patched[c.prof][f] = TRUE]
      BY <1>0, <3>1, <3>2 DEF StoreOK, Fields
    <3> QED BY <2>3, <3>2 DEF PatchProfile, Note, c
  <2> QED BY <2>1, <2>2, <2>3, WorkChanges
<1>8. d.pc = "mapEmail" => profile'[c.prof] # None
  <2> SUFFICES ASSUME d.pc = "mapEmail" PROVE profile'[c.prof] # None
    OBVIOUS
  <2>1. SaveProfile(r) /\ ~Answer(r)
    BY <1>0, <1>1 DEF Arrives, Answer, d
  <2>2. c.email \in Email /\ c.prof \in Profile
    BY <1>0, <2>1 DEF SaveProfile, CallTyped, Making, c
  <2>3. [email |-> c.email, fields |-> Unchanged, usable |-> TRUE] # None
    <3>1. [email |-> c.email, fields |-> Unchanged, usable |-> TRUE] \in ProfileRecord
      BY <2>2 DEF ProfileRecord, Fields, Unchanged
    <3> QED BY <3>1, NoneIsNothing
  <2> QED BY <1>0, <2>1, <2>2, <2>3 DEF SaveProfile, StoreObject, StoreOK, c
<1>9. d.pc \in {"saveConv", "link"} /\ d.op = "launch" =>
         owned' = owned /\ c.pc \in {"mapEmail", "saveConv"}
  <2> SUFFICES ASSUME d.pc \in {"saveConv", "link"}, d.op = "launch"
               PROVE  owned' = owned /\ c.pc \in {"mapEmail", "saveConv"}
    OBVIOUS
  <2>1. SetEmailProfile(r) \/ LookupName(r) \/ SaveConversation(r)
    BY <1>1 DEF Arrives, d
  <2>2. c.op = "launch"
    BY <1>1 DEF Carries, c, d
  <2>3. c.pc # "post"
    BY <1>0, <2>2 DEF CallTyped
  <2> QED BY <2>1, <2>3 DEF SetEmailProfile, LookupName, SaveConversation, storage, c
<1>10. d.pc # "saveProfile"
  BY <1>1 DEF Arrives, d
<1> QED BY <1>2, <1>3, <1>4, <1>5, <1>6, <1>7, <1>8, <1>9, <1>10 DEF ProfileSteps, c, d
LEMMA WorkKeepsProfiles ==
    ASSUME Types, Types', ProfileIds, NEW r \in Request, Work(r)
    PROVE  ProfileIds'
<1> DEFINE c == call[r]
           d == call'[r]
<1>0. c \in CallRecord /\ CallTyped(c) /\ StoreOK /\ StoreOK' /\ CallsTyped
  BY DEF Types, TypeOK, CallsTyped, StoreOK
<1>1. Carries(r) /\ ProfileSteps(r)
  BY WorkCarries, WorkProfiles
<1>2. Idle.op = None /\ Idle.prof = None /\ Idle.email = None /\ Idle.pc = "idle"
  BY DEF Idle
<1>3. /\ \A s \in Request \ {r} : call'[s] = call[s]
      /\ d = Idle \/ (d.op = c.op /\ d.prof = c.prof /\ d.email = c.email)
  BY <1>1 DEF Carries
<1>4. c.prof \notin fresh \cap Profile
  BY DEF ProfileIds, FreshProfiles
<1>5. FreshProfiles'
  <2> SUFFICES ASSUME NEW p \in Profile, p \in fresh'
               PROVE  /\ p \notin users'
                      /\ profile'[p] = None
                      /\ \A e \in Email : emails'[e] # p
                      /\ \A n \in Name : owned'[p][n] = None
                      /\ \A s \in Request : call'[s].prof # p
    BY DEF FreshProfiles
  <2>1. p \in fresh /\ p # c.prof
    BY <1>1, <1>4 DEF ProfileSteps
  <2>2. p # None
    BY NoneIsNothing
  <2> QED BY <1>1, <1>2, <1>3, <2>1, <2>2 DEF ProfileSteps, ProfileIds, FreshProfiles
<1>6. Launches'
  <2> SUFFICES ASSUME NEW s \in Request, call'[s].op = "launch"
               PROVE  /\ call'[s].prof \notin users' /\ call'[s].prof \notin fresh'
                      /\ \A t \in Request \ {s} : call'[t].prof # call'[s].prof
                      /\ call'[s].pc = "mapEmail" => profile'[call'[s].prof] # None
                      /\ call'[s].pc \in {"saveProfile", "mapEmail", "saveConv", "link"} =>
                            \A n \in Name : owned'[call'[s].prof][n] = None
    BY DEF Launches
  <2>1. call[s].op = "launch" /\ call'[s].prof = call[s].prof /\ (s = r => d # Idle)
    BY <1>2, <1>3, NoneIsNothing DEF Operation
  <2>2. call[s].prof \in Profile
    <3>1. CallTyped(call[s]) /\ Idle.op # "launch"
      BY <1>0, <1>2, NoneIsNothing DEF CallsTyped, Operation
    <3> QED BY <2>1, <3>1 DEF CallTyped
  <2>3. call'[s].prof \notin fresh'
    BY <1>1, <2>1 DEF ProfileSteps, ProfileIds, Launches
  <2>4. call'[s].prof \notin users'
    <3>1. CASE s = r
      BY <1>1, <2>1, <3>1 DEF ProfileSteps, ProfileIds, Launches
    <3>2. CASE s # r
      BY <1>1, <2>1, <3>2 DEF ProfileSteps, ProfileIds, Launches
    <3> QED BY <3>1, <3>2
  <2>5. \A t \in Request \ {s} : call'[t].prof # call'[s].prof
    BY <1>2, <1>3, <2>1, <2>2, NoneIsNothing DEF ProfileIds, Launches
  <2>6. CASE s = r
    <3>1. call'[s].pc \in {"saveProfile", "mapEmail", "saveConv", "link"} =>
            \A n \in Name : owned'[call'[s].prof][n] = None
      <4>1. d.pc \in {"saveConv", "link"} =>
              owned' = owned /\ c.pc \in {"mapEmail", "saveConv"}
        BY <1>1, <2>1, <2>6 DEF ProfileSteps
      <4>2. d.pc = "mapEmail" => owned' = owned /\ c.pc = "saveProfile"
        BY WorkArrives DEF Arrives, SaveProfile
      <4>3. d.pc # "saveProfile"
        BY <1>1 DEF ProfileSteps
      <4> QED BY <2>1, <2>6, <4>1, <4>2, <4>3 DEF ProfileIds, Launches
    <3> QED BY <1>1, <2>1, <2>3, <2>4, <2>5, <2>6, <3>1 DEF ProfileSteps
  <2>7. CASE s # r
    <3>1. call'[s] = call[s] /\ call[s].prof # c.prof
      BY <1>3, <2>1, <2>7 DEF ProfileIds, Launches
    <3>2. profile'[call[s].prof] = profile[call[s].prof] /\ owned'[call[s].prof] = owned[call[s].prof]
      BY <1>1, <2>2, <3>1 DEF ProfileSteps
    <3> QED BY <2>1, <2>3, <2>4, <2>5, <3>1, <3>2 DEF ProfileIds, Launches
  <2> QED BY <2>6, <2>7
<1>7. UsersKnown'
  <2>1. \A s \in Request : ForUser(call'[s]) => call'[s].prof \in users
    BY <1>2, <1>3, NoneIsNothing DEF ProfileIds, UsersKnown, ForUser, Operation
  <2>2. users \subseteq users'
    BY <1>1 DEF ProfileSteps
  <2>3. history'.deleted \subseteq users
    BY <1>1 DEF ProfileSteps, ProfileIds, UsersKnown
  <2>4. \A p \in Profile, f \in Field : history'.patched[p][f] => p \in users
    BY <1>1 DEF ProfileSteps, ProfileIds, UsersKnown
  <2> QED BY <2>1, <2>2, <2>3, <2>4 DEF UsersKnown
<1>8. OneEmail'
  <2>1. ASSUME NEW p \in Profile, NEW e \in Email, Claims(p, e)'
        PROVE  Claims(p, e)
    <3>1. CASE profile'[p] # None /\ profile'[p].email = e
      BY <1>1, <3>1 DEF ProfileSteps, Claims
    <3>2. CASE emails'[e] = p
      BY <1>1, <3>2, NoneIsNothing DEF ProfileSteps, Claims
    <3>3. CASE \E s \in Request : call'[s].prof = p /\ call'[s].email = e
      BY <1>2, <1>3, <3>3, NoneIsNothing DEF Claims
    <3> QED BY <2>1, <3>1, <3>2, <3>3 DEF Claims
  <2> QED BY <2>1 DEF ProfileIds, OneEmail
<1> QED BY <1>5, <1>6, <1>7, <1>8 DEF ProfileIds

(* What a request is when it starts. *)
Starts(r) ==
    LET d == call'[r] IN
    /\ call[r] = Idle
    /\ \A s \in Request \ {r} : call'[s] = call[s]
    /\ UNCHANGED <<profile, emails, conv, owned, activity, users>>
    /\ history' = history \/ history' = NoHistory
    /\ d.conv = None /\ d.todo = {}
    /\ \/ /\ d.op = "launch" /\ d.pc = "saveProfile"
          /\ d.prof \in fresh \cap Profile
          /\ d.email \in Email
          /\ emails[d.email] = None \/ Fault("command")
          /\ fresh' = fresh \ {d.prof}
       \/ /\ d.op \in {"post", "delete", "deleteUser", "patch"} /\ d.pc = d.op
          /\ d.prof \in users /\ profile[d.prof] # None /\ d.email = profile[d.prof].email
          /\ d.op = "patch" => d.fields = profile[d.prof].fields
          /\ fresh' = fresh
       \/ /\ d.op = "relaunch" /\ d.pc = "authenticate"
          /\ d.prof \in users /\ d.email = None
          /\ \E e \in Email : emails[e] = d.prof
          /\ fresh' = fresh
       \/ /\ d.op = "shutdown" /\ d.pc = "active"
          /\ d.prof = None /\ d.email = None
          /\ d.seen = activity[d.client]
          /\ fresh' = fresh

LEMMA StartStarts ==
    ASSUME Types, NEW r \in Request, Start(r)
    PROVE  Starts(r)
<1> DEFINE d == call'[r]
<1>0. call \in [Request -> CallRecord] /\ CallTyped(call[r]) /\ Idle \in CallRecord
  BY IdleTyped DEF Types, TypeOK, CallsTyped
<1>1. Begin(r)
  BY DEF Start, Launch, Relaunch, ReadActivity, Authenticate
<1>2. call[r] = Idle /\ (history' = history \/ history' = NoHistory)
  BY <1>0, <1>1 DEF Begin, CallTyped
<1>3. ASSUME NEW e \in Email, NEW k \in Client, Launch(r, e, k)
      PROVE  Starts(r)
  <2>1. PICK p \in fresh \cap Profile :
          /\ fresh' = fresh \ {p}
          /\ call' = [call EXCEPT ![r] = [Idle EXCEPT !.pc = "saveProfile", !.op = "launch",
                                                   !.email = e, !.prof = p, !.client = k]]
    BY <1>3 DEF Launch
  <2>2. /\ \A s \in Request \ {r} : call'[s] = call[s]
        /\ d.op = "launch" /\ d.pc = "saveProfile" /\ d.prof = p /\ d.conv = None /\ d.todo = {}
        /\ d.email = e
    BY <1>0, <2>1 DEF Idle
  <2>3. /\ UNCHANGED <<profile, emails, conv, owned, activity, users>>
        /\ emails[e] = None \/ Fault("command")
    BY <1>3 DEF Launch, storage
  <2> QED BY <1>2, <2>1, <2>2, <2>3 DEF Starts
<1>4. ASSUME NEW p \in Profile, NEW k \in Client, Relaunch(r, p, k)
      PROVE  Starts(r)
  <2>1. /\ \A s \in Request \ {r} : call'[s] = call[s]
        /\ d.op = "relaunch" /\ d.pc = "authenticate" /\ d.prof = p /\ d.conv = None
        /\ d.todo = {} /\ d.email = None
    BY <1>0, <1>4 DEF Relaunch, Idle
  <2> QED BY <1>2, <1>4, <2>1 DEF Starts, Relaunch, storage, ids
<1>5. ASSUME NEW k \in Client, ReadActivity(r, k)
      PROVE  Starts(r)
  <2>1. /\ \A s \in Request \ {r} : call'[s] = call[s]
        /\ d.op = "shutdown" /\ d.pc = "active" /\ d.prof = None /\ d.conv = None
        /\ d.todo = {} /\ d.email = None /\ d.client = k /\ d.seen = activity[k]
    BY <1>0, <1>5 DEF ReadActivity, Idle
  <2> QED BY <1>2, <1>5, <2>1 DEF Starts, ReadActivity, storage, ids
<1>6. ASSUME NEW p \in Profile, NEW n, NEW op \in {"post", "delete", "deleteUser", "patch"},
             Authenticate(r, op, p, n)
      PROVE  Starts(r)
  <2>1. /\ \A s \in Request \ {r} : call'[s] = call[s]
        /\ d.op = op /\ d.pc = op /\ d.prof = p /\ d.conv = None
        /\ d.todo = {} /\ d.email = profile[p].email
        /\ op = "patch" => d.fields = profile[p].fields
    BY <1>0, <1>6 DEF Authenticate, Idle
  <2> QED BY <1>2, <1>6, <2>1 DEF Starts, Authenticate, CanAuthenticate, storage, ids
<1> QED BY <1>3, <1>4, <1>5, <1>6 DEF Start

LEMMA StartKeepsProfiles ==
    ASSUME Types, Types', ProfileIds, NEW r \in Request, Start(r)
    PROVE  ProfileIds'
<1> DEFINE d == call'[r]
<1>0. StoreOK /\ StoreOK' /\ CallsTyped /\ CallsTyped'
  BY DEF Types, TypeOK, StoreOK
<1>1. Starts(r)
  BY StartStarts
<1>2. fresh' \subseteq fresh /\ (d.prof \in fresh \cap Profile => d.prof \notin fresh')
  <2>1. d.prof \in users => d.prof \notin fresh \cap Profile
    BY DEF ProfileIds, FreshProfiles
  <2> QED BY <1>1, <2>1, NoneIsNothing DEF Starts
<1>3. FreshProfiles'
  BY <1>1, <1>2 DEF Starts, ProfileIds, FreshProfiles
<1>4. Launches'
  <2>1. ASSUME NEW s \in Request, call[s].op = "launch"
        PROVE  call[s].prof \in Profile /\ call[s].prof # d.prof /\ s # r
    <3>1. CallTyped(call[s]) /\ Idle.op # "launch"
      BY <1>0, NoneIsNothing DEF CallsTyped, Operation, Idle
    <3>2. call[s].prof \in Profile
      BY <2>1, <3>1 DEF CallTyped
    <3>3. call[s].prof \notin users /\ call[s].prof \notin fresh
      BY <2>1 DEF ProfileIds, Launches
    <3> QED BY <1>1, <2>1, <3>1, <3>2, <3>3, NoneIsNothing DEF Starts
  <2>2. ASSUME d.op = "launch"
        PROVE  /\ d.prof \in Profile /\ d.prof \notin users /\ d.prof \notin fresh'
               /\ \A s \in Request \ {r} : call[s].prof # d.prof
               /\ d.pc = "saveProfile"
               /\ \A n \in Name : owned[d.prof][n] = None
    BY <1>1, <1>2, <2>2 DEF Starts, ProfileIds, FreshProfiles
  <2>3. UNCHANGED <<profile, owned, users>> /\ \A s \in Request \ {r} : call'[s] = call[s]
    BY <1>1 DEF Starts
  <2> QED BY <1>2, <2>1, <2>2, <2>3 DEF ProfileIds, Launches
<1>5. UsersKnown'
  <2>1. \A s \in Request : ForUser(call'[s]) => call'[s].prof \in users
    BY <1>1 DEF Starts, ProfileIds, UsersKnown, ForUser
  <2>2. history'.deleted \subseteq users
        /\ \A p \in Profile, f \in Field : history'.patched[p][f] => p \in users
    BY <1>1 DEF Starts, ProfileIds, UsersKnown, NoHistory, Unchanged
  <2> QED BY <1>1, <2>1, <2>2 DEF Starts, UsersKnown
<1>6. OneEmail'
  <2> SUFFICES ASSUME NEW p \in Profile, NEW e \in Email, NEW f \in Email,
                      Claims(p, e)', Claims(p, f)'
               PROVE  e = f
    BY DEF OneEmail
  <2>1. CASE p \in fresh /\ p = d.prof
    BY <1>1, <2>1 DEF Starts, Claims, ProfileIds, FreshProfiles
  <2>2. CASE ~(p \in fresh /\ p = d.prof)
    <3>1. ASSUME NEW g \in Email, Claims(p, g)'
          PROVE  Claims(p, g)
      BY <1>1, <2>2, <3>1, NoneIsNothing DEF Starts, Claims
    <3> QED BY <3>1 DEF ProfileIds, OneEmail
  <2> QED BY <2>1, <2>2
<1> QED BY <1>3, <1>4, <1>5, <1>6 DEF ProfileIds

-----------------------------------------------------------------------------
(* Conversations *)

(* An id is generated for a conversation. *)
NewConv(r) ==
    /\ call'[r].pc = "saveConv"
    /\ call'[r].conv \in fresh \cap Conv
    /\ call'[r].conv \notin fresh'
    /\ UNCHANGED <<conv, owned>>

(* What a working request changes about conversations.                     *)
ConvSteps(r) ==
    LET c == call[r]
        d == call'[r]
    IN  /\ fresh' \subseteq fresh
        /\ \A v \in Conv : v # c.conv => conv'[v] = conv[v]
        /\ c.conv \in Conv /\ conv'[c.conv] # None =>
              \/ conv'[c.conv] = conv[c.conv]
              \/ c.pc = "saveConv" /\ conv'[c.conv] = [owner |-> c.prof, name |-> c.name]
        /\ \A p \in Profile, n \in Name : owned'[p][n] # None =>
              \/ owned'[p][n] = owned[p][n]
              \/ p = c.prof /\ n = c.name /\ c.pc = "link" /\ owned'[p][n] = c.conv
        /\ d.pc \in Creating =>
              \/ NewConv(r)
              \/ /\ d.conv = c.conv /\ d.name = c.name /\ owned' = owned
                 /\ \/ /\ c.pc = "saveConv" /\ d.pc = "link"
                       /\ conv'[c.conv] = [owner |-> c.prof, name |-> c.name]
                    \/ c.pc = "link" /\ d.pc = "cleanConv"
        /\ d.pc \in Removing =>
              /\ conv' = conv
              /\ \/ d.pc = "getConv" /\ owned' = owned
                 \/ d.conv = c.conv /\ d.pc = "unlink" /\ c.pc = "getConv"
                    /\ d.name = conv[c.conv].name
                 \/ d.conv = c.conv /\ d.pc = "deleteConv" /\ c.pc = "unlink" /\ d.name = c.name

(* A request about a conversation that its user has, or has had.           *)
ConvFound(r) ==
    LET c == call[r]
        d == call'[r]
        Owns(v) == \E n \in Name : v = owned[c.prof][n]
    IN  /\ \/ d.conv \in {c.conv, None}
           \/ NewConv(r)
           \/ d.pc = "getConv" /\ (d.conv \in c.todo \/ Owns(d.conv))
        /\ d.pc = "getConv" => d.conv \in c.todo \/ Owns(d.conv)
        /\ \/ d.todo \subseteq c.todo
           \/ UNCHANGED <<conv, owned>> /\ \A v \in d.todo : Owns(v)

LEMMA WorkConvs ==
    ASSUME Types, NEW r \in Request, Work(r)
    PROVE  ConvSteps(r)
<1> DEFINE c == call[r]
           d == call'[r]
           rec == [owner |-> c.prof, name |-> c.name]
<1>0. c \in CallRecord /\ CallTyped(c) /\ call \in [Request -> CallRecord] /\ StoreOK
  BY DEF Types, TypeOK, CallsTyped, StoreOK
<1>1. Carries(r) /\ Arrives(r) /\ Idle.pc = "idle"
  BY WorkCarries, WorkArrives, IdleTyped
<1> HIDE DEF c, d
<1>2. fresh' \subseteq fresh
  BY WorkChanges DEF SetEmailProfile, LookupName
<1>3. /\ \A v \in Conv : v # c.conv => conv'[v] = conv[v]
      /\ c.conv \in Conv /\ conv'[c.conv] # None =>
              \/ conv'[c.conv] = conv[c.conv]
              \/ c.pc = "saveConv" /\ conv'[c.conv] = rec
  BY <1>0, WorkChanges DEF SaveConversation, CleanConversation, DeleteConversation, StoreObject,
     DeleteStorage, StoreOK, c
<1>4. \A p \in Profile, n \in Name : owned'[p][n] # None =>
              \/ owned'[p][n] = owned[p][n]
              \/ p = c.prof /\ n = c.name /\ c.pc = "link" /\ owned'[p][n] = c.conv
  <2>1. CASE owned' = [owned EXCEPT ![c.prof] = SetMapValue(@, c.name, c.conv)] /\ c.pc = "link"
    BY <1>0, <2>1 DEF SetMapValue, StoreOK
  <2>2. CASE owned' = [owned EXCEPT ![c.prof] = MapRemoveKey(@, c.name)]
    BY <1>0, <2>2 DEF MapRemoveKey, StoreOK
  <2> QED BY <2>1, <2>2, WorkChanges DEF AddOwnedConversation, RemoveOwnedConversation, c
<1>5. CASE d.pc = "saveConv"
  <2>1. PICK v \in fresh \cap Conv : fresh' = fresh \ {v} /\ d.conv = v
    <3>1. CASE SetEmailProfile(r)
      <4>1. ~GoTo(r, "cleanEmail")
        BY <1>0, <1>5 DEF GoTo, CallRecord, d
      <4>2. PICK v \in fresh \cap Conv :
              /\ fresh' = fresh \ {v}
              /\ call' = [call EXCEPT ![r].pc = "saveConv", ![r].conv = v, ![r].name = FirstName]
        BY <3>1, <4>1 DEF SetEmailProfile
      <4> QED BY <1>0, <4>2 DEF CallRecord, d
    <3>2. CASE LookupName(r)
      <4>1. ~Answer(r)
        BY <1>0, <1>1, <1>5 DEF Answer, d
      <4>2. PICK v \in fresh \cap Conv :
              /\ fresh' = fresh \ {v}
              /\ call' = [call EXCEPT ![r].pc = "saveConv", ![r].conv = v]
        BY <3>2, <4>1 DEF LookupName
      <4> QED BY <1>0, <4>2 DEF CallRecord, d
    <3> QED BY <1>1, <1>5, <3>1, <3>2 DEF Arrives, d
  <2>2. UNCHANGED <<conv, owned>>
    BY <1>1, <1>5 DEF Arrives, SetEmailProfile, LookupName, storage, d
  <2>3. NewConv(r)
    BY <1>5, <2>1, <2>2 DEF NewConv, d
  <2> QED BY <1>2, <1>3, <1>4, <1>5, <2>3 DEF ConvSteps, Creating, Removing, c, d
<1>6. CASE d.pc = "link"
  <2>1. SaveConversation(r) /\ ~Answer(r) /\ ~GoTo(r, "cleanEmail")
    BY <1>0, <1>1, <1>6 DEF Arrives, Answer, GoTo, CallRecord, d
  <2>2. c.pc = "saveConv" /\ GoTo(r, "link") /\ conv' = StoreObject(conv, c.conv, rec) /\ owned' = owned
    BY <2>1 DEF SaveConversation, NotCreated, c
  <2>3. d.conv = c.conv /\ d.name = c.name
    BY <1>0, <2>2 DEF GoTo, CallRecord, c, d
  <2>4. conv'[c.conv] = rec
    BY <1>0, <2>2 DEF CallTyped, Creating, StoreOK, StoreObject
  <2> QED BY <1>2, <1>3, <1>4, <1>6, <2>2, <2>3, <2>4 DEF ConvSteps, Creating, Removing, c, d
<1>7. CASE d.pc = "cleanConv"
  <2>1. AddOwnedConversation(r) /\ ~Answer(r) /\ ~GoTo(r, "observe")
    BY <1>0, <1>1, <1>7 DEF Arrives, Answer, GoTo, CallRecord, d
  <2>2. c.pc = "link" /\ GoTo(r, "cleanConv") /\ owned' = owned
    BY <2>1 DEF AddOwnedConversation, c
  <2>3. d.conv = c.conv /\ d.name = c.name
    BY <1>0, <2>2 DEF GoTo, CallRecord, c, d
  <2> QED BY <1>2, <1>3, <1>4, <1>7, <2>2, <2>3 DEF ConvSteps, Creating, Removing, c, d
<1>8. CASE d.pc = "getConv"
  <2>1. conv' = conv /\ owned' = owned
    BY <1>1, <1>8 DEF Arrives, FindConversation, NextConversation, storage, d
  <2> QED BY <1>2, <1>3, <1>4, <1>8, <2>1 DEF ConvSteps, Creating, Removing, c, d
<1>9. CASE d.pc = "unlink"
  <2>1. GetConversation(r) /\ ~Answer(r)
    BY <1>0, <1>1, <1>9 DEF Arrives, Answer, d
  <2>2. ~Failed(r, "next")
    BY <1>0, <1>9, <2>1 DEF Failed, CallRecord, d
  <2>3. /\ c.pc = "getConv" /\ conv' = conv
        /\ call' = [call EXCEPT ![r].pc = "unlink", ![r].name = conv[c.conv].name]
    BY <2>1, <2>2 DEF GetConversation, storage, c
  <2>4. d.conv = c.conv /\ d.name = conv[c.conv].name
    BY <1>0, <2>3 DEF CallRecord, c, d
  <2> QED BY <1>2, <1>3, <1>4, <1>9, <2>3, <2>4 DEF ConvSteps, Creating, Removing, c, d
<1>10. CASE d.pc = "deleteConv"
  <2>1. RemoveOwnedConversation(r) /\ ~Answer(r)
    BY <1>0, <1>1, <1>10 DEF Arrives, Answer, d
  <2>2. c.pc = "unlink" /\ conv' = conv /\ (GoTo(r, "deleteConv") \/ Failed(r, "deleteConv"))
    BY <2>1 DEF RemoveOwnedConversation, c
  <2>3. d.conv = c.conv /\ d.name = c.name
    BY <1>0, <2>1, <2>2 DEF GoTo, Failed, CallRecord, c, d
  <2> QED BY <1>2, <1>3, <1>4, <1>10, <2>2, <2>3 DEF ConvSteps, Creating, Removing, c, d
<1>11. CASE d.pc \notin Creating \cup Removing
  BY <1>2, <1>3, <1>4, <1>11 DEF ConvSteps, c, d
<1> QED BY <1>5, <1>6, <1>7, <1>8, <1>9, <1>10, <1>11 DEF Creating, Removing

LEMMA WorkFinds ==
    ASSUME Types, NEW r \in Request, Work(r)
    PROVE  ConvFound(r)
<1> DEFINE c == call[r]
           d == call'[r]
<1>0. c \in CallRecord /\ CallTyped(c) /\ call \in [Request -> CallRecord] /\ StoreOK
  BY DEF Types, TypeOK, CallsTyped, StoreOK
<1>1. Arrives(r) /\ Idle.pc = "idle" /\ Idle.conv = None /\ Idle.todo = {}
  BY WorkArrives DEF Idle
<1>2. d.pc = "saveConv" => NewConv(r)
  <2>1. ConvSteps(r)
    BY WorkConvs
  <2> QED BY <2>1 DEF ConvSteps, Creating
<1>3. ASSUME d.conv \in {c.conv, None}, d.todo \subseteq c.todo, d.pc # "getConv"
      PROVE  ConvFound(r)
  BY <1>3 DEF ConvFound
<1>4. CASE SaveProfile(r)
  <2>1. d.conv \in {c.conv, None} /\ d.todo \subseteq c.todo /\ d.pc # "getConv"
    BY <1>0, <1>1, <1>4 DEF SaveProfile, Answer, GoTo, CallRecord
  <2> QED BY <1>3, <2>1
<1>5. CASE CleanEmail(r)
  <2>1. d.conv \in {c.conv, None} /\ d.todo \subseteq c.todo /\ d.pc # "getConv"
    BY <1>0, <1>1, <1>5 DEF CleanEmail, GoTo, CallRecord
  <2> QED BY <1>3, <2>1
<1>6. CASE CleanProfile(r)
  <2>1. d.conv \in {c.conv, None} /\ d.todo \subseteq c.todo /\ d.pc # "getConv"
    BY <1>0, <1>1, <1>6 DEF CleanProfile, Answer, CallRecord
  <2> QED BY <1>3, <2>1
<1>7. CASE SaveConversation(r)
  <2>1. d.conv \in {c.conv, None} /\ d.todo \subseteq c.todo /\ d.pc # "getConv"
    BY <1>0, <1>1, <1>7 DEF SaveConversation, GoTo, Answer, NotCreated, CallRecord
  <2> QED BY <1>3, <2>1
<1>8. CASE AddOwnedConversation(r)
  <2>1. d.conv \in {c.conv, None} /\ d.todo \subseteq c.todo /\ d.pc # "getConv"
    BY <1>0, <1>1, <1>8 DEF AddOwnedConversation, GoTo, Answer, CallRecord
  <2> QED BY <1>3, <2>1
<1>9. CASE CleanConversation(r)
  <2>1. d.conv \in {c.conv, None} /\ d.todo \subseteq c.todo /\ d.pc # "getConv"
    BY <1>0, <1>1, <1>9 DEF CleanConversation, GoTo, Answer, NotCreated, CallRecord
  <2> QED BY <1>3, <2>1
<1>10. CASE GetConversation(r)
  <2>1. d.conv \in {c.conv, None} /\ d.todo \subseteq c.todo /\ d.pc # "getConv"
    BY <1>0, <1>1, <1>10 DEF GetConversation, Failed, Answer, CallRecord
  <2> QED BY <1>3, <2>1
<1>11. CASE RemoveOwnedConversation(r)
  <2>1. d.conv \in {c.conv, None} /\ d.todo \subseteq c.todo /\ d.pc # "getConv"
    BY <1>0, <1>1, <1>11 DEF RemoveOwnedConversation, GoTo, Failed, Answer, CallRecord
  <2> QED BY <1>3, <2>1
<1>12. CASE DeleteConversation(r)
  <2>1. d.conv \in {c.conv, None} /\ d.todo \subseteq c.todo /\ d.pc # "getConv"
    BY <1>0, <1>1, <1>12 DEF DeleteConversation, Deleted, Failed, GoTo, Answer, CallRecord
  <2> QED BY <1>3, <2>1
<1>13. CASE RemoveEmailProfile(r)
  <2>1. d.conv \in {c.conv, None} /\ d.todo \subseteq c.todo /\ d.pc # "getConv"
    BY <1>0, <1>1, <1>13 DEF RemoveEmailProfile, GoTo, Failed, Answer, CallRecord
  <2> QED BY <1>3, <2>1
<1>14. CASE DeleteProfile(r)
  <2>1. d.conv \in {c.conv, None} /\ d.todo \subseteq c.todo /\ d.pc # "getConv"
    BY <1>0, <1>1, <1>14 DEF DeleteProfile, Answer, CallRecord
  <2> QED BY <1>3, <2>1
<1>15. CASE AuthenticateLaunch(r)
  <2>1. d.conv \in {c.conv, None} /\ d.todo \subseteq c.todo /\ d.pc # "getConv"
    BY <1>0, <1>1, <1>15 DEF AuthenticateLaunch, GoTo, Answer, CallRecord
  <2> QED BY <1>3, <2>1
<1>16. CASE ObserveClientLaunch(r)
  <2>1. d.conv \in {c.conv, None} /\ d.todo \subseteq c.todo /\ d.pc # "getConv"
    BY <1>0, <1>1, <1>16 DEF ObserveClientLaunch, Answer, CallRecord
  <2> QED BY <1>3, <2>1
<1>17. CASE SaveActivity(r)
  <2>1. d.conv \in {c.conv, None} /\ d.todo \subseteq c.todo /\ d.pc # "getConv"
    BY <1>0, <1>1, <1>17 DEF SaveActivity, Answer, CallRecord
  <2> QED BY <1>3, <2>1
<1>18. CASE Crash(r)
  <2>1. d.conv \in {c.conv, None} /\ d.todo \subseteq c.todo /\ d.pc # "getConv"
    BY <1>0, <1>1, <1>18 DEF Crash, Answer, CallRecord
  <2> QED BY <1>3, <2>1
<1>19. ASSUME NEW f \in Field, PatchProfile(r, f)
       PROVE  ConvFound(r)
  <2>1. d.conv = None /\ d.todo = {} /\ d.pc # "getConv"
    BY <1>0, <1>1, <1>19 DEF PatchProfile, Answer
  <2> QED BY <1>3, <2>1
<1>20. CASE SetEmailProfile(r)
  <2>1. CASE GoTo(r, "cleanEmail")
    BY <1>0, <1>3, <2>1 DEF GoTo, CallRecord
  <2>2. ASSUME NEW v,
               call' = [call EXCEPT ![r].pc = "saveConv", ![r].conv = v, ![r].name = FirstName]
        PROVE  d.pc = "saveConv" /\ d.todo = c.todo
    BY <1>0, <2>2 DEF CallRecord
  <2> QED BY <1>2, <1>20, <2>1, <2>2 DEF SetEmailProfile, ConvFound
<1>21. CASE LookupName(r)
  <2>1. CASE Answer(r)
    BY <1>0, <1>1, <1>3, <2>1 DEF Answer
  <2>2. ASSUME NEW v, call' = [call EXCEPT ![r].pc = "saveConv", ![r].conv = v]
        PROVE  d.pc = "saveConv" /\ d.todo = c.todo
    BY <1>0, <2>2 DEF CallRecord
  <2> QED BY <1>2, <1>21, <2>1, <2>2 DEF LookupName, ConvFound
<1>22. CASE FindConversation(r)
  <2>1. CASE Answer(r)
    BY <1>0, <1>1, <1>3, <2>1 DEF Answer
  <2>2. ASSUME call' = [call EXCEPT ![r].pc = "getConv", ![r].conv = owned[c.prof][c.name]]
        PROVE  d.pc = "getConv" /\ d.conv = owned[c.prof][c.name] /\ d.todo = c.todo
    BY <1>0, <2>2 DEF CallRecord
  <2>3. c.name \in Name
    BY <1>0, <1>22 DEF FindConversation, CallTyped
  <2> QED BY <1>22, <2>1, <2>2, <2>3 DEF FindConversation, ConvFound
<1>23. CASE ListOwned(r)
  <2>1. CASE Failed(r, "next")
    BY <1>0, <1>1, <1>3, <2>1 DEF Failed, Answer, CallRecord
  <2>2. ASSUME call' = [call EXCEPT ![r].pc = "next", ![r].todo = GetMapAll(owned[c.prof])]
        PROVE  ConvFound(r)
    <3>1. d.pc = "next" /\ d.conv = c.conv /\ d.todo = GetMapAll(owned[c.prof])
      BY <1>0, <2>2 DEF CallRecord
    <3>2. c.prof \in Profile
      BY <1>0, <1>23 DEF ListOwned, CallTyped
    <3>3. \A v \in d.todo : \E m \in Name : v = owned[c.prof][m]
      BY <1>0, <3>1, <3>2 DEF GetMapAll, StoreOK
    <3>4. UNCHANGED <<conv, owned>>
      BY <1>23 DEF ListOwned, storage
    <3> QED BY <3>1, <3>3, <3>4 DEF ConvFound
  <2> QED BY <1>23, <2>1, <2>2 DEF ListOwned
<1>24. CASE NextConversation(r)
  <2>1. PICK v \in c.todo :
          call' = [call EXCEPT ![r].pc = "getConv", ![r].conv = v, ![r].todo = @ \ {v}]
    BY <1>24 DEF NextConversation
  <2>2. d.pc = "getConv" /\ d.conv = v /\ d.todo = c.todo \ {v}
    BY <1>0, <2>1 DEF CallRecord
  <2> QED BY <2>1, <2>2 DEF ConvFound
<1> QED BY <1>4, <1>5, <1>6, <1>7, <1>8, <1>9, <1>10, <1>11, <1>12, <1>13, <1>14,
           <1>15, <1>16, <1>17, <1>18, <1>19, <1>20, <1>21, <1>22, <1>23, <1>24 DEF Work, Create, Delete, Observe

(* Nothing is known of an id that has not been generated.                  *)
FreshConvs ==
    \A v \in fresh \cap Conv :
        /\ conv[v] = None
        /\ \A p \in Profile, n \in Name : owned[p][n] # v
        /\ \A r \in Request : call[r].conv # v /\ v \notin call[r].todo

(* A conversation that is being created belongs to that request alone.     *)
Creators ==
    \A r \in Request : call[r].pc \in Creating =>
        /\ call[r].conv \notin fresh
        /\ \A p \in Profile, n \in Name : owned[p][n] # call[r].conv
        /\ \A s \in Request \ {r} : call[s].conv # call[r].conv /\ call[r].conv \notin call[s].todo
        /\ call[r].pc = "saveConv" => conv[call[r].conv] = None
        /\ call[r].pc = "link" =>
              conv[call[r].conv] = [owner |-> call[r].prof, name |-> call[r].name]

(* A conversation is at one place of one map, which is where it belongs.   *)
OwnedOnce ==
    \A p, q \in Profile, n, m \in Name :
        owned[p][n] # None /\ owned[p][n] = owned[q][m] => p = q /\ n = m

OwnedTrue ==
    \A p \in Profile, n \in Name : owned[p][n] # None /\ conv[owned[p][n]] # None =>
        conv[owned[p][n]] = [owner |-> p, name |-> n]

Belongs(v, p) ==
    /\ conv[v] # None => conv[v].owner = p
    /\ \A q \in Profile, n \in Name : owned[q][n] = v => q = p

(* What a request is about to delete belongs to its user.                  *)
Removers ==
    \A r \in Request :
        /\ \A v \in call[r].todo : Belongs(v, call[r].prof)
        /\ call[r].pc \in Removing => Belongs(call[r].conv, call[r].prof)
        /\ call[r].pc \in {"unlink", "deleteConv"} /\ conv[call[r].conv] # None =>
              conv[call[r].conv].name = call[r].name

ConvIds == FreshConvs /\ Creators /\ OwnedOnce /\ OwnedTrue /\ Removers

LEMMA StartKeepsConvs ==
    ASSUME Types, Types', ConvIds, NEW r \in Request, Start(r)
    PROVE  ConvIds'
<1> DEFINE d == call'[r]
<1>1. /\ \A s \in Request \ {r} : call'[s] = call[s]
      /\ UNCHANGED <<conv, owned>> /\ fresh' \subseteq fresh
      /\ d.conv = None /\ d.todo = {} /\ d.pc \notin Creating \cup Removing
  BY StartStarts DEF Starts, Creating, Removing
<1>2. \A s \in Request : call[s].pc \in Creating => call[s].conv \in Conv
  BY DEF Types, CallsTyped, CallTyped
<1>3. FreshConvs'
  BY <1>1, NoneIsNothing DEF ConvIds, FreshConvs
<1>4. Creators'
  BY <1>1, <1>2, NoneIsNothing DEF ConvIds, Creators
<1>5. OwnedOnce' /\ OwnedTrue'
  BY <1>1 DEF ConvIds, OwnedOnce, OwnedTrue
<1>6. Removers'
  BY <1>1 DEF ConvIds, Removers, Belongs, Removing
<1> QED BY <1>3, <1>4, <1>5, <1>6 DEF ConvIds

LEMMA WorkKeepsConvs ==
    ASSUME Types, Types', ConvIds, NEW r \in Request, Work(r)
    PROVE  ConvIds'
<1> DEFINE c == call[r]
           d == call'[r]
           After(v, p) == /\ conv'[v] # None => conv'[v].owner = p
                          /\ \A q \in Profile, n \in Name : owned'[q][n] = v => q = p
<1>0. c \in CallRecord /\ CallTyped(c) /\ StoreOK /\ StoreOK' /\ CallsTyped /\ CallsTyped'
      /\ call \in [Request -> CallRecord] /\ call' \in [Request -> CallRecord]
  BY DEF Types, TypeOK, CallsTyped, StoreOK
<1>1. ConvSteps(r) /\ ConvFound(r) /\ Carries(r)
  BY WorkConvs, WorkFinds, WorkCarries
<1>2. /\ \A s \in Request \ {r} : call'[s] = call[s]
      /\ d = Idle \/ (d.pc # "idle" /\ d.prof = c.prof)
      /\ Idle.pc = "idle" /\ Idle.todo = {} /\ Idle.conv = None
  BY <1>1 DEF Carries, Idle
<1>3. /\ c.pc \in Creating => c.conv \in Conv /\ c.todo = {} /\ c.prof \in Profile /\ c.name \in Name
      /\ c.pc \in Removing => c.prof \in Profile /\ c.conv \in Conv
      /\ d.pc = "getConv" => c.prof \in Profile
      /\ d.todo # {} => c.prof \in Profile
  <2>1. c.pc \in Creating => c.conv \in Conv /\ c.todo = {} /\ c.prof \in Profile /\ c.name \in Name
    BY <1>0 DEF CallTyped, Creating
  <2>2. c.pc \in Removing => c.prof \in Profile /\ c.conv \in Conv
    BY <1>0 DEF CallTyped, Removing
  <2>3. CallTyped(d)
    BY <1>0 DEF CallsTyped
  <2>4. d.pc = "getConv" => c.prof \in Profile
    BY <1>2, <2>3 DEF CallTyped
  <2>5. d.todo # {} => c.prof \in Profile
    BY <1>2, <2>3 DEF CallTyped
  <2> QED BY <2>1, <2>2, <2>4, <2>5
<1>4. \A s \in Request : call[s].conv \in Conv \cup {None} /\ call[s].todo \subseteq Conv
  BY <1>0 DEF CallRecord
<1>5. FreshConvs'
  <2> SUFFICES ASSUME NEW v \in Conv, v \in fresh'
               PROVE  /\ conv'[v] = None
                      /\ \A p \in Profile, n \in Name : owned'[p][n] # v
                      /\ \A s \in Request : call'[s].conv # v /\ v \notin call'[s].todo
    BY DEF FreshConvs
  <2>1. /\ v \in fresh /\ v # None /\ conv[v] = None
        /\ \A p \in Profile, n \in Name : owned[p][n] # v
        /\ \A s \in Request : call[s].conv # v /\ v \notin call[s].todo
    BY <1>1, NoneIsNothing DEF ConvSteps, ConvIds, FreshConvs
  <2>2. conv'[v] = None
    BY <1>1, <2>1 DEF ConvSteps
  <2>3. \A p \in Profile, n \in Name : owned'[p][n] # v
    BY <1>1, <2>1 DEF ConvSteps
  <2>4. d.conv # v
    BY <1>1, <1>3, <2>1 DEF ConvFound, NewConv
  <2>5. v \notin d.todo
    BY <1>1, <1>3, <2>1 DEF ConvFound
  <2> QED BY <1>2, <2>1, <2>2, <2>3, <2>4, <2>5
<1>6. Creators'
  <2> SUFFICES ASSUME NEW s \in Request, call'[s].pc \in Creating
               PROVE  /\ call'[s].conv \notin fresh'
                      /\ \A p \in Profile, n \in Name : owned'[p][n] # call'[s].conv
                      /\ \A t \in Request \ {s} :
                            call'[t].conv # call'[s].conv /\ call'[s].conv \notin call'[t].todo
                      /\ call'[s].pc = "saveConv" => conv'[call'[s].conv] = None
                      /\ call'[s].pc = "link" =>
                            conv'[call'[s].conv] = [owner |-> call'[s].prof, name |-> call'[s].name]
    BY DEF Creators
  <2>1. CASE s # r
    <3> DEFINE w == call[s].conv
    <3>1. call'[s] = call[s] /\ call[s].pc \in Creating /\ w \in Conv
      BY <1>0, <1>2, <2>1 DEF CallsTyped, CallTyped
    <3>2. /\ w \notin fresh
          /\ \A p \in Profile, n \in Name : owned[p][n] # w
          /\ \A t \in Request \ {s} : call[t].conv # w /\ w \notin call[t].todo
      BY <3>1 DEF ConvIds, Creators
    <3>3. w # None /\ w # c.conv /\ w \notin c.todo
      BY <2>1, <3>1, <3>2, NoneIsNothing
    <3>4. w \notin fresh' /\ conv'[w] = conv[w]
      BY <1>1, <3>1, <3>2, <3>3 DEF ConvSteps
    <3>5. \A p \in Profile, n \in Name : owned'[p][n] # w
      BY <1>1, <3>2, <3>3 DEF ConvSteps
    <3>6. d.conv # w
      BY <1>1, <1>3, <3>2, <3>3 DEF ConvFound, NewConv
    <3>7. w \notin d.todo
      BY <1>1, <1>3, <3>2, <3>3 DEF ConvFound
    <3> QED BY <1>2, <3>1, <3>2, <3>4, <3>5, <3>6, <3>7 DEF ConvIds, Creators
  <2>2. CASE s = r /\ NewConv(r)
    BY <1>2, <2>2 DEF NewConv, ConvIds, FreshConvs
  <2>3. CASE s = r /\ ~NewConv(r)
    <3>1. /\ c.pc \in Creating /\ d.conv = c.conv /\ d.name = c.name /\ owned' = owned
          /\ d.pc # "saveConv"
          /\ d.pc = "link" => conv'[c.conv] = [owner |-> c.prof, name |-> c.name]
      BY <1>1, <2>3 DEF ConvSteps, Creating
    <3>2. c.conv \notin fresh' /\ d.prof = c.prof
      BY <1>1, <1>2, <2>3, <3>1 DEF ConvIds, Creators, ConvSteps, Creating
    <3> QED BY <1>2, <2>3, <3>1, <3>2 DEF ConvIds, Creators
  <2> QED BY <2>1, <2>2, <2>3
<1>7. ASSUME NEW p \in Profile, NEW n \in Name, owned'[p][n] # None
      PROVE  \/ owned'[p][n] = owned[p][n]
             \/ p = c.prof /\ n = c.name /\ c.pc = "link" /\ owned'[p][n] = c.conv
  BY <1>1, <1>7 DEF ConvSteps
<1>8. c.pc = "link" => \A p \in Profile, n \in Name : owned[p][n] # c.conv
  BY DEF ConvIds, Creators, Creating
<1>9. OwnedOnce'
  <2> SUFFICES ASSUME NEW p \in Profile, NEW q \in Profile, NEW n \in Name, NEW m \in Name,
                      owned'[p][n] # None, owned'[p][n] = owned'[q][m]
               PROVE  p = q /\ n = m
    BY DEF OwnedOnce
  <2> QED BY <1>7, <1>8 DEF ConvIds, OwnedOnce
<1>10. OwnedTrue'
  <2> SUFFICES ASSUME NEW p \in Profile, NEW n \in Name,
                      owned'[p][n] # None, conv'[owned'[p][n]] # None
               PROVE  conv'[owned'[p][n]] = [owner |-> p, name |-> n]
    BY DEF OwnedTrue
  <2>1. owned'[p][n] \in Conv
    BY <1>0 DEF StoreOK
  <2>2. CASE owned'[p][n] = owned[p][n]
    <3>1. conv'[owned[p][n]] = conv[owned[p][n]]
      BY <1>1, <2>1, <2>2 DEF ConvSteps, ConvIds, Creators, Creating
    <3> QED BY <2>2, <3>1 DEF ConvIds, OwnedTrue
  <2>3. CASE p = c.prof /\ n = c.name /\ c.pc = "link" /\ owned'[p][n] = c.conv
    <3>1. conv[c.conv] = [owner |-> c.prof, name |-> c.name]
      BY <2>3 DEF ConvIds, Creators, Creating
    <3>2. conv'[c.conv] = conv[c.conv]
      BY <1>1, <2>1, <2>3 DEF ConvSteps
    <3> QED BY <2>3, <3>1, <3>2
  <2> QED BY <1>7, <2>2, <2>3
<1>11. ASSUME NEW v \in Conv, NEW p \in Profile, Belongs(v, p),
              c.pc \in Creating => v # c.conv
       PROVE  After(v, p)
  <2>1. conv'[v] # None => conv'[v].owner = p
    BY <1>1, <1>11 DEF ConvSteps, Belongs, Creating
  <2>2. \A q \in Profile, n \in Name : owned'[q][n] = v => q = p
    BY <1>7, <1>11, NoneIsNothing DEF Belongs, Creating
  <2> QED BY <2>1, <2>2 DEF Belongs
<1>12. ASSUME NEW n \in Name, c.prof \in Profile, owned[c.prof][n] # None
       PROVE  owned[c.prof][n] \in Conv /\ Belongs(owned[c.prof][n], c.prof)
  <2>1. owned[c.prof][n] \in Conv
    BY <1>0, <1>12 DEF StoreOK
  <2>2. conv[owned[c.prof][n]] # None =>
          conv[owned[c.prof][n]] = [owner |-> c.prof, name |-> n]
    BY <1>12 DEF ConvIds, OwnedTrue
  <2> QED BY <1>12, <2>1, <2>2 DEF ConvIds, OwnedOnce, Belongs
<1>13. Removers'
  <2> SUFFICES ASSUME NEW s \in Request
               PROVE  /\ \A v \in call'[s].todo : After(v, call'[s].prof)
                      /\ call'[s].pc \in Removing => After(call'[s].conv, call'[s].prof)
                      /\ call'[s].pc \in {"unlink", "deleteConv"} /\ conv'[call'[s].conv] # None =>
                            conv'[call'[s].conv].name = call'[s].name
    BY DEF Removers, Belongs
  <2>1. CASE s # r
    <3>1. call'[s] = call[s]
      BY <1>2, <2>1
    <3>2. c.pc \in Creating => call[s].conv # c.conv /\ c.conv \notin call[s].todo
      BY <2>1 DEF ConvIds, Creators
    <3>3. CallTyped(call[s]) /\ call[s] \in CallRecord
      BY <1>0 DEF CallsTyped
    <3>4. ASSUME NEW v \in call[s].todo
          PROVE  After(v, call[s].prof)
      <4>1. v \in Conv /\ call[s].prof \in Profile
        BY <1>2, <3>3, <1>4 DEF CallTyped
      <4> QED BY <1>11, <3>2, <4>1 DEF ConvIds, Removers
    <3>5. ASSUME call[s].pc \in Removing
          PROVE  After(call[s].conv, call[s].prof)
      <4>1. call[s].conv \in Conv /\ call[s].prof \in Profile
        BY <3>3, <3>5 DEF CallTyped, Removing
      <4> QED BY <1>11, <3>2, <3>5, <4>1 DEF ConvIds, Removers
    <3>6. call[s].pc \in {"unlink", "deleteConv"} /\ conv'[call[s].conv] # None =>
             conv'[call[s].conv] = conv[call[s].conv]
      <4>1. call[s].pc \in {"unlink", "deleteConv"} => call[s].conv \in Conv
        BY <3>3 DEF CallTyped, Removing
      <4> QED BY <1>1, <3>2, <4>1 DEF ConvSteps, Creating
    <3> QED BY <3>1, <3>4, <3>5, <3>6 DEF ConvIds, Removers
  <2>2. CASE s = r
    <3>1. ASSUME NEW v \in d.todo
          PROVE  After(v, d.prof)
      <4>1. d.prof = c.prof /\ c.prof \in Profile /\ v \in Conv
        BY <1>0, <1>2, <1>3, <3>1 DEF CallRecord
      <4>2. CASE v \in c.todo
        BY <1>3, <1>11, <4>1, <4>2 DEF ConvIds, Removers
      <4>3. CASE UNCHANGED <<conv, owned>> /\ \E n \in Name : v = owned[c.prof][n]
        <5>1. Belongs(v, c.prof)
          BY <1>12, <4>1, <4>3, NoneIsNothing
        <5> QED BY <4>1, <4>3, <5>1 DEF Belongs
      <4> QED BY <1>1, <3>1, <4>2, <4>3 DEF ConvFound
    <3>2. CASE d.pc \notin Removing
      BY <2>2, <3>1, <3>2 DEF Removing
    <3>3. CASE d.pc = "getConv"
      <4>1. CallTyped(d)
        BY <1>0 DEF CallsTyped
      <4>2. d.prof = c.prof /\ c.prof \in Profile /\ d.conv \in Conv
        BY <1>2, <1>3, <3>3, <4>1 DEF CallTyped, Removing
      <4>3. conv' = conv /\ owned' = owned
        BY <1>1, <3>3 DEF ConvSteps, Removing
      <4>4. Belongs(d.conv, c.prof)
        <5>1. CASE d.conv \in c.todo
          BY <5>1 DEF ConvIds, Removers
        <5>2. CASE \E n \in Name : d.conv = owned[c.prof][n]
          BY <1>12, <4>2, <5>2, NoneIsNothing
        <5> QED BY <1>1, <3>3, <5>1, <5>2 DEF ConvFound
      <4>5. After(d.conv, d.prof)
        BY <4>2, <4>3, <4>4 DEF Belongs
      <4> QED BY <2>2, <3>1, <3>3, <4>5
    <3>4. CASE d.pc \in {"unlink", "deleteConv"}
      <4>1. /\ d.conv = c.conv /\ c.pc \in {"getConv", "unlink"} /\ conv' = conv
            /\ d.pc = "unlink" => d.name = conv[c.conv].name
            /\ d.pc = "deleteConv" => c.pc = "unlink" /\ d.name = c.name
        BY <1>1, <3>4 DEF ConvSteps, Removing
      <4>2. d.prof = c.prof
        BY <1>2, <3>4
      <4>3. c.pc \in Removing /\ c.pc \notin Creating
        BY <4>1 DEF Removing, Creating
      <4>4. After(c.conv, c.prof)
        BY <1>3, <1>11, <4>3 DEF ConvIds, Removers
      <4>5. After(d.conv, d.prof)
        BY <4>1, <4>2, <4>4 DEF Belongs
      <4>6. conv'[d.conv] # None => conv'[d.conv].name = d.name
        BY <3>4, <4>1 DEF ConvIds, Removers
      <4> QED BY <2>2, <3>1, <4>5, <4>6
    <3> QED BY <3>2, <3>3, <3>4 DEF Removing
  <2> QED BY <2>1, <2>2
<1> QED BY <1>5, <1>6, <1>9, <1>10, <1>13 DEF ConvIds

-----------------------------------------------------------------------------
(* What follows from whose an id is                                        *)

Ids == Types /\ ProfileIds /\ ConvIds

LEMMA IdsInit == Init => Ids
<1> SUFFICES ASSUME Init PROVE Ids
  OBVIOUS
<1>1. Types
  BY TypesInit
<1>2. \A r \in Request : /\ call[r].op = None /\ call[r].prof = None /\ call[r].email = None
                         /\ call[r].conv = None /\ call[r].todo = {} /\ call[r].pc = "idle"
  BY DEF Init, Idle
<1>3. FreshProfiles
  BY <1>2, NoneIsNothing DEF Init, FreshProfiles
<1>4. Launches /\ UsersKnown
  BY <1>2, NoneIsNothing DEF Init, Launches, UsersKnown, ForUser, Operation, NoHistory, Unchanged
<1>5. OneEmail
  BY <1>2, NoneIsNothing DEF Init, OneEmail, Claims
<1>6. FreshConvs
  BY <1>2, NoneIsNothing DEF Init, FreshConvs
<1>7. Creators /\ OwnedOnce /\ OwnedTrue
  BY <1>2 DEF Init, Creators, Creating, OwnedOnce, OwnedTrue
<1>8. Removers
  BY <1>2 DEF Init, Removers, Removing
<1> QED BY <1>1, <1>3, <1>4, <1>5, <1>6, <1>7, <1>8 DEF Ids, ProfileIds, ConvIds

LEMMA IdsStep == Ids /\ [Next]_vars => Ids'
<1> SUFFICES ASSUME Ids, [Next]_vars PROVE Ids'
  OBVIOUS
<1>1. Types'
  BY TypesStep DEF Ids
<1>2. CASE UNCHANGED vars
  <2>1. UNCHANGED <<profile, emails, conv, owned, call, users, fresh, history>>
    BY <1>2 DEF vars, storage, ids
  <2>2. ProfileIds'
    BY <2>1 DEF Ids, ProfileIds, FreshProfiles, Launches, UsersKnown, OneEmail, Claims
  <2>3. ConvIds'
    BY <2>1 DEF Ids, ConvIds, FreshConvs, Creators, OwnedOnce, OwnedTrue, Removers, Belongs
  <2> QED BY <1>1, <2>2, <2>3 DEF Ids
<1>3. ASSUME NEW r \in Request, Start(r)
      PROVE  Ids'
  BY <1>1, <1>3, StartKeepsProfiles, StartKeepsConvs DEF Ids
<1>4. ASSUME NEW r \in Request, Work(r)
      PROVE  Ids'
  BY <1>1, <1>4, WorkKeepsProfiles, WorkKeepsConvs DEF Ids
<1> QED BY <1>2, <1>3, <1>4, NextSteps

(* Failures are not forgotten, and one that has not happened by the end of *)
(* a step did not happen in it.                                            *)
LEMMA FaultsStay ==
    ASSUME Types, NEW r \in Request, Start(r) \/ Work(r)
    PROVE  failed \subseteq failed' /\ \A kind : Fault(kind) => kind \in failed'
<1>1. \A kind : Fault(kind) => kind \in failed' /\ failed \subseteq failed'
  BY DEF Fault
<1>2. CASE Start(r)
  BY <1>1, <1>2 DEF Start, Launch, Relaunch, ReadActivity, Authenticate
<1>3. CASE Create(r)
  BY <1>1, <1>3 DEF Create, SaveProfile, SetEmailProfile, CleanEmail, CleanProfile, LookupName,
     SaveConversation, AddOwnedConversation, CleanConversation
<1>4. CASE Delete(r)
  BY <1>1, <1>4 DEF Delete, FindConversation, GetConversation, RemoveOwnedConversation,
     DeleteConversation, RemoveEmailProfile, ListOwned, NextConversation, DeleteProfile
<1>5. CASE Observe(r) \/ Crash(r) \/ \E f \in Field : PatchProfile(r, f)
  BY <1>1, <1>5 DEF Observe, AuthenticateLaunch, ObserveClientLaunch, SaveActivity, Crash,
     PatchProfile
<1> QED BY <1>1, <1>2, <1>3, <1>4, <1>5 DEF Work

-----------------------------------------------------------------------------
(* Mappings *)

(* The user's email is no longer mapped. *)
UserGoes(c) == c.op = "deleteUser" /\ c.pc # "deleteUser"

(* Unless a command fails, what is mapped to is there, as nothing is       *)
(* deleted before the mapping to it.                                       *)
Resolve ==
    "command" \notin failed =>
        /\ \A e \in Email : emails[e] # None => profile[emails[e]] # None
        /\ \A p \in Profile, n \in Name : owned[p][n] # None => conv[owned[p][n]] # None
        /\ \A r \in Request :
             /\ call[r].pc \notin {"cleanEmail", "cleanProfile", "cleanConv"}
             /\ UserGoes(call[r]) => \A e \in Email : emails[e] # call[r].prof
             /\ call[r].pc = "deleteConv" =>
                   \A p \in Profile, n \in Name : owned[p][n] # call[r].conv

LEMMA ResolveInit == Init => Resolve
<1> SUFFICES ASSUME Init PROVE Resolve
  OBVIOUS
<1>1. \A r \in Request : call[r].pc = "idle" /\ call[r].op = None
  BY DEF Init, Idle
<1> QED BY <1>1, NoneIsNothing DEF Init, Resolve, UserGoes, Operation

LEMMA StartKeepsResolve ==
    ASSUME Ids, Resolve, NEW r \in Request, Start(r)
    PROVE  Resolve'
<1>1. Starts(r) /\ failed \subseteq failed'
  BY StartStarts, FaultsStay DEF Ids
<1>2. \A s \in Request \ {r} : call'[s] = call[s]
  BY <1>1 DEF Starts
<1>3. /\ call'[r].pc \notin {"cleanEmail", "cleanProfile", "cleanConv", "deleteConv"}
      /\ ~UserGoes(call'[r])
  BY <1>1 DEF Starts, UserGoes
<1> QED BY <1>1, <1>2, <1>3 DEF Starts, Resolve, UserGoes

LEMMA WorkKeepsResolve ==
    ASSUME Ids, Ids', Resolve, NEW r \in Request, Work(r)
    PROVE  Resolve'
<1> DEFINE c == call[r]
           d == call'[r]
<1> SUFFICES ASSUME "command" \notin failed'
             PROVE  Resolve'
  BY DEF Resolve
<1>0. /\ c \in CallRecord /\ CallTyped(c) /\ StoreOK /\ CallsTyped
      /\ call \in [Request -> CallRecord] /\ ProfileIds /\ ConvIds
  BY DEF Ids, Types, TypeOK, CallsTyped, StoreOK
<1>1. /\ "command" \notin failed /\ ~Fault("command")
      /\ Carries(r) /\ Arrives(r) /\ ProfileSteps(r) /\ ConvSteps(r)
      /\ Idle.pc = "idle" /\ Idle.op = None
  BY FaultsStay, WorkCarries, WorkArrives, WorkProfiles, WorkConvs DEF Ids, Idle
<1>2. /\ \A e \in Email : emails[e] # None => profile[emails[e]] # None
      /\ \A p \in Profile, n \in Name : owned[p][n] # None => conv[owned[p][n]] # None
      /\ \A s \in Request :
             /\ call[s].pc \notin {"cleanEmail", "cleanProfile", "cleanConv"}
             /\ UserGoes(call[s]) => \A e \in Email : emails[e] # call[s].prof
             /\ call[s].pc = "deleteConv" =>
                   \A p \in Profile, n \in Name : owned[p][n] # call[s].conv
  BY <1>1 DEF Resolve
<1>3. \A s \in Request \ {r} : call'[s] = call[s]
  BY <1>1 DEF Carries
<1>4. ASSUME NEW e \in Email, emails'[e] # None
      PROVE  profile'[emails'[e]] # None
  <2>1. CASE SetEmailProfile(r)
    <3>1. c.pc = "mapEmail" /\ emails' = SetMapValue(emails, c.email, c.prof) /\ profile' = profile
      BY <1>1, <2>1 DEF SetEmailProfile
    <3>2. profile[c.prof] # None
      BY <1>0, <3>1 DEF CallTyped, Making, ProfileIds, Launches
    <3> QED BY <1>0, <1>2, <1>4, <3>1, <3>2 DEF SetMapValue, StoreOK
  <2>2. CASE ~SetEmailProfile(r)
    <3>1. emails'[e] = emails[e]
      BY <1>0, <1>4, <2>2, WorkChanges DEF CleanEmail, RemoveEmailProfile, MapRemoveKey, StoreOK
    <3>2. emails[e] \in Profile /\ profile[emails[e]] # None
      BY <1>0, <1>2, <1>4, <3>1 DEF StoreOK
    <3>3. CASE SaveProfile(r)
      <4>1. /\ c.prof \in Profile /\ c.email \in Email
            /\ profile' = StoreObject(profile, c.prof, [email |-> c.email, fields |-> Unchanged,
                                                      usable |-> TRUE])
        BY <1>0, <1>1, <3>3 DEF SaveProfile, CallTyped, Making
      <4>2. [email |-> c.email, fields |-> Unchanged, usable |-> TRUE] \in ProfileRecord
        BY <4>1 DEF ProfileRecord, Fields, Unchanged
      <4> QED BY <1>0, <3>1, <3>2, <4>1, <4>2, NoneIsNothing DEF StoreObject, StoreOK
    <3>4. CASE CleanProfile(r)
      BY <1>2, <3>4 DEF CleanProfile
    <3>5. CASE DeleteProfile(r)
      <4>1. UserGoes(c)
        BY <1>0, <3>5 DEF DeleteProfile, CallTyped, UserGoes
      <4>2. emails[e] # c.prof
        BY <1>2, <4>1
      <4> QED BY <1>0, <1>1, <3>1, <3>2, <4>2 DEF ProfileSteps
    <3>6. ASSUME NEW f \in Field, PatchProfile(r, f)
          PROVE  profile'[emails[e]] # None
      <4>1. c.prof \in Profile /\ c.email \in Email /\ c.fields \in Fields
        BY <1>0, <3>6 DEF PatchProfile, CallTyped, CallRecord
      <4>2. PICK ok \in BOOLEAN : profile' = StoreObject(profile, c.prof, Patched(c, f, ok))
        BY <1>1, <3>6 DEF PatchProfile
      <4>3. Patched(c, f, ok) \in ProfileRecord
        BY <4>1 DEF Patched, ProfileRecord, Fields
      <4> QED BY <1>0, <3>2, <4>1, <4>2, <4>3, NoneIsNothing DEF StoreObject, StoreOK
    <3> QED BY <3>1, <3>2, <3>3, <3>4, <3>5, <3>6, WorkChanges
  <2> QED BY <2>1, <2>2
<1>5. ASSUME NEW p \in Profile, NEW n \in Name, owned'[p][n] # None
      PROVE  conv'[owned'[p][n]] # None
  <2>1. owned'[p][n] \in Conv
    BY <1>5 DEF Ids, Types, TypeOK
  <2>2. conv[owned'[p][n]] # None
    <3>1. CASE owned'[p][n] = owned[p][n]
      BY <1>2, <1>5, <3>1
    <3>2. CASE c.pc = "link" /\ owned'[p][n] = c.conv
      <4>1. c.prof \in Profile /\ c.name \in Name
        BY <1>0, <3>2 DEF CallTyped, Creating
      <4>2. [owner |-> c.prof, name |-> c.name] # None
        BY <4>1, NoneIsNothing DEF ConvRecord
      <4> QED BY <1>0, <3>2, <4>2 DEF ConvIds, Creators, Creating
    <3> QED BY <1>1, <1>5, <3>1, <3>2 DEF ConvSteps
  <2>3. CASE SaveConversation(r)
    <3>1. /\ c.conv \in Conv /\ c.prof \in Profile /\ c.name \in Name
          /\ conv' = StoreObject(conv, c.conv, [owner |-> c.prof, name |-> c.name])
          \/ conv' = conv
      BY <1>0, <2>3 DEF SaveConversation, CallTyped, Creating
    <3>2. c.prof \in Profile /\ c.name \in Name => [owner |-> c.prof, name |-> c.name] # None
      BY NoneIsNothing DEF ConvRecord
    <3> QED BY <1>0, <2>1, <2>2, <3>1, <3>2 DEF StoreObject, StoreOK
  <2>4. CASE CleanConversation(r)
    BY <1>2, <2>4 DEF CleanConversation
  <2>5. CASE DeleteConversation(r)
    <3>1. owned' = owned /\ owned[p][n] # c.conv
      BY <1>2, <2>5 DEF DeleteConversation
    <3> QED BY <1>1, <2>1, <2>2, <3>1 DEF ConvSteps
  <2> QED BY <2>2, <2>3, <2>4, <2>5, WorkChanges
<1>6. ASSUME NEW s \in Request
      PROVE  call'[s].pc \notin {"cleanEmail", "cleanProfile", "cleanConv"}
  <2>1. d.pc # "cleanProfile"
    BY <1>1, <1>2 DEF Arrives, CleanEmail
  <2>2. d.pc # "cleanConv"
    <3>1. CASE AddOwnedConversation(r)
      <4>1. Answer(r) \/ GoTo(r, "observe")
        BY <1>1, <3>1 DEF AddOwnedConversation
      <4> QED BY <1>0, <1>1, <4>1 DEF Answer, GoTo, CallRecord
    <3> QED BY <1>1, <3>1 DEF Arrives
  <2>3. d.pc # "cleanEmail"
    <3>1. CASE SetEmailProfile(r)
      <4>1. PICK v : call' = [call EXCEPT ![r].pc = "saveConv", ![r].conv = v, ![r].name = FirstName]
        BY <1>1, <3>1 DEF SetEmailProfile
      <4> QED BY <1>0, <4>1 DEF CallRecord
    <3>2. CASE SaveConversation(r)
      <4>1. GoTo(r, "link")
        BY <1>1, <3>2 DEF SaveConversation
      <4> QED BY <1>0, <4>1 DEF GoTo, CallRecord
    <3>3. ~CleanConversation(r)
      BY <1>2 DEF CleanConversation
    <3> QED BY <1>1, <3>1, <3>2, <3>3 DEF Arrives
  <2> QED BY <1>2, <1>3, <2>1, <2>2, <2>3
<1>7. ASSUME NEW s \in Request, UserGoes(call'[s]), NEW e \in Email
      PROVE  emails'[e] # call'[s].prof
  <2>1. CASE s # r
    <3>1. call'[s] = call[s] /\ UserGoes(call[s])
      BY <1>3, <1>7, <2>1
    <3>2. call[s].prof # None /\ emails[e] # call[s].prof
      <4>1. call[s].prof \in users
        BY <1>0, <3>1 DEF ProfileIds, UsersKnown, ForUser, UserGoes
      <4> QED BY <1>0, <1>2, <3>1, <4>1, NoneIsNothing DEF StoreOK
    <3>3. CASE SetEmailProfile(r)
      <4>1. c.op = "launch"
        BY <1>0, <3>3 DEF SetEmailProfile, CallTyped, Making
      <4>2. call[s].prof # c.prof
        BY <1>0, <2>1, <4>1 DEF ProfileIds, Launches
      <4> QED BY <1>1, <3>1, <3>2, <4>2 DEF ProfileSteps
    <3>4. CASE ~SetEmailProfile(r)
      BY <1>0, <3>1, <3>2, <3>4, WorkChanges DEF CleanEmail, RemoveEmailProfile, MapRemoveKey, StoreOK
    <3> QED BY <3>3, <3>4
  <2>2. CASE s = r
    <3>1. d.op = "deleteUser" /\ d.pc # "deleteUser" /\ d # Idle
      BY <1>1, <1>7, <2>2, NoneIsNothing DEF UserGoes, Operation
    <3>2. c.op = "deleteUser" /\ d.prof = c.prof /\ c.prof \in Profile
      <4>1. c.op = "deleteUser" /\ d.prof = c.prof
        BY <1>1, <3>1 DEF Carries
      <4>2. c.prof \in users
        BY <1>0, <4>1 DEF ProfileIds, UsersKnown, ForUser
      <4> QED BY <1>0, <4>1, <4>2 DEF StoreOK
    <3>3. CASE d.pc = "list"
      <4>1. RemoveEmailProfile(r)
        BY <1>1, <3>3 DEF Arrives
      <4>2. emails' = MapRemoveKey(emails, c.email)
        BY <1>1, <4>1 DEF RemoveEmailProfile
      <4>3. ASSUME emails[e] = c.prof PROVE e = c.email
        <5>1. c.email \in Email
          BY <1>0, <3>2 DEF CallTyped
        <5>2. Claims(c.prof, e) /\ Claims(c.prof, c.email)
          BY <4>3 DEF Claims
        <5> QED BY <1>0, <3>2, <5>1, <5>2 DEF ProfileIds, OneEmail
      <4> QED BY <1>0, <2>2, <3>2, <4>2, <4>3, NoneIsNothing DEF MapRemoveKey, StoreOK
    <3>4. CASE d.pc # "list"
      <4>1. c.pc \notin {"deleteUser", "mapEmail", "cleanEmail"}
        <5>1. CallTyped(d) /\ d.pc # "idle"
          BY <1>1, <3>1 DEF Ids, Types, CallsTyped, Carries
        <5>2. d.pc \in {"getConv", "unlink", "deleteConv", "next"}
          <6>1. d.pc \in Place
            BY DEF Ids, Types, TypeOK, CallRecord
          <6> QED BY <1>1, <3>1, <3>4, <5>1, <6>1 DEF Place, CallTyped, Making, Creating, Arrives
        <5> QED BY <1>1, <5>2 DEF Arrives, FindConversation, NextConversation, GetConversation,
               RemoveOwnedConversation, DeleteConversation, ListOwned
      <4>2. UserGoes(c)
        BY <3>2, <4>1 DEF UserGoes
      <4>3. emails' = emails
        BY <4>1, WorkChanges DEF SetEmailProfile, CleanEmail, RemoveEmailProfile
      <4> QED BY <1>2, <2>2, <3>2, <4>2, <4>3
    <3> QED BY <3>3, <3>4
  <2> QED BY <2>1, <2>2
<1>8. ASSUME NEW s \in Request, call'[s].pc = "deleteConv", NEW p \in Profile, NEW n \in Name
      PROVE  owned'[p][n] # call'[s].conv
  <2>1. CASE s # r
    <3>1. call'[s] = call[s] /\ call[s].conv \in Conv /\ owned[p][n] # call[s].conv
      BY <1>0, <1>2, <1>3, <1>8, <2>1 DEF CallsTyped, CallTyped, Removing
    <3>2. c.pc = "link" => call[s].conv # c.conv
      BY <1>0, <2>1 DEF ConvIds, Creators, Creating
    <3> QED BY <1>1, <3>1, <3>2, NoneIsNothing DEF ConvSteps
  <2>2. CASE s = r
    <3>1. RemoveOwnedConversation(r)
      BY <1>1, <1>8, <2>2 DEF Arrives
    <3>2. /\ c.pc = "unlink" /\ d.conv = c.conv
          /\ owned' = [owned EXCEPT ![c.prof] = MapRemoveKey(@, c.name)]
      BY <1>1, <1>8, <2>2, <3>1 DEF RemoveOwnedConversation, ConvSteps, Removing
    <3>3. c.prof \in Profile /\ c.conv \in Conv
      BY <1>0, <3>2 DEF CallTyped, Removing
    <3>4. ASSUME owned[p][n] = c.conv
          PROVE  p = c.prof /\ n = c.name
      <4>1. p = c.prof
        BY <1>0, <3>2, <3>4 DEF ConvIds, Removers, Removing, Belongs
      <4>2. conv[c.conv] = [owner |-> p, name |-> n]
        BY <1>0, <1>2, <3>3, <3>4, NoneIsNothing DEF ConvIds, OwnedTrue
      <4>3. conv[c.conv].name = c.name
        BY <1>0, <1>2, <3>2, <3>3, <3>4, NoneIsNothing DEF ConvIds, Removers
      <4> QED BY <4>1, <4>2, <4>3
    <3> QED BY <1>0, <2>2, <3>2, <3>3, <3>4, NoneIsNothing DEF MapRemoveKey, StoreOK
  <2> QED BY <2>1, <2>2
<1> QED BY <1>4, <1>5, <1>6, <1>7, <1>8 DEF Resolve

LEMMA ResolveStep == Ids /\ Resolve /\ [Next]_vars => Resolve'
<1> SUFFICES ASSUME Ids, Resolve, [Next]_vars PROVE Resolve'
  OBVIOUS
<1>1. CASE UNCHANGED vars
  BY <1>1 DEF vars, storage, ids, Resolve, UserGoes
<1>2. Ids'
  BY IdsStep
<1> QED BY <1>1, <1>2, StartKeepsResolve, WorkKeepsResolve, NextSteps

(* However requests interleave and wherever one of them crashes, what is   *)
(* mapped to is there and is what the mapping says: a launch is not sent   *)
(* to authenticate against nothing, and no name leads to a conversation of *)
(* another owner, unless a command fails.                                  *)
THEOREM MappingsAlwaysResolve == Spec => []MappingsResolve
<1>1. Ids /\ Resolve => MappingsResolve
  <2> SUFFICES ASSUME Ids, Resolve, "command" \notin failed
               PROVE  /\ \A e \in Email : emails[e] # None =>
                            profile[emails[e]] # None /\ profile[emails[e]].email = e
                      /\ \A p \in Profile, n \in Name : owned[p][n] # None =>
                            conv[owned[p][n]] = [owner |-> p, name |-> n]
    BY DEF MappingsResolve
  <2>1. ASSUME NEW e \in Email, emails[e] # None
        PROVE  profile[emails[e]] # None /\ profile[emails[e]].email = e
    <3>1. emails[e] \in Profile /\ profile[emails[e]] # None
      BY <2>1 DEF Ids, Types, TypeOK, Resolve
    <3>2. profile[emails[e]].email \in Email
      BY <3>1 DEF Ids, Types, TypeOK, ProfileRecord
    <3>3. Claims(emails[e], e) /\ Claims(emails[e], profile[emails[e]].email)
      BY <3>1 DEF Claims
    <3> QED BY <3>1, <3>2, <3>3 DEF Ids, ProfileIds, OneEmail
  <2>2. ASSUME NEW p \in Profile, NEW n \in Name, owned[p][n] # None
        PROVE  conv[owned[p][n]] = [owner |-> p, name |-> n]
    BY <2>2 DEF Ids, ConvIds, OwnedTrue, Resolve
  <2> QED BY <2>1, <2>2
<1> QED BY <1>1, IdsInit, IdsStep, ResolveInit, ResolveStep, PTL DEF Spec

-----------------------------------------------------------------------------
(* One request at a time *)

Alone == ~overlap => \A r, s \in Request : call[r].pc # "idle" /\ call[s].pc # "idle" => r = s

(* What a patch has loaded is what is stored, and has the fields that were *)
(* patched before.                                                         *)
Patches ==
    ~overlap =>
        /\ \A p \in Profile, f \in Field :
              profile[p] # None /\ history.patched[p][f] => profile[p].fields[f]
        /\ \A r \in Request : call[r].pc = "patch" =>
              profile[call[r].prof] # None /\ profile[call[r].prof].fields = call[r].fields

LEMMA StartAlone ==
    ASSUME Types, NEW r \in Request, Start(r), ~overlap'
    PROVE  ~overlap /\ history' = history /\ \A s \in Request : call[s].pc = "idle"
<1>1. Begin(r)
  BY DEF Start, Launch, Relaunch, ReadActivity, Authenticate
<1> QED BY <1>1 DEF Begin, Busy, Types, TypeOK

LEMMA WorkAlone ==
    ASSUME Types, Alone, NEW r \in Request, Work(r), ~overlap'
    PROVE  ~overlap /\ \A s \in Request \ {r} : call[s].pc = "idle" /\ call'[s].pc = "idle"
<1>1. Carries(r) /\ overlap' = overlap
  BY WorkCarries, WorkChanges
<1> QED BY <1>1 DEF Carries, Alone

LEMMA AloneStep == Types /\ Alone /\ [Next]_vars => Alone'
<1> SUFFICES ASSUME Types, Alone, [Next]_vars PROVE Alone'
  OBVIOUS
<1>1. CASE UNCHANGED vars
  BY <1>1 DEF vars, Alone
<1>2. ASSUME NEW r \in Request, Start(r), ~overlap'
      PROVE  Alone'
  BY <1>2, StartAlone, StartStarts DEF Starts, Alone
<1>3. ASSUME NEW r \in Request, Work(r), ~overlap'
      PROVE  Alone'
  BY <1>3, WorkAlone DEF Alone
<1>4. CASE overlap'
  BY <1>4 DEF Alone
<1> QED BY <1>1, <1>2, <1>3, <1>4, NextSteps

LEMMA PatchesStep == Ids /\ Alone /\ Patches /\ [Next]_vars => Patches'
<1> SUFFICES ASSUME Ids, Alone, Patches, [Next]_vars, ~overlap' PROVE Patches'
  BY DEF Patches
<1>0. StoreOK /\ CallsTyped /\ Types
  BY DEF Ids, Types, TypeOK, StoreOK
<1>1. CASE UNCHANGED vars
  BY <1>1 DEF vars, storage, Patches
<1>2. ASSUME NEW r \in Request, Start(r)
      PROVE  Patches'
  <2>1. Starts(r) /\ ~overlap /\ history' = history
    BY <1>0, <1>2, StartStarts, StartAlone
  <2>2. call'[r].pc = "patch" => /\ profile[call'[r].prof] # None
                                 /\ profile[call'[r].prof].fields = call'[r].fields
    BY <2>1 DEF Starts
  <2>3. profile' = profile /\ \A s \in Request \ {r} : call'[s] = call[s]
    BY <2>1 DEF Starts
  <2> QED BY <2>1, <2>2, <2>3 DEF Patches
<1>3. ASSUME NEW r \in Request, Work(r)
      PROVE  Patches'
  <2> DEFINE c == call[r]
  <2>1. /\ ~overlap /\ Arrives(r) /\ CallTyped(c)
        /\ \A s \in Request \ {r} : call'[s].pc = "idle"
    BY <1>0, <1>3, WorkAlone, WorkArrives DEF CallsTyped
  <2>2. \A s \in Request : call'[s].pc # "patch"
    BY <2>1 DEF Arrives
  <2>3. /\ \A p \in Profile, f \in Field :
             profile[p] # None /\ history.patched[p][f] => profile[p].fields[f]
        /\ call[r].pc = "patch" =>
              profile[call[r].prof] # None /\ profile[call[r].prof].fields = call[r].fields
    BY <2>1 DEF Patches
  <2>4. ASSUME NEW p \in Profile, NEW g \in Field, profile'[p] # None, history'.patched[p][g]
        PROVE  profile'[p].fields[g]
    <3>1. CASE \E f \in Field : PatchProfile(r, f)
      <4>1. PICK f \in Field : PatchProfile(r, f)
        BY <3>1
      <4>2. c.pc = "patch" /\ c.prof \in Profile
        BY <2>1, <4>1 DEF PatchProfile, CallTyped
      <4>3. CASE UNCHANGED <<profile, history>>
        BY <2>3, <2>4, <4>3
      <4>4. ASSUME NEW ok, profile' = StoreObject(profile, c.prof, Patched(c, f, ok)),
                   history' = [history EXCEPT !.patched[c.prof][f] = TRUE]
            PROVE  profile'[p].fields[g]
        <5>1. c.fields \in Fields
          BY <1>0 DEF Types, TypeOK, CallRecord
        <5>2. CASE p = c.prof /\ g = f
          BY <1>0, <4>2, <4>4, <5>1, <5>2 DEF StoreObject, Patched, StoreOK, Fields
        <5>3. CASE p = c.prof /\ g # f
          <6>1. history.patched[p][g]
            BY <1>0, <2>4, <4>2, <4>4, <5>3 DEF StoreOK, Fields
          <6>2. c.fields[g]
            BY <2>3, <4>2, <5>3, <6>1
          <6> QED BY <1>0, <4>2, <4>4, <5>1, <5>3, <6>2 DEF StoreObject, Patched, StoreOK, Fields
        <5>4. CASE p # c.prof
          <6>1. history.patched[p][g] /\ profile'[p] = profile[p]
            BY <1>0, <2>4, <4>2, <4>4, <5>4 DEF StoreOK, Fields, StoreObject
          <6> QED BY <2>3, <2>4, <6>1
        <5> QED BY <5>2, <5>3, <5>4
      <4> QED BY <2>1, <4>1, <4>3, <4>4 DEF PatchProfile, Note
    <3>2. CASE SaveProfile(r)
      <4>1. c.op = "launch" /\ history' = history
        BY <2>1, <3>2 DEF SaveProfile, CallTyped, Making
      <4>2. p # c.prof
        BY <2>4, <4>1 DEF Ids, ProfileIds, Launches, UsersKnown
      <4>3. profile'[p] = profile[p]
        BY <1>0, <1>3, <4>2, WorkProfiles DEF ProfileSteps
      <4> QED BY <2>3, <2>4, <4>1, <4>3
    <3>3. CASE CleanProfile(r) \/ DeleteProfile(r)
      <4>1. /\ history'.patched = history.patched
            /\ profile' = profile \/ profile' = DeleteStorage(profile, c.prof)
        BY <1>0, <3>3 DEF CleanProfile, DeleteProfile, Note, StoreOK
      <4>2. profile'[p] = profile[p]
        BY <1>0, <2>4, <4>1 DEF DeleteStorage, StoreOK
      <4> QED BY <2>3, <2>4, <4>1, <4>2
    <3>4. CASE ObserveClientLaunch(r)
      <4>1. history'.patched = history.patched /\ profile' = profile
        BY <1>0, <3>4 DEF ObserveClientLaunch, Note, StoreOK
      <4> QED BY <2>3, <2>4, <4>1
    <3>5. CASE UNCHANGED <<profile, history>>
      BY <2>3, <2>4, <3>5
    <3> QED BY <1>3, <3>1, <3>2, <3>3, <3>4, <3>5, WorkChanges
  <2> QED BY <2>2, <2>4 DEF Patches
<1> QED BY <1>1, <1>2, <1>3, NextSteps

(* A patch that was answered is not undone by the patch of another field,  *)
(* whatever fails, unless requests overlap.                                *)
THEOREM PatchesAreKept == Spec => []PatchesKept
<1>1. Init => Alone /\ Patches
  BY DEF Init, Alone, Patches, Idle
<1>2. Ids /\ Patches => PatchesKept
  <2> SUFFICES ASSUME Ids, Patches PROVE PatchesKept
    OBVIOUS
  <2>1. users \subseteq Profile
    BY DEF Ids, Types, TypeOK
  <2> QED BY <2>1 DEF Patches, PatchesKept
<1>3. Ids => Types
  BY DEF Ids
<1> QED BY <1>1, <1>2, <1>3, IdsInit, IdsStep, AloneStep, PatchesStep, PTL DEF Spec

-----------------------------------------------------------------------------
(* Nothing but the system's own steps *)

Calm == ~overlap /\ failed = {}

(* What one request after the other leaves: every user can be found, or is *)
(* being created or deleted, and so can every conversation.                *)
UserFound ==
    \A p \in Profile : profile[p] # None =>
        \/ emails[profile[p].email] = p
        \/ \E r \in Request : call[r].prof = p /\ (call[r].pc = "mapEmail" \/ UserGoes(call[r]))

ConversationFound ==
    \A v \in Conv : conv[v] # None =>
        \/ owned[conv[v].owner][conv[v].name] = v
        \/ \E r \in Request : call[r].conv = v /\ call[r].pc \in {"link", "deleteConv"}

(* What a request has seen is still so, and a user that is being deleted   *)
(* has no conversation that the request does not know of.                  *)
StillSo(c) ==
    /\ c.pc \in {"saveProfile", "mapEmail"} => emails[c.email] = None
    /\ c.pc \in {"saveConv", "link"} => owned[c.prof][c.name] = None
    /\ c.op \in {"post", "delete", "patch"} \/ c.pc = "deleteUser" => profile[c.prof] # None
    /\ c.pc = "unlink" => conv[c.conv] # None
    /\ UserGoes(c) /\ c.pc # "list" => \A v \in Conv :
          conv[v] # None /\ conv[v].owner = c.prof => v \in c.todo \/ (v = c.conv /\ c.pc \in Removing)

Reachable == Calm => UserFound /\ ConversationFound /\ \A r \in Request : StillSo(call[r])

(* Nothing is left of a user that was deleted without an error.            *)
Gone ==
    Calm => \A p \in history.deleted :
        /\ \A v \in Conv : conv[v] # None => conv[v].owner # p
        /\ \A e \in Email : emails[e] # p
        /\ profile[p] = None
        /\ \A r \in Request : call[r].prof # p

Launched ==
    Calm =>
        /\ \A k \in Client : history.launched[k] # None => activity[k] = history.launched[k]
        /\ \A r \in Request : call[r].pc = "active" => call[r].seen = activity[call[r].client]

LEMMA CalmStep ==
    ASSUME Types, Alone, NEW r \in Request, Start(r) \/ Work(r), Calm'
    PROVE  /\ Calm /\ \A kind : ~Fault(kind)
           /\ Start(r) => history' = history /\ \A s \in Request : call[s].pc = "idle"
           /\ Work(r) => \A s \in Request \ {r} : call[s].pc = "idle" /\ call'[s].pc = "idle"
BY FaultsStay, StartAlone, WorkAlone DEF Calm

(* Only the end of its deletion ends the request that deletes a user.      *)
LEMMA DeletionEnds ==
    ASSUME Types, NEW r \in Request, Work(r), call[r].op = "deleteUser",
           \A kind : ~Fault(kind), call'[r].pc = "idle"
    PROVE  DeleteProfile(r)
<1> DEFINE c == call[r]
<1>0. c \in CallRecord /\ CallTyped(c) /\ call \in [Request -> CallRecord]
  BY DEF Types, TypeOK, CallsTyped
<1>1. ASSUME NEW pc, pc # "idle", GoTo(r, pc) PROVE FALSE
  BY <1>0, <1>1 DEF GoTo, CallRecord
<1>2. CASE Create(r)
  BY <1>0, <1>2 DEF Create, SaveProfile, SetEmailProfile, CleanEmail, CleanProfile, LookupName,
     SaveConversation, AddOwnedConversation, CleanConversation, CallTyped, Making, Creating
<1>3. ~FindConversation(r)
  BY <1>0 DEF FindConversation, CallTyped
<1>4. ASSUME GetConversation(r) PROVE FALSE
  <2>1. CASE Failed(r, "next")
    BY <1>0, <2>1 DEF Failed, CallRecord
  <2>2. ASSUME NEW n, call' = [call EXCEPT ![r].pc = "unlink", ![r].name = n] PROVE FALSE
    BY <1>0, <2>2 DEF CallRecord
  <2> QED BY <1>4, <2>1, <2>2 DEF GetConversation
<1>5. ~RemoveOwnedConversation(r)
  BY <1>1 DEF RemoveOwnedConversation
<1>6. ~DeleteConversation(r)
  BY <1>1 DEF DeleteConversation, Deleted
<1>7. ~RemoveEmailProfile(r)
  BY <1>1 DEF RemoveEmailProfile
<1>8. ASSUME ListOwned(r) PROVE FALSE
  <2>1. call' = [call EXCEPT ![r].pc = "next", ![r].todo = GetMapAll(owned[c.prof])]
    BY <1>8 DEF ListOwned
  <2> QED BY <1>0, <2>1 DEF CallRecord
<1>9. ASSUME NextConversation(r) PROVE FALSE
  <2>1. PICK v : call' = [call EXCEPT ![r].pc = "getConv", ![r].conv = v, ![r].todo = @ \ {v}]
    BY <1>9 DEF NextConversation
  <2> QED BY <1>0, <2>1 DEF CallRecord
<1>10. ~Observe(r) /\ ~Crash(r) /\ ~\E f \in Field : PatchProfile(r, f)
  BY <1>0 DEF Observe, AuthenticateLaunch, ObserveClientLaunch, SaveActivity, Crash, PatchProfile,
     CallTyped
<1> QED BY <1>2, <1>3, <1>4, <1>5, <1>6, <1>7, <1>8, <1>9, <1>10 DEF Work, Delete

LEMMA LaunchedStep == Types /\ Alone /\ Launched /\ [Next]_vars => Launched'
<1> SUFFICES ASSUME Types, Alone, Launched, [Next]_vars, Calm' PROVE Launched'
  BY DEF Launched
<1>0. StoreOK /\ CallsTyped
  BY DEF Types, TypeOK, StoreOK
<1>1. CASE UNCHANGED vars
  BY <1>1 DEF vars, storage, Launched, Calm
<1>2. ASSUME NEW r \in Request, Start(r)
      PROVE  Launched'
  <2>1. Calm /\ history' = history /\ Starts(r)
    BY <1>2, CalmStep, StartStarts
  <2>2. call'[r].pc = "active" => call'[r].seen = activity[call'[r].client]
    BY <2>1 DEF Starts
  <2>3. activity' = activity /\ \A s \in Request \ {r} : call'[s] = call[s]
    BY <2>1 DEF Starts
  <2> QED BY <2>1, <2>2, <2>3 DEF Launched
<1>3. ASSUME NEW r \in Request, Work(r)
      PROVE  Launched'
  <2> DEFINE c == call[r]
  <2>1. /\ Calm /\ Arrives(r) /\ CallTyped(c) /\ \A kind : ~Fault(kind)
        /\ \A s \in Request \ {r} : call'[s].pc = "idle"
    BY <1>0, <1>3, CalmStep, WorkArrives DEF CallsTyped
  <2>2. \A s \in Request : call'[s].pc # "active"
    BY <2>1 DEF Arrives
  <2>3. ASSUME NEW k \in Client, history'.launched[k] # None
        PROVE  activity'[k] = history'.launched[k]
    <3>1. CASE ObserveClientLaunch(r)
      <4>1. /\ c.client \in Client
            /\ history' = [history EXCEPT !.launched[c.client] = c.prof]
            /\ activity' = StoreObject(activity, c.client, c.prof)
        BY <2>1, <3>1 DEF ObserveClientLaunch, Note, Calm, CallTyped
      <4> QED BY <1>0, <2>1, <2>3, <4>1 DEF StoreObject, StoreOK, Launched
    <3>2. CASE SaveActivity(r)
      <4>1. /\ c.client \in Client /\ history' = history
            /\ activity' = StoreObject(activity, c.client, c.seen)
            /\ c.seen = activity[c.client]
        BY <2>1, <3>2 DEF SaveActivity, CallTyped, Launched
      <4> QED BY <1>0, <2>1, <2>3, <4>1 DEF StoreObject, StoreOK, Launched
    <3>3. CASE activity' = activity /\ ~ObserveClientLaunch(r)
      <4>1. history'.launched = history.launched
        <5>1. CASE DeleteProfile(r)
          BY <1>0, <5>1 DEF DeleteProfile, Note, StoreOK
        <5>2. ASSUME NEW f \in Field, PatchProfile(r, f)
              PROVE  history'.launched = history.launched
          BY <1>0, <5>2 DEF PatchProfile, Note, StoreOK
        <5> QED BY <1>3, <3>3, <5>1, <5>2, WorkChanges
      <4> QED BY <2>1, <2>3, <3>3, <4>1 DEF Launched
    <3> QED BY <1>3, <3>1, <3>2, <3>3, WorkChanges
  <2> QED BY <2>2, <2>3 DEF Launched
<1> QED BY <1>1, <1>2, <1>3, NextSteps

(* A shutdown that is recorded keeps what the launch saved, unless the two *)
(* overlap.                                                                *)
THEOREM LaunchesAreKept == Spec => []LaunchIsKept
<1>1. Init => Alone /\ Launched
  BY DEF Init, Alone, Launched, Idle, NoHistory
<1>2. Launched => LaunchIsKept
  BY DEF Launched, LaunchIsKept, Calm, Quiet
<1> QED BY <1>1, <1>2, TypesInit, TypesStep, AloneStep, LaunchedStep, PTL DEF Spec

(* The same of the one request that is being served.                       *)
LEMMA CalmWork ==
    ASSUME Ids, Alone, Reachable, NEW r \in Request, Work(r), Calm'
    PROVE  /\ \A p \in Profile : profile[p] # None =>
                \/ emails[profile[p].email] = p
                \/ call[r].prof = p /\ (call[r].pc = "mapEmail" \/ UserGoes(call[r]))
           /\ \A v \in Conv : conv[v] # None =>
                \/ owned[conv[v].owner][conv[v].name] = v
                \/ call[r].conv = v /\ call[r].pc \in {"link", "deleteConv"}
           /\ StillSo(call[r])
           /\ \A kind : ~Fault(kind)
<1>1. Types /\ Calm /\ (\A kind : ~Fault(kind)) /\ \A s \in Request \ {r} : call[s].pc = "idle"
  BY CalmStep DEF Ids
<1>2. \A s \in Request \ {r} : call[s].op = None
  BY <1>1 DEF Types, CallsTyped, CallTyped, Idle
<1>3. UserFound /\ ConversationFound /\ StillSo(call[r])
  BY <1>1 DEF Reachable
<1>4. \A p \in Profile : profile[p] # None =>
                \/ emails[profile[p].email] = p
                \/ call[r].prof = p /\ (call[r].pc = "mapEmail" \/ UserGoes(call[r]))
  BY <1>1, <1>2, <1>3, NoneIsNothing DEF UserFound, UserGoes, Operation
<1>5. \A v \in Conv : conv[v] # None =>
                \/ owned[conv[v].owner][conv[v].name] = v
                \/ call[r].conv = v /\ call[r].pc \in {"link", "deleteConv"}
  BY <1>1, <1>3 DEF ConversationFound
<1> QED BY <1>1, <1>3, <1>4, <1>5

LEMMA WorkFindsUsers ==
    ASSUME Ids, Alone, Resolve, Reachable, NEW r \in Request, Work(r), Calm'
    PROVE  UserFound'
<1> DEFINE c == call[r]
           d == call'[r]
<1>0. /\ c \in CallRecord /\ CallTyped(c) /\ StoreOK /\ call \in [Request -> CallRecord]
      /\ Types /\ ProfileIds
  BY DEF Ids, Types, TypeOK, CallsTyped, StoreOK
<1>1. /\ \A p \in Profile : profile[p] # None =>
           \/ emails[profile[p].email] = p
           \/ c.prof = p /\ (c.pc = "mapEmail" \/ UserGoes(c))
      /\ StillSo(c) /\ \A kind : ~Fault(kind)
  BY CalmWork
<1>2. c.pc \notin {"cleanEmail", "cleanProfile", "cleanConv"}
  BY CalmStep DEF Ids, Calm, Resolve
<1>3. ProfileSteps(r) /\ Carries(r) /\ Arrives(r) /\ Idle.pc = "idle"
  BY <1>0, WorkProfiles, WorkCarries, WorkArrives DEF Idle
<1>4. \A p \in Profile : profile[p] # None => profile[p].email \in Email
  BY <1>0 DEF StoreOK, ProfileRecord
<1>5. \A p \in Profile, e, f \in Email : Claims(p, e) /\ Claims(p, f) => e = f
  BY <1>0 DEF ProfileIds, OneEmail
<1> SUFFICES ASSUME NEW p \in Profile, profile'[p] # None
             PROVE  \/ emails'[profile'[p].email] = p
                    \/ d.prof = p /\ (d.pc = "mapEmail" \/ UserGoes(d))
  BY DEF UserFound
<1>6. CASE SaveProfile(r)
  <2>1. GoTo(r, "mapEmail") /\ emails' = emails /\ c.pc = "saveProfile"
    BY <1>1, <1>6 DEF SaveProfile
  <2>2. d.pc = "mapEmail" /\ d.prof = c.prof
    BY <1>0, <2>1 DEF GoTo, CallRecord
  <2>3. CASE p # c.prof
    <3>1. profile'[p] = profile[p]
      BY <1>3, <2>3 DEF ProfileSteps
    <3> QED BY <1>1, <2>1, <2>3, <3>1
  <2> QED BY <2>2, <2>3
<1>7. CASE PatchProfile(r, "name") \/ PatchProfile(r, "secret")
  <2>1. c.pc = "patch" /\ emails' = emails /\ c.op = "patch" /\ c.prof \in Profile /\ c.email \in Email
    BY <1>0, <1>7 DEF PatchProfile, CallTyped
  <2>2. CASE p # c.prof
    <3>1. profile'[p] = profile[p]
      BY <1>3, <2>2 DEF ProfileSteps
    <3> QED BY <1>1, <2>1, <2>2, <3>1
  <2>3. CASE p = c.prof
    <3>1. profile[p] # None
      BY <1>1, <2>1, <2>3 DEF StillSo
    <3>2. profile[p].email = c.email
      <4>1. Claims(p, profile[p].email) /\ Claims(p, c.email)
        BY <2>3, <3>1 DEF Claims
      <4> QED BY <1>4, <1>5, <2>1, <3>1, <4>1
    <3>3. profile'[p].email = c.email
      BY <1>3, <2>1, <2>3, <3>2 DEF ProfileSteps
    <3>4. emails[profile[p].email] = p
      BY <1>1, <2>1, <3>1 DEF UserGoes
    <3> QED BY <2>1, <3>2, <3>3, <3>4
  <2> QED BY <2>2, <2>3
<1>8. CASE DeleteProfile(r)
  <2>1. profile' = DeleteStorage(profile, c.prof) /\ emails' = emails
    BY <1>1, <1>8 DEF DeleteProfile
  <2>2. p # c.prof /\ profile'[p] = profile[p]
    BY <1>0, <2>1 DEF DeleteStorage, StoreOK
  <2> QED BY <1>1, <2>1, <2>2
<1>9. CASE SetEmailProfile(r)
  <2>1. /\ c.pc = "mapEmail" /\ emails' = SetMapValue(emails, c.email, c.prof) /\ profile' = profile
        /\ c.op = "launch" /\ c.email \in Email
    BY <1>0, <1>1, <1>9 DEF SetEmailProfile, CallTyped, Making
  <2>2. CASE p = c.prof
    <3>1. Claims(p, profile[p].email) /\ Claims(p, c.email)
      BY <2>1, <2>2 DEF Claims
    <3>2. profile[p].email = c.email
      BY <1>4, <1>5, <2>1, <3>1
    <3> QED BY <1>0, <2>1, <2>2, <3>2 DEF SetMapValue, StoreOK
  <2>3. CASE p # c.prof
    <3>1. emails[profile[p].email] = p
      BY <1>1, <2>1, <2>3
    <3>2. emails[c.email] = None
      BY <1>1, <2>1 DEF StillSo
    <3> QED BY <1>0, <2>1, <3>1, <3>2, NoneIsNothing DEF SetMapValue, StoreOK
  <2> QED BY <2>2, <2>3
<1>10. CASE RemoveEmailProfile(r)
  <2>1. /\ c.pc = "deleteUser" /\ emails' = MapRemoveKey(emails, c.email) /\ profile' = profile
        /\ c.op = "deleteUser" /\ c.email \in Email /\ c.prof \in Profile /\ GoTo(r, "list")
    BY <1>0, <1>1, <1>10 DEF RemoveEmailProfile, CallTyped
  <2>2. d.pc = "list" /\ d.op = "deleteUser" /\ d.prof = c.prof
    BY <1>0, <2>1 DEF GoTo, CallRecord
  <2>3. CASE p # c.prof
    <3>1. emails[profile[p].email] = p
      BY <1>1, <2>1, <2>3
    <3>2. profile[c.prof] # None
      BY <1>1, <2>1 DEF StillSo
    <3>3. Claims(c.prof, profile[c.prof].email) /\ Claims(c.prof, c.email)
      BY <3>2 DEF Claims
    <3>4. profile[c.prof].email = c.email
      BY <1>4, <1>5, <2>1, <3>2, <3>3
    <3>5. emails[c.email] = c.prof
      BY <1>1, <2>1, <3>2, <3>4 DEF UserGoes
    <3>6. profile[p].email # c.email
      BY <2>3, <3>1, <3>5
    <3> QED BY <1>0, <1>4, <2>1, <3>1, <3>6 DEF MapRemoveKey, StoreOK
  <2> QED BY <2>2, <2>3 DEF UserGoes
<1>11. CASE profile' = profile /\ emails' = emails
  <2>1. CASE emails[profile[p].email] = p
    BY <1>11, <2>1
  <2>2. CASE c.prof = p /\ UserGoes(c) /\ ~DeleteProfile(r)
    <3>1. d # Idle
      BY <1>0, <1>1, <1>3, <2>2, DeletionEnds DEF UserGoes
    <3> QED BY <1>3, <2>2, <3>1 DEF Carries, Arrives, UserGoes
  <2>3. CASE c.prof = p /\ c.pc = "mapEmail"
    <3>1. SetEmailProfile(r)
      BY <1>1, <2>3 DEF Work, Create, Delete, Observe, SaveProfile, CleanEmail, CleanProfile,
         LookupName, SaveConversation, AddOwnedConversation, CleanConversation, FindConversation,
         GetConversation, RemoveOwnedConversation, DeleteConversation, RemoveEmailProfile,
         ListOwned, NextConversation, DeleteProfile, AuthenticateLaunch, ObserveClientLaunch,
         SaveActivity, Crash, PatchProfile
    <3> QED BY <1>9, <3>1
  <2> QED BY <1>1, <1>8, <1>11, <2>1, <2>2, <2>3
<1> QED BY <1>2, <1>6, <1>7, <1>8, <1>9, <1>10, <1>11, WorkChanges DEF Field, CleanProfile, CleanEmail

LEMMA WorkFindsConversations ==
    ASSUME Ids, Alone, Resolve, Reachable, NEW r \in Request, Work(r), Calm'
    PROVE  ConversationFound'
<1> DEFINE c == call[r]
           d == call'[r]
<1>0. /\ c \in CallRecord /\ CallTyped(c) /\ StoreOK /\ call \in [Request -> CallRecord]
      /\ Types /\ ConvIds
  BY DEF Ids, Types, TypeOK, CallsTyped, StoreOK
<1>1. /\ \A v \in Conv : conv[v] # None =>
           \/ owned[conv[v].owner][conv[v].name] = v
           \/ c.conv = v /\ c.pc \in {"link", "deleteConv"}
      /\ StillSo(c) /\ \A kind : ~Fault(kind)
  BY CalmWork
<1>2. c.pc \notin {"cleanEmail", "cleanProfile", "cleanConv"}
  BY CalmStep DEF Ids, Calm, Resolve
<1>3. ConvSteps(r)
  BY <1>0, WorkConvs
<1>4. \A v \in Conv : conv[v] # None => conv[v].owner \in Profile /\ conv[v].name \in Name
  BY <1>0 DEF StoreOK, ConvRecord
<1> SUFFICES ASSUME NEW v \in Conv, conv'[v] # None
             PROVE  \/ owned'[conv'[v].owner][conv'[v].name] = v
                    \/ d.conv = v /\ d.pc \in {"link", "deleteConv"}
  BY DEF ConversationFound
<1>5. CASE SaveConversation(r)
  <2>1. GoTo(r, "link") /\ owned' = owned /\ c.pc = "saveConv"
    BY <1>1, <1>5 DEF SaveConversation
  <2>2. d.pc = "link" /\ d.conv = c.conv
    BY <1>0, <2>1 DEF GoTo, CallRecord
  <2>3. CASE v # c.conv
    <3>1. conv'[v] = conv[v]
      BY <1>3, <2>3 DEF ConvSteps
    <3> QED BY <1>1, <2>1, <2>3, <3>1
  <2> QED BY <2>2, <2>3
<1>6. CASE AddOwnedConversation(r)
  <2>1. /\ c.pc = "link" /\ conv' = conv /\ c.prof \in Profile /\ c.name \in Name
        /\ owned' = [owned EXCEPT ![c.prof] = SetMapValue(@, c.name, c.conv)]
    BY <1>0, <1>1, <1>6 DEF AddOwnedConversation, CallTyped, Creating
  <2>2. owned'[c.prof][c.name] = c.conv
    BY <1>0, <2>1 DEF SetMapValue, StoreOK
  <2>3. CASE v = c.conv
    <3>1. conv[v] = [owner |-> c.prof, name |-> c.name]
      BY <1>0, <2>1, <2>3 DEF ConvIds, Creators, Creating
    <3> QED BY <2>1, <2>2, <2>3, <3>1
  <2>4. CASE v # c.conv
    <3>1. owned[conv[v].owner][conv[v].name] = v
      BY <1>1, <2>1, <2>4
    <3>2. owned[c.prof][c.name] = None
      BY <1>1, <2>1 DEF StillSo
    <3>3. conv[v].owner # c.prof \/ conv[v].name # c.name
      BY <3>1, <3>2, NoneIsNothing
    <3> QED BY <1>0, <1>4, <2>1, <3>1, <3>3 DEF SetMapValue, StoreOK
  <2> QED BY <2>3, <2>4
<1>7. CASE RemoveOwnedConversation(r)
  <2>1. /\ c.pc = "unlink" /\ conv' = conv /\ c.prof \in Profile /\ c.name \in Name /\ c.conv \in Conv
        /\ owned' = [owned EXCEPT ![c.prof] = MapRemoveKey(@, c.name)] /\ GoTo(r, "deleteConv")
    BY <1>0, <1>1, <1>7 DEF RemoveOwnedConversation, CallTyped, Removing
  <2>2. d.pc = "deleteConv" /\ d.conv = c.conv
    BY <1>0, <2>1 DEF GoTo, CallRecord
  <2>3. CASE v # c.conv
    <3>1. owned[conv[v].owner][conv[v].name] = v
      BY <1>1, <2>1, <2>3
    <3>2. conv[c.conv] # None
      BY <1>1, <2>1 DEF StillSo
    <3>3. conv[c.conv].owner = c.prof /\ conv[c.conv].name = c.name
      BY <1>0, <2>1, <3>2 DEF ConvIds, Removers, Removing, Belongs
    <3>4. owned[c.prof][c.name] = c.conv
      BY <1>1, <2>1, <3>2, <3>3
    <3>5. conv[v].owner # c.prof \/ conv[v].name # c.name
      BY <2>3, <3>1, <3>4
    <3> QED BY <1>0, <1>4, <2>1, <3>1, <3>5 DEF MapRemoveKey, StoreOK
  <2> QED BY <2>2, <2>3
<1>8. CASE DeleteConversation(r)
  <2>1. conv' = DeleteStorage(conv, c.conv) /\ owned' = owned
    BY <1>1, <1>8 DEF DeleteConversation
  <2>2. v # c.conv /\ conv'[v] = conv[v]
    BY <1>0, <2>1 DEF DeleteStorage, StoreOK
  <2> QED BY <1>1, <2>1, <2>2
<1>9. CASE conv' = conv /\ owned' = owned
  <2>1. CASE c.pc \in {"link", "deleteConv"}
    <3>1. AddOwnedConversation(r) \/ DeleteConversation(r)
      BY <1>1, <2>1 DEF Work, Create, Delete, Observe, SaveProfile, SetEmailProfile, CleanEmail,
         CleanProfile, LookupName, SaveConversation, CleanConversation, FindConversation,
         GetConversation, RemoveOwnedConversation, RemoveEmailProfile,
         ListOwned, NextConversation, DeleteProfile, AuthenticateLaunch, ObserveClientLaunch,
         SaveActivity, Crash, PatchProfile
    <3> QED BY <1>6, <1>8, <3>1
  <2> QED BY <1>1, <1>9, <2>1
<1> QED BY <1>2, <1>5, <1>6, <1>7, <1>8, <1>9, WorkChanges DEF CleanConversation

LEMMA WorkStillSo ==
    ASSUME Ids, Ids', Alone, Resolve, Reachable, NEW r \in Request, Work(r), Calm'
    PROVE  StillSo(call[r])'
<1> DEFINE c == call[r]
           d == call'[r]
<1>0. /\ c \in CallRecord /\ CallTyped(c) /\ StoreOK /\ call \in [Request -> CallRecord]
      /\ Types /\ ProfileIds
  BY DEF Ids, Types, TypeOK, CallsTyped, StoreOK
<1>1. /\ \A v \in Conv : conv[v] # None =>
           \/ owned[conv[v].owner][conv[v].name] = v
           \/ c.conv = v /\ c.pc \in {"link", "deleteConv"}
      /\ StillSo(c) /\ \A kind : ~Fault(kind)
  BY CalmWork
<1>2. c.pc \notin {"cleanEmail", "cleanProfile", "cleanConv"}
  BY CalmStep DEF Ids, Calm, Resolve
<1>3. Carries(r) /\ Arrives(r) /\ ConvSteps(r) /\ ProfileSteps(r) /\ Idle.pc = "idle" /\ Idle.op = None
  BY <1>0, WorkCarries, WorkArrives, WorkConvs, WorkProfiles DEF Idle
<1>4. d.pc \in {"saveProfile", "mapEmail"} => emails'[d.email] = None
  <2> SUFFICES ASSUME d.pc \in {"saveProfile", "mapEmail"} PROVE emails'[d.email] = None
    OBVIOUS
  <2>1. SaveProfile(r) /\ d.email = c.email
    BY <1>3 DEF Arrives, Carries
  <2> QED BY <1>1, <2>1 DEF SaveProfile, StillSo
<1>5. d.pc \in {"saveConv", "link"} => owned'[d.prof][d.name] = None
  <2>1. CASE SetEmailProfile(r)
    <3>1. c.pc = "mapEmail" /\ c.op = "launch" /\ c.prof \in Profile /\ owned' = owned
      BY <1>0, <2>1 DEF SetEmailProfile, CallTyped, Making
    <3>2. PICK v : call' = [call EXCEPT ![r].pc = "saveConv", ![r].conv = v, ![r].name = FirstName]
      BY <1>1, <2>1 DEF SetEmailProfile
    <3>3. d.prof = c.prof /\ d.name = FirstName
      BY <1>0, <3>2 DEF CallRecord
    <3>4. \A n \in Name : owned[c.prof][n] = None
      BY <1>0, <3>1 DEF ProfileIds, Launches
    <3> QED BY <3>1, <3>3, <3>4, FirstNameIsName
  <2>2. CASE LookupName(r) /\ d.pc = "saveConv"
    <3>1. ~Answer(r)
      BY <1>0, <1>3, <2>2 DEF Answer
    <3>2. PICK v : call' = [call EXCEPT ![r].pc = "saveConv", ![r].conv = v]
      BY <2>2, <3>1 DEF LookupName
    <3>3. d.prof = c.prof /\ d.name = c.name
      BY <1>0, <3>2 DEF CallRecord
    <3> QED BY <2>2, <3>1, <3>3 DEF LookupName, NameIsFree, storage
  <2>3. CASE SaveConversation(r)
    <3>1. GoTo(r, "link") /\ owned' = owned /\ c.pc = "saveConv"
      BY <1>1, <2>3 DEF SaveConversation
    <3>2. d.prof = c.prof /\ d.name = c.name
      BY <1>0, <3>1 DEF GoTo, CallRecord
    <3> QED BY <1>1, <3>1, <3>2 DEF StillSo
  <2> QED BY <1>3, <2>1, <2>2, <2>3 DEF Arrives
<1>6. d.op \in {"post", "delete", "patch"} \/ d.pc = "deleteUser" => profile'[d.prof] # None
  <2> SUFFICES ASSUME d.op \in {"post", "delete", "patch"} PROVE profile'[d.prof] # None
    BY <1>3 DEF Arrives
  <2>1. d # Idle /\ c.op = d.op /\ d.prof = c.prof
    BY <1>3, NoneIsNothing DEF Carries, Operation
  <2>2. profile[c.prof] # None
    BY <1>1, <2>1 DEF StillSo
  <2>3. profile' = profile
    <3>1. ~SaveProfile(r) /\ ~CleanProfile(r) /\ ~DeleteProfile(r)
      BY <1>0, <2>1 DEF SaveProfile, CleanProfile, DeleteProfile, CallTyped, Making
    <3>2. ASSUME NEW f \in Field PROVE ~PatchProfile(r, f)
      BY <1>0, <2>1 DEF PatchProfile, Answer
    <3> QED BY <3>1, <3>2, WorkChanges
  <2> QED BY <2>1, <2>2, <2>3
<1>7. d.pc = "unlink" => conv'[d.conv] # None
  <2> SUFFICES ASSUME d.pc = "unlink" PROVE conv'[d.conv] # None
    OBVIOUS
  <2>1. GetConversation(r) /\ conv' = conv /\ d.conv = c.conv
    BY <1>3 DEF Arrives, ConvSteps, Removing
  <2>2. ~Failed(r, "next")
    BY <1>0, <1>3 DEF Failed, Answer, CallRecord
  <2> QED BY <2>1, <2>2 DEF GetConversation
<1>8. ASSUME UserGoes(d), d.pc # "list", NEW v \in Conv, conv'[v] # None, conv'[v].owner = d.prof
      PROVE  v \in d.todo \/ (v = d.conv /\ d.pc \in Removing)
  <2>1. d # Idle /\ c.op = "deleteUser" /\ d.prof = c.prof /\ d.pc # "idle" /\ d.op = "deleteUser"
    BY <1>3, <1>8, NoneIsNothing DEF Carries, UserGoes, Operation
  <2>2. d.pc \in {"getConv", "unlink", "deleteConv", "next"}
    <3>1. d.pc \in Place /\ CallTyped(d)
      BY DEF Ids, Types, TypeOK, CallsTyped, CallRecord
    <3> QED BY <1>3, <1>8, <2>1, <3>1 DEF Place, CallTyped, Making, Creating, Arrives
  <2>3. c.pc \notin Creating
    BY <1>0, <2>1 DEF CallTyped, Creating
  <2>4. ASSUME c.pc \notin {"deleteUser", "list"}, conv[v] # None, conv[v].owner = c.prof
        PROVE  v \in c.todo \/ (v = c.conv /\ c.pc \in Removing)
    BY <1>1, <2>1, <2>4 DEF StillSo, UserGoes
  <2>5. CASE NextConversation(r)
    <3>1. PICK w \in c.todo :
            call' = [call EXCEPT ![r].pc = "getConv", ![r].conv = w, ![r].todo = @ \ {w}]
      BY <2>5 DEF NextConversation
    <3>2. d.pc = "getConv" /\ d.conv = w /\ d.todo = c.todo \ {w}
      BY <1>0, <3>1 DEF CallRecord
    <3>3. c.pc = "next" /\ conv' = conv
      BY <2>5 DEF NextConversation, storage
    <3> QED BY <1>8, <2>1, <2>4, <3>2, <3>3 DEF Removing
  <2>6. CASE GetConversation(r)
    <3>1. c.pc = "getConv" /\ conv' = conv
      BY <2>6 DEF GetConversation, storage
    <3>2. CASE conv[c.conv] # None
      <4>1. call' = [call EXCEPT ![r].pc = "unlink", ![r].name = conv[c.conv].name]
        BY <1>1, <2>6, <3>2 DEF GetConversation
      <4>2. d.pc = "unlink" /\ d.conv = c.conv /\ d.todo = c.todo
        BY <1>0, <4>1 DEF CallRecord
      <4> QED BY <1>8, <2>1, <2>4, <3>1, <4>2 DEF Removing
    <3>3. CASE conv[c.conv] = None
      <4>1. Failed(r, "next")
        BY <1>1, <2>6, <3>3 DEF GetConversation
      <4>2. d.todo = c.todo
        BY <1>0, <2>1, <4>1 DEF Failed, CallRecord
      <4> QED BY <1>8, <2>1, <2>4, <3>1, <3>3, <4>2
    <3> QED BY <3>2, <3>3
  <2>7. CASE RemoveOwnedConversation(r)
    <3>1. c.pc = "unlink" /\ conv' = conv /\ GoTo(r, "deleteConv")
      BY <1>1, <2>7 DEF RemoveOwnedConversation
    <3>2. d.pc = "deleteConv" /\ d.conv = c.conv /\ d.todo = c.todo
      BY <1>0, <3>1 DEF GoTo, CallRecord
    <3> QED BY <1>8, <2>1, <2>4, <3>1, <3>2 DEF Removing
  <2>8. CASE DeleteConversation(r)
    <3>1. c.pc = "deleteConv" /\ conv' = DeleteStorage(conv, c.conv) /\ GoTo(r, "next")
      BY <1>1, <2>1, <2>8 DEF DeleteConversation, Deleted
    <3>2. d.todo = c.todo
      BY <1>0, <3>1 DEF GoTo, CallRecord
    <3>3. v # c.conv /\ conv'[v] = conv[v]
      BY <1>0, <1>8, <3>1 DEF DeleteStorage, StoreOK
    <3> QED BY <1>8, <2>1, <2>4, <3>1, <3>2, <3>3
  <2>9. CASE ListOwned(r)
    <3>1. /\ c.pc = "list" /\ conv' = conv
          /\ call' = [call EXCEPT ![r].pc = "next", ![r].todo = GetMapAll(owned[c.prof])]
      BY <1>1, <2>9 DEF ListOwned, storage
    <3>2. d.todo = GetMapAll(owned[c.prof])
      BY <1>0, <3>1 DEF CallRecord
    <3>3. conv[v].name \in Name /\ owned[c.prof][conv[v].name] = v /\ c.prof \in Profile
      BY <1>0, <1>1, <1>8, <2>1, <3>1 DEF StoreOK, ConvRecord
    <3> QED BY <1>0, <3>2, <3>3, NoneIsNothing DEF GetMapAll, StoreOK
  <2>10. CASE FindConversation(r)
    BY <1>0, <2>1, <2>10 DEF FindConversation, CallTyped
  <2> QED BY <1>3, <2>2, <2>5, <2>6, <2>7, <2>8, <2>9, <2>10 DEF Arrives
<1> QED BY <1>4, <1>5, <1>6, <1>7, <1>8 DEF StillSo, UserGoes

LEMMA StartStillSo ==
    ASSUME Ids, Alone, NEW r \in Request, Start(r), Calm'
    PROVE  StillSo(call[r])'
<1> DEFINE d == call'[r]
<1>1. Starts(r) /\ ~Fault("command")
  BY StartStarts, CalmStep DEF Ids
<1>2. d.pc \in {"saveProfile", "mapEmail"} => emails'[d.email] = None
  BY <1>1 DEF Starts
<1>3. d.op \in {"post", "delete", "patch"} \/ d.pc = "deleteUser" => profile'[d.prof] # None
  BY <1>1 DEF Starts
<1>4. d.pc \notin {"saveConv", "link", "unlink"} /\ ~UserGoes(d)
  BY <1>1 DEF Starts, UserGoes
<1> QED BY <1>2, <1>3, <1>4 DEF StillSo, UserGoes

LEMMA ReachableStep == Ids /\ Alone /\ Resolve /\ Reachable /\ [Next]_vars => Reachable'
<1> SUFFICES ASSUME Ids, Alone, Resolve, Reachable, [Next]_vars, Calm' PROVE Reachable'
  BY DEF Reachable
<1>0. Types /\ Types'
  BY IdsStep DEF Ids
<1>1. CASE UNCHANGED vars
  BY <1>1 DEF vars, storage, ids, Reachable, Calm, UserFound, ConversationFound, StillSo, UserGoes
<1>2. ASSUME NEW s \in Request, call'[s].pc = "idle"
      PROVE  StillSo(call[s])'
  <2>1. call'[s].op = None
    BY <1>0, <1>2 DEF Types, CallsTyped, CallTyped, Idle
  <2> QED BY <1>2, <2>1, NoneIsNothing DEF StillSo, UserGoes, Operation
<1>3. ASSUME NEW r \in Request, Start(r)
      PROVE  Reachable'
  <2>1. /\ Calm /\ Starts(r) /\ \A s \in Request : call[s].pc = "idle" /\ call[s].op = None
    <3>1. Calm /\ Starts(r) /\ \A s \in Request : call[s].pc = "idle"
      BY <1>0, <1>3, CalmStep, StartStarts
    <3> QED BY <1>0, <3>1 DEF Types, CallsTyped, CallTyped, Idle
  <2>2. UNCHANGED <<profile, emails, conv, owned>> /\ \A s \in Request \ {r} : call'[s] = call[s]
    BY <2>1 DEF Starts
  <2>3. UserFound'
    BY <2>1, <2>2, NoneIsNothing DEF Reachable, UserFound, UserGoes, Operation
  <2>4. ConversationFound'
    BY <2>1, <2>2 DEF Reachable, ConversationFound
  <2>5. \A s \in Request : StillSo(call[s])'
    BY <1>2, <1>3, <2>1, <2>2, StartStillSo
  <2> QED BY <2>3, <2>4, <2>5 DEF Reachable
<1>4. ASSUME NEW r \in Request, Work(r)
      PROVE  Reachable'
  <2>1. \A s \in Request \ {r} : call'[s].pc = "idle"
    BY <1>0, <1>4, CalmStep
  <2>2. \A s \in Request : StillSo(call[s])'
    BY <1>2, <1>4, <2>1, IdsStep, WorkStillSo
  <2>3. UserFound' /\ ConversationFound'
    BY <1>4, WorkFindsUsers, WorkFindsConversations
  <2> QED BY <2>2, <2>3 DEF Reachable
<1> QED BY <1>1, <1>3, <1>4, NextSteps

LEMMA ReachableInit == Init => Alone /\ Reachable
<1> SUFFICES ASSUME Init PROVE Alone /\ Reachable
  OBVIOUS
<1>1. \A r \in Request : call[r].pc = "idle" /\ call[r].op = None
  BY DEF Init, Idle
<1>2. UserFound /\ ConversationFound
  BY DEF Init, UserFound, ConversationFound
<1>3. \A r \in Request : StillSo(call[r])
  BY <1>1, NoneIsNothing DEF StillSo, UserGoes, Operation
<1> QED BY <1>1, <1>2, <1>3 DEF Alone, Reachable

(* Without failures, and one request after the other, every user can be    *)
(* found by email and every conversation by its owner and name.            *)
THEOREM EverythingStaysReachable == Spec => []EverythingIsReachable
<1>1. Ids /\ Reachable => EverythingIsReachable
  <2> SUFFICES ASSUME Ids, Reachable, Quiet
               PROVE  /\ \A p \in Profile : profile[p] # None => emails[profile[p].email] = p
                      /\ \A v \in Conv : conv[v] # None => owned[conv[v].owner][conv[v].name] = v
    BY DEF EverythingIsReachable
  <2>1. /\ Calm /\ \A r \in Request : call[r].pc = "idle" /\ call[r].op = None
    BY DEF Ids, Types, CallsTyped, CallTyped, Idle, Quiet, Busy, Calm
  <2> QED BY <2>1, NoneIsNothing DEF Reachable, UserFound, ConversationFound, UserGoes, Operation
<1>2. Ids => Types
  BY DEF Ids
<1> QED BY <1>1, <1>2, IdsInit, IdsStep, ResolveInit, ResolveStep, AloneStep, ReachableInit,
           ReachableStep, PTL DEF Spec

LEMMA GoneStep ==
    Ids /\ Alone /\ Resolve /\ Reachable /\ Gone /\ [Next]_vars => Gone'
<1> SUFFICES ASSUME Ids, Alone, Resolve, Reachable, Gone, [Next]_vars, Calm' PROVE Gone'
  BY DEF Gone
<1>0. /\ StoreOK /\ CallsTyped /\ Types /\ ProfileIds /\ call \in [Request -> CallRecord]
  BY DEF Ids, Types, TypeOK, StoreOK
<1>1. CASE UNCHANGED vars
  BY <1>1 DEF vars, storage, ids, Gone, Calm
<1>2. ASSUME NEW r \in Request, Start(r)
      PROVE  Gone'
  <2>1. Calm /\ history' = history /\ Starts(r)
    BY <1>0, <1>2, CalmStep, StartStarts
  <2>2. ASSUME NEW p \in history.deleted
        PROVE  call'[r].prof # p
    <3>1. p \in users /\ p \in Profile /\ profile[p] = None /\ \A e \in Email : emails[e] # p
      BY <1>0, <2>1 DEF Gone, ProfileIds, UsersKnown, StoreOK
    <3>2. p \notin fresh
      BY <1>0, <3>1 DEF ProfileIds, FreshProfiles
    <3> QED BY <2>1, <3>1, <3>2, NoneIsNothing DEF Starts
  <2>3. UNCHANGED <<profile, emails, conv, owned>> /\ \A s \in Request \ {r} : call'[s] = call[s]
    BY <2>1 DEF Starts
  <2> QED BY <2>1, <2>2, <2>3 DEF Gone
<1>3. ASSUME NEW r \in Request, Work(r)
      PROVE  Gone'
  <2> DEFINE c == call[r]
             d == call'[r]
  <2>1. /\ Calm /\ CallTyped(c) /\ (\A kind : ~Fault(kind))
        /\ \A s \in Request \ {r} : call[s].pc = "idle" /\ call'[s].pc = "idle"
    BY <1>0, <1>3, CalmStep DEF CallsTyped
  <2>2. ProfileSteps(r) /\ ConvSteps(r) /\ Carries(r) /\ Idle.prof = None
    BY <1>0, <1>3, WorkProfiles, WorkConvs, WorkCarries DEF Idle
  <2>3. ASSUME NEW p \in history.deleted
        PROVE  /\ \A v \in Conv : conv'[v] # None => conv'[v].owner # p
               /\ \A e \in Email : emails'[e] # p
               /\ profile'[p] = None
               /\ \A s \in Request : call'[s].prof # p
    <3>1. /\ p \in Profile /\ p # None /\ p # c.prof
          /\ \A v \in Conv : conv[v] # None => conv[v].owner # p
          /\ \A e \in Email : emails[e] # p
          /\ profile[p] = None
          /\ \A s \in Request : call[s].prof # p
      BY <1>0, <2>1, NoneIsNothing DEF Gone, StoreOK
    <3>2. \A v \in Conv : conv'[v] # None => conv'[v].owner # p
      BY <2>2, <3>1 DEF ConvSteps
    <3>3. (\A e \in Email : emails'[e] # p) /\ profile'[p] = None
      BY <2>2, <3>1 DEF ProfileSteps
    <3>4. \A s \in Request : call'[s].prof # p
      BY <2>2, <3>1 DEF Carries
    <3> QED BY <3>2, <3>3, <3>4
  <2>4. CASE DeleteProfile(r)
    <3>1. /\ c.pc = "next" /\ c.todo = {} /\ c.op = "deleteUser" /\ c.prof \in Profile
          /\ profile' = DeleteStorage(profile, c.prof) /\ Answer(r)
          /\ UNCHANGED <<emails, conv>>
      BY <2>1, <2>4 DEF DeleteProfile, CallTyped
    <3>2. history'.deleted \subseteq history.deleted \cup {c.prof}
      BY <2>2 DEF ProfileSteps
    <3>3. \A v \in Conv : conv'[v] # None => conv'[v].owner # c.prof
      <4>1. StillSo(c)
        BY <1>3, CalmWork
      <4> QED BY <3>1, <4>1 DEF StillSo, UserGoes, Removing
    <3>4. \A e \in Email : emails'[e] # c.prof
      BY <2>1, <3>1 DEF Resolve, Calm, UserGoes
    <3>5. profile'[c.prof] = None
      BY <1>0, <3>1 DEF DeleteStorage, StoreOK
    <3>6. \A s \in Request : call'[s].prof # c.prof
      <4>1. \A s \in Request \ {r} : call'[s].prof = None
        BY <1>0, <2>1, <2>2 DEF CallsTyped, CallTyped, Carries
      <4>2. d.prof = None
        BY <1>0, <2>2, <3>1 DEF Answer
      <4> QED BY <3>1, <4>1, <4>2, NoneIsNothing
    <3> QED BY <2>3, <3>2, <3>3, <3>4, <3>5, <3>6 DEF Gone
  <2>5. CASE ~DeleteProfile(r)
    <3>1. history'.deleted = history.deleted
      <4>1. CASE ObserveClientLaunch(r)
        BY <1>0, <4>1 DEF ObserveClientLaunch, Note, StoreOK
      <4>2. ASSUME NEW f \in Field, PatchProfile(r, f)
            PROVE  history'.deleted = history.deleted
        BY <1>0, <4>2 DEF PatchProfile, Note, StoreOK
      <4> QED BY <1>3, <2>5, <4>1, <4>2, WorkChanges
    <3> QED BY <2>3, <3>1 DEF Gone
  <2> QED BY <2>4, <2>5
<1> QED BY <1>1, <1>2, <1>3, NextSteps

(* Without failures, and one request after the other, nothing is left of a *)
(* user that was deleted.                                                  *)
THEOREM DeletionIsComplete == Spec => []DeletedLeavesNothing
<1>1. Init => Gone
  BY DEF Init, Gone, NoHistory
<1>2. Gone => DeletedLeavesNothing
  BY DEF Gone, DeletedLeavesNothing, Quiet, Calm
<1>3. Ids => Types
  BY DEF Ids
<1> QED BY <1>1, <1>2, <1>3, IdsInit, IdsStep, ResolveInit, ResolveStep, AloneStep, ReachableInit,
           ReachableStep, GoneStep, PTL DEF Spec

=============================================================================

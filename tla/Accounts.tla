------------------------------ MODULE Accounts ------------------------------
(***************************************************************************)
(* Users and the conversations they own, in Redis: profiles, the map from  *)
(* hashed emails to profile ids, conversations, and each profile's map     *)
(* from names to conversation ids (storage/profile.go, conversation.go),   *)
(* as the handlers of launch.go and profile.go change them.                *)
(*                                                                         *)
(* There are no transactions: every Redis command is a step, so that       *)
(* requests interleave, commands fail and servers crash between any two.   *)
(***************************************************************************)
EXTENDS Naturals, FiniteSets

CONSTANTS
    Request,    \* goroutines that serve HTTP requests, one at a time each
    Email,      \* hashed emails
    Profile,    \* profile ids
    Conv,       \* conversation ids
    Name,       \* names of conversations
    Client,     \* client devices
    FirstName,  \* "Conversation 1"
    Faults,     \* the kinds of failure that can happen, each at most once
    MaxFaults,  \* bound on the number of failures
    None        \* nothing

ASSUME FirstNameIsName == FirstName \in Name
ASSUME FaultKinds == Faults \subseteq {"command", "crash"} /\ MaxFaults \in Nat

(* What is stored, and what a request has at hand.                         *)
Place == {"idle", "saveProfile", "mapEmail", "cleanEmail", "cleanProfile", "post", "saveConv",
          "link", "cleanConv", "delete", "getConv", "unlink", "deleteConv", "deleteUser",
          "list", "next", "patch", "authenticate", "observe", "active"}

Operation == {"launch", "post", "delete", "deleteUser", "patch", "relaunch", "shutdown"}

Field == {"name", "secret"}

Fields == [Field -> BOOLEAN]

ProfileRecord == [email : Email, fields : Fields, usable : BOOLEAN]

ConvRecord == [owner : Profile, name : Name]

CallRecord ==
    [pc : Place, op : Operation \cup {None}, email : Email \cup {None},
     prof : Profile \cup {None}, name : Name \cup {None}, conv : Conv \cup {None},
     todo : SUBSET Conv, fields : Fields, errs : BOOLEAN, client : Client \cup {None},
     seen : Profile \cup {None}]

ASSUME NoneIsNothing ==
    /\ None \notin Email \cup Profile \cup Conv \cup Name \cup Client \cup Operation
    /\ None \notin ProfileRecord \cup ConvRecord

VARIABLES
    profile,  \* profile[p]: the stored profile
    emails,   \* EmailProfileMap
    conv,     \* conv[v]: the stored conversation
    owned,    \* owned[p]: OwnedConversationMap of p
    activity, \* activity[k]: the profile in the stored ActivityData of k
    call,     \* call[r]: where the request r is
    users,    \* the profile ids that clients have been given
    fresh,    \* the profile and conversation ids not generated yet
    history,  \* what clients were answered: the fields of each profile that
              \*   were patched, the profiles deleted without an error, and
              \*   the profile of each client's last launch
    overlap,  \* history: two requests were once served at the same time
    failed    \* the kinds of failure that have happened

storage == <<profile, emails, conv, owned, activity>>
ids == <<users, fresh>>
vars == <<storage, call, ids, history, overlap, failed>>

Unchanged == [f \in Field |-> FALSE]

(* Redis: values at keys, and the maps of strings, where the value that is *)
(* not there is None.                                                      *)
StoreObject(db, k, v) == [db EXCEPT ![k] = v]

DeleteStorage(db, k) == [db EXCEPT ![k] = None]

SetMapValue(map, k, v) == [map EXCEPT ![k] = v]

(* Mutant: the key stays. *)
MapKeepKey(map, k) == map

MapRemoveKey(map, k) == [map EXCEPT ![k] = None]

(* Mutant: the map is taken to be empty. *)
GetMapNothing(map) == {}

(* The values of GetMapAll, which is all its callers use. *)
GetMapAll(map) == {map[k] : k \in DOMAIN map} \ {None}

Idle == [pc |-> "idle", op |-> None, email |-> None, prof |-> None, name |-> None,
         conv |-> None, todo |-> {}, fields |-> Unchanged, errs |-> FALSE,
         client |-> None, seen |-> None]

Busy == {r \in Request : call[r].pc # "idle"}

NoHistory == [patched |-> [p \in Profile |-> Unchanged], deleted |-> {},
              launched |-> [k \in Client |-> None]]

(* An idle goroutine gets a request.  Bound: what was answered is noted as *)
(* long as requests are served in turn.                                    *)
Begin(r) ==
    /\ call[r].pc = "idle"
    /\ overlap' = (overlap \/ Busy # {})
    /\ history' = IF overlap' THEN NoHistory ELSE history

Note(h) == history' = IF overlap THEN history ELSE h

GoTo(r, pc) == call' = [call EXCEPT ![r].pc = pc]

Answer(r) == call' = [call EXCEPT ![r] = Idle]

Fault(kind) ==
    /\ kind \in Faults \ failed
    /\ Cardinality(failed) < MaxFaults
    /\ failed' = failed \cup {kind}

Init ==
    /\ profile = [p \in Profile |-> None]
    /\ emails = [e \in Email |-> None]
    /\ conv = [v \in Conv |-> None]
    /\ owned = [p \in Profile |-> [n \in Name |-> None]]
    /\ call = [r \in Request |-> Idle]
    /\ activity = [k \in Client |-> None]
    /\ users = {}
    /\ fresh = Profile \cup Conv
    /\ history = NoHistory
    /\ overlap = FALSE
    /\ failed = {}

-----------------------------------------------------------------------------
(* PostLaunchHandler without a profile id, and CreateNewUser *)

(* A client without a profile launches: if the email is not mapped, or the *)
(* lookup fails, it gets a new user.                                       *)
Launch(r, e, k) ==
    /\ Begin(r)
    /\ \/ emails[e] = None /\ UNCHANGED failed
       \/ Fault("command")
    /\ \E p \in fresh \cap Profile :
         /\ fresh' = fresh \ {p}
         /\ call' = [call EXCEPT ![r] = [Idle EXCEPT !.pc = "saveProfile", !.op = "launch",
                                                     !.email = e, !.prof = p,
                                                     !.client = k]]
    /\ UNCHANGED <<storage, users>>

SaveProfile(r) ==
    LET p == call[r].prof IN
    /\ call[r].pc = "saveProfile"
    /\ \/ /\ profile' = StoreObject(profile, p, [email |-> call[r].email, fields |-> Unchanged,
                                                 usable |-> TRUE])
          /\ GoTo(r, "mapEmail")
          /\ UNCHANGED failed
       \/ Fault("command") /\ Answer(r) /\ UNCHANGED profile
    /\ UNCHANGED <<activity, emails, conv, owned, ids, history, overlap>>

SetEmailProfile(r) ==
    /\ call[r].pc = "mapEmail"
    /\ \/ /\ emails' = SetMapValue(emails, call[r].email, call[r].prof)
          /\ \E v \in fresh \cap Conv :
               /\ fresh' = fresh \ {v}
               /\ call' = [call EXCEPT ![r].pc = "saveConv", ![r].conv = v, ![r].name = FirstName]
          /\ UNCHANGED failed
       \/ Fault("command") /\ GoTo(r, "cleanEmail") /\ UNCHANGED <<emails, fresh>>
    /\ UNCHANGED <<activity, profile, conv, owned, users, history, overlap>>

(* The cleanup of a user that could not be created. *)
CleanEmail(r) ==
    /\ call[r].pc = "cleanEmail"
    /\ \/ emails' = MapRemoveKey(emails, call[r].email) /\ UNCHANGED failed
       \/ Fault("command") /\ UNCHANGED emails
    /\ GoTo(r, "cleanProfile")
    /\ UNCHANGED <<activity, profile, conv, owned, ids, history, overlap>>

CleanProfile(r) ==
    /\ call[r].pc = "cleanProfile"
    /\ \/ profile' = DeleteStorage(profile, call[r].prof) /\ UNCHANGED failed
       \/ Fault("command") /\ UNCHANGED profile
    /\ Answer(r)
    /\ UNCHANGED <<activity, emails, conv, owned, ids, history, overlap>>

-----------------------------------------------------------------------------
(* Creating a conversation: a handler, and the end of CreateNewUser *)

(* authenticateJwt: the secret must be a UUID to be the key of any token. *)
CanAuthenticate(p) == profile[p] # None /\ profile[p].usable

(* An authenticated request about p: the profile is loaded.  The launch    *)
(* that makes p has been answered: that another client finds p by its      *)
(* email, and is mailed the secret, while the launch still makes the first *)
(* conversation, is left out.                                              *)
Authenticate(r, op, p, n) ==
    /\ Begin(r)
    /\ p \in users
    /\ CanAuthenticate(p)
    /\ call' = [call EXCEPT ![r] = [Idle EXCEPT !.pc = op, !.op = op, !.prof = p, !.name = n,
                                                !.email = profile[p].email,
                                                !.fields = IF op = "patch"
                                                           THEN profile[p].fields
                                                           ELSE Unchanged]]
    /\ UNCHANGED <<storage, ids, failed>>

(* Mutant: a conversation of that name is not noticed. *)
AlwaysFree(c) == TRUE

NameIsFree(c) == owned[c.prof][c.name] = None

(* A conversation of that name is a conflict. *)
LookupName(r) ==
    /\ call[r].pc = "post"
    /\ \/ /\ NameIsFree(call[r])
          /\ \E v \in fresh \cap Conv :
               /\ fresh' = fresh \ {v}
               /\ call' = [call EXCEPT ![r].pc = "saveConv", ![r].conv = v]
          /\ UNCHANGED failed
       \/ /\ ~NameIsFree(call[r])
          /\ Answer(r)
          /\ UNCHANGED <<fresh, failed>>
       \/ Fault("command") /\ Answer(r) /\ UNCHANGED fresh
    /\ UNCHANGED <<storage, users, history, overlap>>

(* CreateNewOwnedConversation has failed. *)
NotCreated(r) == IF call[r].op = "launch" THEN GoTo(r, "cleanEmail") ELSE Answer(r)

SaveConversation(r) ==
    LET c == call[r] IN
    /\ c.pc = "saveConv"
    /\ \/ /\ conv' = StoreObject(conv, c.conv, [owner |-> c.prof, name |-> c.name])
          /\ GoTo(r, "link")
          /\ UNCHANGED failed
       \/ Fault("command") /\ NotCreated(r) /\ UNCHANGED conv
    /\ UNCHANGED <<activity, profile, emails, owned, ids, history, overlap>>

AddOwnedConversation(r) ==
    LET c == call[r] IN
    /\ c.pc = "link"
    /\ \/ /\ owned' = [owned EXCEPT ![c.prof] = SetMapValue(@, c.name, c.conv)]
          /\ IF c.op = "launch" THEN GoTo(r, "observe") ELSE Answer(r)
          /\ UNCHANGED failed
       \/ Fault("command") /\ GoTo(r, "cleanConv") /\ UNCHANGED owned
    /\ UNCHANGED <<activity, profile, emails, conv, ids, history, overlap>>

CleanConversation(r) ==
    /\ call[r].pc = "cleanConv"
    /\ \/ conv' = DeleteStorage(conv, call[r].conv) /\ UNCHANGED failed
       \/ Fault("command") /\ UNCHANGED conv
    /\ NotCreated(r)
    /\ UNCHANGED <<activity, profile, emails, owned, ids, history, overlap>>

-----------------------------------------------------------------------------
(* Deleting a conversation, and all conversations of a user *)

(* One conversation is dealt with: the next one, if it is the user's.      *)
Deleted(r) == IF call[r].op = "delete" THEN Answer(r) ELSE GoTo(r, "next")

(* An error ends DeleteOwnedConversation; DeleteExistingUser notes it and  *)
(* goes on at pc.                                                          *)
Failed(r, pc) ==
    IF call[r].op = "delete" THEN Answer(r)
    ELSE call' = [call EXCEPT ![r].pc = pc, ![r].errs = TRUE]

(* DeleteOwnedConversation looks up the id of the name. *)
FindConversation(r) ==
    LET v == owned[call[r].prof][call[r].name] IN
    /\ call[r].pc = "delete"
    /\ \/ /\ v # None
          /\ call' = [call EXCEPT ![r].pc = "getConv", ![r].conv = v]
          /\ UNCHANGED failed
       \/ v = None /\ Answer(r) /\ UNCHANGED failed
       \/ Fault("command") /\ Answer(r)
    /\ UNCHANGED <<storage, ids, history, overlap>>

GetConversation(r) ==
    LET v == call[r].conv IN
    /\ call[r].pc = "getConv"
    /\ \/ /\ conv[v] # None
          /\ UNCHANGED failed
          /\ call' = [call EXCEPT ![r].pc = "unlink", ![r].name = conv[v].name]
       \/ conv[v] = None /\ Failed(r, "next") /\ UNCHANGED failed
       \/ Fault("command") /\ Failed(r, "next")
    /\ UNCHANGED <<storage, ids, history, overlap>>

(* RemoveOwnedConversation removes the name, whatever it is mapped to now. *)
RemoveOwnedConversation(r) ==
    LET c == call[r] IN
    /\ c.pc = "unlink"
    /\ \/ /\ owned' = [owned EXCEPT ![c.prof] = MapRemoveKey(@, c.name)]
          /\ GoTo(r, "deleteConv")
          /\ UNCHANGED failed
       \/ Fault("command") /\ Failed(r, "deleteConv") /\ UNCHANGED owned
    /\ UNCHANGED <<activity, profile, emails, conv, ids, history, overlap>>

DeleteConversation(r) ==
    /\ call[r].pc = "deleteConv"
    /\ \/ conv' = DeleteStorage(conv, call[r].conv) /\ Deleted(r) /\ UNCHANGED failed
       \/ Fault("command") /\ Failed(r, "next") /\ UNCHANGED conv
    /\ UNCHANGED <<activity, profile, emails, owned, ids, history, overlap>>

(* DeleteExistingUser *)
RemoveEmailProfile(r) ==
    /\ call[r].pc = "deleteUser"
    /\ \/ emails' = MapRemoveKey(emails, call[r].email) /\ GoTo(r, "list") /\ UNCHANGED failed
       \/ Fault("command") /\ Failed(r, "list") /\ UNCHANGED emails
    /\ UNCHANGED <<activity, profile, conv, owned, ids, history, overlap>>

ListOwned(r) ==
    /\ call[r].pc = "list"
    /\ \/ /\ call' = [call EXCEPT ![r].pc = "next",
                                  ![r].todo = GetMapAll(owned[call[r].prof])]
          /\ UNCHANGED failed
       \/ Fault("command") /\ Failed(r, "next")
    /\ UNCHANGED <<storage, ids, history, overlap>>

NextConversation(r) ==
    /\ call[r].pc = "next"
    /\ \E v \in call[r].todo :
         call' = [call EXCEPT ![r].pc = "getConv", ![r].conv = v, ![r].todo = @ \ {v}]
    /\ UNCHANGED <<storage, ids, history, failed, overlap>>

DeleteProfile(r) ==
    LET p == call[r].prof IN
    /\ call[r].pc = "next"
    /\ call[r].todo = {}
    /\ \/ /\ profile' = DeleteStorage(profile, p)
          /\ Note(IF call[r].errs THEN history ELSE [history EXCEPT !.deleted = @ \cup {p}])
          /\ UNCHANGED failed
       \/ Fault("command") /\ UNCHANGED <<profile, history>>
    /\ Answer(r)
    /\ UNCHANGED <<activity, emails, conv, owned, ids, overlap>>

-----------------------------------------------------------------------------
(* PatchProfileHandler *)

(* Mutant: the other field is not carried over. *)
PatchedOnly(c, f, ok) ==
    [email |-> c.email, fields |-> [Unchanged EXCEPT ![f] = TRUE], usable |-> ok]

(* Mutant: the email hash is not carried over. *)
PatchedEmpty(c, f, ok) ==
    [email |-> None, fields |-> [c.fields EXCEPT ![f] = TRUE], usable |-> ok]

(* The profile that was loaded, with a new name or secret. *)
Patched(c, f, ok) ==
    [email |-> c.email, fields |-> [c.fields EXCEPT ![f] = TRUE], usable |-> ok]

(* A new secret may be anything; only a UUID is of use.  The secret that   *)
(* stays has just authenticated the request.                               *)
PatchProfile(r, f) ==
    LET p == call[r].prof IN
    /\ call[r].pc = "patch"
    /\ \/ /\ \E ok \in (IF f = "secret" THEN BOOLEAN ELSE {TRUE}) :
               profile' = StoreObject(profile, p, Patched(call[r], f, ok))
          /\ Note([history EXCEPT !.patched[p][f] = TRUE])
          /\ UNCHANGED failed
       \/ Fault("command") /\ UNCHANGED <<profile, history>>
    /\ Answer(r)
    /\ UNCHANGED <<activity, emails, conv, owned, ids, overlap>>

-----------------------------------------------------------------------------
(* Client activity *)

(* A client that has a profile launches: the email must be mapped to it,   *)
(* and the profile is then loaded for the authentication.                  *)
Relaunch(r, p, k) ==
    /\ Begin(r)
    /\ p \in users
    /\ \E e \in Email : emails[e] = p
    /\ call' = [call EXCEPT ![r] = [Idle EXCEPT !.pc = "authenticate", !.op = "relaunch",
                                                !.prof = p, !.client = k]]
    /\ UNCHANGED <<storage, ids, failed>>

AuthenticateLaunch(r) ==
    /\ call[r].pc = "authenticate"
    /\ IF CanAuthenticate(call[r].prof) THEN GoTo(r, "observe") ELSE Answer(r)
    /\ UNCHANGED <<storage, ids, history, failed, overlap>>

(* ObserveClientLaunch, then the answer, whether or not it has failed.     *)
ObserveClientLaunch(r) ==
    LET k == call[r].client
        p == call[r].prof
    IN  /\ call[r].pc = "observe"
        /\ Note([history EXCEPT !.launched[k] = p])
        /\ \/ activity' = StoreObject(activity, k, p)
              /\ UNCHANGED failed
           \/ Fault("command") /\ UNCHANGED activity
        /\ users' = users \cup {p}
        /\ Answer(r)
        /\ UNCHANGED <<profile, emails, conv, owned, fresh, overlap>>

(* GetShutdownHandler observes the activity of a request that is NOT       *)
(* authenticated; an authenticated one it ignores.                         *)
ReadActivity(r, k) ==
    /\ Begin(r)
    /\ activity[k] # None
    /\ call' = [call EXCEPT ![r] = [Idle EXCEPT !.pc = "active", !.op = "shutdown",
                                                !.client = k, !.seen = activity[k]]]
    /\ UNCHANGED <<storage, ids, failed>>

(* Mutant: a new record is saved, without what was read. *)
SaveNewActivity(r) ==
    /\ call[r].pc = "active"
    /\ \E p \in Profile : activity' = StoreObject(activity, call[r].client, p)
    /\ Answer(r)
    /\ UNCHANGED <<profile, emails, conv, owned, ids, history, failed, overlap>>

(* The record that was read is saved, with the new activity. *)
SaveActivity(r) ==
    /\ call[r].pc = "active"
    /\ \/ activity' = StoreObject(activity, call[r].client, call[r].seen) /\ UNCHANGED failed
       \/ Fault("command") /\ UNCHANGED activity
    /\ Answer(r)
    /\ UNCHANGED <<profile, emails, conv, owned, ids, history, overlap>>

(* The server of the request is gone; nothing is cleaned up. *)
Crash(r) ==
    /\ call[r].pc # "idle"
    /\ Fault("crash")
    /\ Answer(r)
    /\ UNCHANGED <<storage, ids, history, overlap>>

-----------------------------------------------------------------------------
Create(r) == SaveProfile(r) \/ SetEmailProfile(r) \/ CleanEmail(r) \/ CleanProfile(r)
             \/ LookupName(r) \/ SaveConversation(r) \/ AddOwnedConversation(r)
             \/ CleanConversation(r)

Delete(r) == FindConversation(r) \/ GetConversation(r) \/ RemoveOwnedConversation(r)
             \/ DeleteConversation(r) \/ RemoveEmailProfile(r) \/ ListOwned(r)
             \/ NextConversation(r) \/ DeleteProfile(r)

Observe(r) == AuthenticateLaunch(r) \/ ObserveClientLaunch(r) \/ SaveActivity(r)

Next ==
    \E r \in Request :
        \/ \E k \in Client :
             \/ \E e \in Email : Launch(r, e, k)
             \/ \E p \in Profile : Relaunch(r, p, k)
             \/ ReadActivity(r, k)
        \/ \E p \in Profile :
             \/ \E n \in Name, op \in {"post", "delete"} : Authenticate(r, op, p, n)
             \/ \E op \in {"deleteUser", "patch"} : Authenticate(r, op, p, None)
        \/ \E f \in Field : PatchProfile(r, f)
        \/ Create(r) \/ Delete(r) \/ Observe(r) \/ Crash(r)

Spec == Init /\ [][Next]_vars

-----------------------------------------------------------------------------
(* The system is at rest, and nothing but its own steps has happened: no   *)
(* failure, and no two requests at a time.                                 *)
Quiet == Busy = {} /\ failed = {} /\ ~overlap

(* Every variable has the shape the code gives it. *)
TypeOK ==
    /\ profile \in [Profile -> ProfileRecord \cup {None}]
    /\ emails \in [Email -> Profile \cup {None}]
    /\ conv \in [Conv -> ConvRecord \cup {None}]
    /\ owned \in [Profile -> [Name -> Conv \cup {None}]]
    /\ call \in [Request -> CallRecord]
    /\ activity \in [Client -> Profile \cup {None}]
    /\ users \in SUBSET Profile
    /\ fresh \in SUBSET (Profile \cup Conv)
    /\ history \in [patched : [Profile -> Fields], deleted : SUBSET Profile,
                    launched : [Client -> Profile \cup {None}]]
    /\ overlap \in BOOLEAN
    /\ failed \in SUBSET Faults

(* What an email is mapped to is a profile with that email, so that no     *)
(* launch is sent to authenticate against nothing, and what a name is      *)
(* mapped to is a conversation of that owner and name, so that the case of *)
(* another owner in DeleteOwnedConversation is dead code: however requests *)
(* interleave, and wherever one of them crashes.  (A command that fails    *)
(* while a user is deleted does leave such an email.)                      *)
MappingsResolve ==
    "command" \notin failed =>
        /\ \A e \in Email : emails[e] # None =>
              profile[emails[e]] # None /\ profile[emails[e]].email = e
        /\ \A p \in Profile, n \in Name : owned[p][n] # None =>
              conv[owned[p][n]] = [owner |-> p, name |-> n]

(* "Before deleting the user, it deletes all the user's owned              *)
(* conversations, and it removes the user's mapping": nothing is left of a *)
(* user that was deleted without an error.                                 *)
DeletedLeavesNothing ==
    Quiet => \A p \in history.deleted :
        /\ \A v \in Conv : conv[v] # None => conv[v].owner # p
        /\ \A e \in Email : emails[e] # p
        /\ profile[p] = None

(* Without failures every user can be found by email and every             *)
(* conversation by its owner and name.  Two users with one email would     *)
(* violate it: requests that overlap do create them (PostLaunchHandler     *)
(* looks the email up and creates the user later).                         *)
EverythingIsReachable ==
    Quiet =>
        /\ \A p \in Profile : profile[p] # None => emails[profile[p].email] = p
        /\ \A v \in Conv : conv[v] # None => owned[conv[v].owner][conv[v].name] = v

(* A patch that was answered is not undone by the patch of another field,  *)
(* whatever fails, unless requests overlap.                                *)
PatchesKept ==
    Busy = {} /\ ~overlap => \A p \in users, f \in Field :
        profile[p] # None /\ history.patched[p][f] => profile[p].fields[f]

(* The record of a client is "at the time of its most recent launch": a    *)
(* shutdown that is recorded keeps what the launch saved, unless the two   *)
(* overlap.                                                                *)
LaunchIsKept ==
    Quiet => \A k \in Client :
        history.launched[k] # None => activity[k] = history.launched[k]
-----------------------------------------------------------------------------
(* A statement of a message that the code does not meet.  No run checks    *)
(* it; the README says how it fails.                                       *)

(* "server data is corrupt - please report a bug!": the secret of a stored *)
(* profile is a UUID.                                                      *)
SecretsAreUsable == \A p \in Profile : profile[p] # None => profile[p].usable
=============================================================================

-------------------------- MODULE SessionOwnership --------------------------
(***************************************************************************)
(* What the hand-off of conversation sessions promises: the session of a   *)
(* conversation is in one place at a time.  It is either kept by one       *)
(* server, or in storage, or nowhere, and it goes from one server to       *)
(* another only by way of storage.                                         *)
(*                                                                         *)
(* SessionHandoff, the model of the code, is shown to implement this.      *)
(***************************************************************************)
CONSTANTS
    Server,   \* server instances
    Conv,     \* conversations
    Storage,  \* the place of a session that is saved and not running
    Nowhere   \* the place of a session that does not exist

VARIABLE place  \* where the session of each conversation is

PlaceType == place \in [Conv -> Server \cup {Storage, Nowhere}]

Init == place \in [Conv -> {Storage, Nowhere}]

(* A server takes a session out of storage and keeps it. *)
Take(s, c) ==
    /\ place[c] = Storage
    /\ place' = [place EXCEPT ![c] = s]

(* The server that keeps a session hands it back to storage. *)
Return(s, c) ==
    /\ place[c] = s
    /\ place' = [place EXCEPT ![c] = Storage]

(* The sessions a server keeps can end with it, all at once or one by one. *)
Lose(s, C) ==
    /\ C # {}
    /\ \A c \in C : place[c] = s
    /\ place' = [c \in Conv |-> IF c \in C THEN Nowhere ELSE place[c]]

Next ==
    \/ \E s \in Server, c \in Conv : Take(s, c) \/ Return(s, c)
    \/ \E s \in Server, C \in SUBSET Conv : Lose(s, C)

Spec == Init /\ [][Next]_place
=============================================================================

--------------------------- MODULE MCParticipants ---------------------------
(* Small instances of Participants for TLC. *)
EXTENDS Participants, TLC

CONSTANTS c1, c2, c3  \* clients

(* Clients differ in nothing but their names. *)
Clients == Permutations(Client)
=============================================================================

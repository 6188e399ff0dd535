----------------------------- MODULE MCAccounts -----------------------------
(* Small instances of Accounts for TLC. *)
EXTENDS Accounts, TLC

CONSTANTS r1, r2,  \* requests
          e1,      \* emails
          p1, p2,  \* profiles
          v1, v2,  \* conversations
          n1, n2,  \* names
          k1       \* clients

(* Requests and ids differ in nothing but their names. *)
Renamed == Permutations(Request) \cup Permutations(Profile) \cup Permutations(Conv)
=============================================================================

-------------------------- MODULE MCSessionHandoff --------------------------
(* Small instances of SessionHandoff for TLC: the requests go to server s1. *)
EXTENDS SessionHandoff

CONSTANTS s1, s2, c1, c2, r1

OneHost == [r \in Request |-> s1]
=============================================================================

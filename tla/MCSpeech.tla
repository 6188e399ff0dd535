------------------------------ MODULE MCSpeech ------------------------------
(* Two speeches and two callers: callers can wait for one speech together, or  *)
(* for different ones.                                                         *)
EXTENDS Speech
=============================================================================

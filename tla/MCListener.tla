----------------------------- MODULE MCListener -----------------------------
(* Two characters and live texts of up to two: a diff can then start at, in    *)
(* and after the listener's text.  Three edits are enough to type before the   *)
(* listener attaches, while its reread is under way and after it.              *)
EXTENDS Listener
=============================================================================

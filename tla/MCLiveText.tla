----------------------------- MODULE MCLiveText -----------------------------
(* Two characters, texts of up to three, two edits.  Two edits reach a diff    *)
(* in the middle of a line, one that deletes and one of several lines; the     *)
(* receiver that is late attaches before, between or after them.               *)
EXTENDS LiveText
=============================================================================

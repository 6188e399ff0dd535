-------------------------- MODULE MCTranscription --------------------------
(* Small instances of Transcription for TLC. *)
EXTENDS Transcription
=============================================================================

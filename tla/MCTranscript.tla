---------------------------- MODULE MCTranscript ----------------------------
(***************************************************************************)
(* Small instances of a session's messages for TLC.                        *)
(***************************************************************************)
EXTENDS Transcript

ThreeTurns == 1 .. 3
OneTurn == {1}

=============================================================================

--------------------------- MODULE MCVoiceSession ---------------------------
(***************************************************************************)
(* VoiceSession with every call from one number.                           *)
(***************************************************************************)
EXTENDS VoiceSession

CONSTANT n1
OneNumber == [sid \in Sid |-> n1]

=============================================================================

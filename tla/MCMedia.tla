-------------------------------- MODULE MCMedia --------------------------------
(* Instance of MediaRelay for TLC. *)
EXTENDS MediaRelay

CONSTANTS photo, voice
=============================================================================

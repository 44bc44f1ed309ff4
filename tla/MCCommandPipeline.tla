------------------------- MODULE MCCommandPipeline -------------------------
(* Instances of CommandPipeline for TLC. *)
EXTENDS CommandPipeline

OneReservation == {"reserve"}
TwoCommands    == {"reserve", "cancel"}
OneCancel      == {"cancel"}
NoCommand      == {}
=============================================================================

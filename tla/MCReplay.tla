------------------------------- MODULE MCReplay --------------------------------
(* Model-checking instances of the generator and the replay. *)
EXTENDS L3Replay
=============================================================================

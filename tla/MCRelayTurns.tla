---------------------------- MODULE MCRelayTurns ----------------------------
(* Five messages of two places, in every combination; a worker may retire    *)
(* and a new one start up to five times.                                     *)
EXTENDS RelayTurns
=============================================================================

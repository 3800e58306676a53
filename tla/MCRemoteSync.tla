---------------------------- MODULE MCRemoteSync ----------------------------
(* Two threads, one of them imported, that have a message each.             *)
EXTENDS RemoteSyncClaims

OneEach == <<"x", "y">>
=============================================================================

--------------------------- MODULE MCRelayReplies ---------------------------
(* The constants of RelayReplies are given in the .cfg files: a batch of two *)
(* tags, one retry, and two failures anywhere, so that the retry fails too.  *)
EXTENDS RelayReplies
=============================================================================

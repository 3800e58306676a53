-------------------------- MODULE RemoteSyncClaims --------------------------
(* What the syncer says of a run that did not bring everything over and     *)
(* does not do.  Checked, and violated, by a run of its own.                 *)
EXTENDS RemoteSync

\* "Sync will try them again" (run), "the next run starts over safely"
\* (runClaimed): a thread that a failed, cancelled or dead run left out is copied in
\* the end, while the sync is on, unless its copy was deleted here.
LeftOutIsTriedAgain ==
  <>[](account.on /\ ~account.attention) =>
    <>[](\A t \in Threads \ (deleted \cup crossed) :
           link[t].state = "detached" \/ (Of(t) # {} => copy[t] # <<>> /\ Of(t) \subseteq Copy(t).msgs))
=============================================================================

---------------------------- MODULE MCCheckpoint ----------------------------
(* Two overlapping turns, either of which may be a send, a retry or a run, in  *)
(* an imported thread that two workers may rehydrate.                        *)
EXTENDS Checkpoint, TLC

Alike == Permutations(Turns) \cup Permutations(Runs)
=============================================================================

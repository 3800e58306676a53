----------------------------- MODULE MCScheduler -----------------------------
(* Two instances, a recurring and a one-off schedule, two runs at once.      *)
EXTENDS Scheduler

OneRetry == [s \in Schedules |-> IF s \in OneOff THEN 0 ELSE 1]
=============================================================================

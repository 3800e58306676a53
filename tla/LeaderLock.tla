------------------------------ MODULE LeaderLock ------------------------------
(***************************************************************************)
(* The leader lock of the agent-job scheduler and of the relay             *)
(* supervisors: a Postgres advisory lock tried on a connection of its own  *)
(* and held by that connection's session.  The server frees the lock when  *)
(* the session ends, whoever notices: an instance learns of it at its next *)
(* health check.                                                           *)
(***************************************************************************)
CONSTANTS
  Instances,  \* API processes
  Nobody      \* no instance

ASSUME LockAssumption == Nobody \notin Instances

VARIABLES
  holder,   \* whose session holds the advisory lock in Postgres
  session   \* each instance's lock object: none, held, or lost (its session ended)

lock == <<holder, session>>

LockTypeOK ==
  /\ holder \in Instances \cup {Nobody}
  /\ session \in [Instances -> {"none", "held", "lost"}]

LockInit == holder = Nobody /\ session = [i \in Instances |-> "none"]

\* pg_try_advisory_lock on a new session; it does not wait.
TryAcquire(i) ==
  /\ session[i] = "none" /\ holder = Nobody
  /\ holder' = i
  /\ session' = [session EXCEPT ![i] = "held"]

\* Mutant: the lock outlives its session.
KeptBy(i) == holder

\* The lock once i's session is gone.
FreedBy(i) == IF holder = i THEN Nobody ELSE holder

\* The session ends without the instance knowing: the connection broke or the
\* database restarted.
LoseSession(i) ==
  /\ session[i] = "held"
  /\ holder' = FreedBy(i)
  /\ session' = [session EXCEPT ![i] = "lost"]

\* A failed health check closes the connection, so that a check that only timed
\* out gives the lock up too.
CloseUnhealthy(i) ==
  /\ session[i] # "none"
  /\ holder' = FreedBy(i)
  /\ session' = [session EXCEPT ![i] = "lost"]

\* Release unlocks and closes a session that is still there; after a failed
\* check there is none.
Release(i) ==
  /\ session[i] # "none"
  /\ holder' = FreedBy(i)
  /\ session' = [session EXCEPT ![i] = "none"]

\* The process ends and its connections with it.
DropSession(i) ==
  /\ holder' = FreedBy(i)
  /\ session' = [session EXCEPT ![i] = "none"]

\* What the lock is for: an instance whose session is intact is the only one.
HeldByOne == \A i \in Instances : session[i] = "held" <=> holder = i
=============================================================================

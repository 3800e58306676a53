-------------------------- MODULE Scheduler_proofs --------------------------
(***************************************************************************)
(* Proofs about the scheduler of agent jobs, for any number of instances,  *)
(* runs and schedules.                                                     *)
(*                                                                         *)
(* OneScheduler rests on the lock: an instance that has not stopped quartz *)
(* has a session, intact or lost (LeadersHaveSession).  SingleRun rests on *)
(* the mark: a run that began in this leadership has its mark standing,    *)
(* unless it was wiped (RunsAreMarked).  OneOffRunsOnce needs to know      *)
(* where a second run could come from: until it is excused, one instance   *)
(* has all the runs and the triggers (Calm), and a prompt that began is    *)
(* still being run or has ended the job (OnceOver).                        *)
(***************************************************************************)
EXTENDS Scheduler, TLAPS

\* An instance that may project and fire has a session; a follower has none.
LeadersHaveSession ==
  /\ HeldByOne
  /\ \A i \in Instances : role[i] \in {"leading", "stopping", "quiet"} <=> session[i] # "none"

\* A run of this leadership is marked in flight, or its mark was wiped.
RunsAreMarked ==
  \A r \in Runs : Busy(r) /\ run[r].here => inFlight[run[r].at] \/ wiped[run[r].at]

\* Everything goes on at instance i, one run at a time.
AllAt(i) ==
  /\ \A j \in Instances \ {i} : role[j] \notin Scheduling
  /\ \A r \in Runs : Live(r) => run[r].at = i
  /\ \A r \in Runs : Busy(r) => inFlight[i]
  /\ \A r, q \in Runs : Busy(r) /\ Busy(q) => r = q

Calm == begun \in {"never", "once"} => \E i \in Instances : AllAt(i)

\* A run that is past the row it loaded, with a one-off schedule.
Ran(r) ==
  \/ run[r].pc = "turn" /\ run[r].sched \in OneOff
  \/ run[r].pc = "record" /\ run[r].verdict \in {"complete", "failed"}

Over ==
  /\ job.status \notin {"active", "paused"}
  /\ \A r \in Runs : run[r].pc \notin {"chat", "link", "window", "turn", "record"}

Gone ==
  /\ \A r \in Runs : ~Live(r)
  /\ \A i \in Instances : role[i] \notin Scheduling

\* A one-off prompt that began is still run, or ended the job, or its process ended.
OnceOver == begun = "once" => Over \/ Gone \/ \E r \in Runs : Ran(r)

OnceInv == Calm /\ OnceOver /\ OneOffRunsOnce
-----------------------------------------------------------------------------

\* A run that is not there.
LEMMA IdleOK == Idle \in RunStates
BY DEF Idle, Blank, RunStates, RunFields

\* One run takes a new state.
LEMMA PutRun == ASSUME RunTypeOK, NEW r \in Runs, NEW x \in RunStates, run' = [run EXCEPT ![r] = x]
                PROVE RunTypeOK'
BY DEF RunTypeOK

\* A run goes on to its next label.
LEMMA GotoOK == ASSUME RunTypeOK, NEW r \in Runs, run[r].pc # "none",
                   NEW l \in {"link", "window", "turn", "disarm", "forget"}, l \in {"link", "window", "turn"} => run[r].sched \in Schedules,
                   Goto(r, l)
   PROVE RunTypeOK'
<1>1. run[r] \in RunStates
  BY DEF RunTypeOK
<1>2. [run[r] EXCEPT !.pc = l] \in RunStates
  BY <1>1 DEF RunStates, RunFields
<1>3. QED
  BY <1>2, PutRun DEF Goto, RunTypeOK

\* A run that has recorded, or is about to, is a run's state.
LEMMA OnlyOK ==
  ASSUME RunTypeOK, NEW r \in Runs, run[r].pc # "none"
  PROVE  /\ \A l \in {"end", "disarm"} : Only(r, l) \in RunStates
         /\ \A v \in {"none", "complete", "failed", "paused"} :
              [Only(r, "record") EXCEPT !.verdict = v] \in RunStates
         /\ Blank("end", run[r].at, TRUE) \in RunStates
<1>1. run[r].at \in Instances /\ run[r].here \in BOOLEAN
  BY DEF RunTypeOK, RunStates, RunFields
<1>2. ASSUME NEW l \in {"end", "disarm", "record"}, NEW h \in BOOLEAN
      PROVE  Blank(l, run[r].at, h) \in RunStates
  BY <1>1 DEF Blank, RunStates, RunFields
<1>3. ASSUME NEW x \in RunStates, x.pc = "record", NEW v \in {"none", "complete", "failed", "paused"}
      PROVE  [x EXCEPT !.verdict = v] \in RunStates
  BY <1>3 DEF RunStates, RunFields
<1>4. Only(r, "record").pc = "record"
  BY DEF Only, Blank
<1>5. QED
  BY <1>1, <1>2, <1>3, <1>4 DEF Only

\* A spawned run has its instance.
LEMMA SpawnOK ==
  ASSUME NEW i \in Instances
  PROVE  /\ Spawned(i) \in RunStates
         /\ [Spawned(i) EXCEPT !.manual = TRUE] \in RunStates
         /\ \A n \in 0..2 : [Spawned(i) EXCEPT !.retry = n] \in RunStates
<1>1. Spawned(i) \in RunStates /\ Spawned(i).pc = "spawned"
  BY DEF Spawned, Blank, RunStates, RunFields
<1>2. QED
  BY <1>1 DEF RunStates, RunFields

\* The run that has loaded the row.
Loaded(r) ==
  [run[r] EXCEPT !.pc = IF job.chat THEN "window" ELSE "chat", !.here = TRUE, !.manual = FALSE,
                 !.sched = job.sched, !.noNext = job.status = "active" /\ job.sched \in spent]

LEMMA LoadedOK ==
  ASSUME RunTypeOK, JobTypeOK, NEW r \in Runs, run[r].pc = "spawned"
  PROVE  /\ Loaded(r) \in RunStates
         /\ Loaded(r).at = run[r].at
         /\ Loaded(r).pc \in {"chat", "window"}
<1>1. run[r] \in RunStates /\ job.sched \in Schedules
  BY DEF RunTypeOK, JobTypeOK, Rows
<1>2. PICK b \in BOOLEAN : b = (job.status = "active" /\ job.sched \in spent)
  OBVIOUS
<1>3. PICK l \in {"chat", "window"} : l = IF job.chat THEN "window" ELSE "chat"
  OBVIOUS
<1>4. Loaded(r) = [run[r] EXCEPT !.pc = l, !.here = TRUE, !.manual = FALSE, !.sched = job.sched, !.noNext = b]
  BY <1>2, <1>3, Zenon DEF Loaded
<1>5. QED
  BY <1>1, <1>2, <1>3, <1>4 DEF RunStates, RunFields

\* A run begins: it gives way, or is marked and has loaded the row or is over.
LEMMA BeginIs ==
  ASSUME NEW r \in Runs, Begin(r)
  PROVE  /\ run[r].pc = "spawned"
         /\ IF inFlight[run[r].at]
              THEN run' = [run EXCEPT ![r] = Idle] /\ inFlight' = inFlight
              ELSE /\ inFlight' = [inFlight EXCEPT ![run[r].at] = TRUE]
                   /\ \/ run' = [run EXCEPT ![r] = Blank("end", run[r].at, TRUE)]
                      \/ job.status \in {"active", "paused"} /\ run' = [run EXCEPT ![r] = Loaded(r)]
BY Zenon DEF Begin, Marked, Loaded

\* Only a leadership leaves runs behind, with their states.
LEMMA FreshOK == ASSUME RunTypeOK, NEW i \in Instances, FreshMaps(i) PROVE RunTypeOK'
<1>1. ASSUME NEW r \in Runs PROVE [run[r] EXCEPT !.here = FALSE] \in RunStates /\ run[r] \in RunStates
  BY ZenonT(40) DEF RunTypeOK, RunStates, RunFields
<1>2. QED
  BY <1>1 DEF FreshMaps, RunTypeOK

\* Each write of the row leaves a row.
LEMMA JobOK ==
  ASSUME JobTypeOK
  PROVE  /\ \A st \in Statuses : [job EXCEPT !.status = st] \in Rows
         /\ [job EXCEPT !.chat = TRUE] \in Rows
         /\ \A s \in Schedules, st \in Statuses : [job EXCEPT !.sched = s, !.status = st] \in Rows
BY DEF JobTypeOK, Rows

\* Types: the initial values and every step keep each variable in its set.
LEMMA InitTypeOK == Init => TypeOK
<1> SUFFICES ASSUME Init PROVE TypeOK
  OBVIOUS
<1>1. JobTypeOK
  BY SchedulerAssumption DEF Init, JobTypeOK, Rows, Statuses
<1>2. InstanceTypeOK
  BY LockAssumption DEF Init, LockInit, InstanceTypeOK, LockTypeOK, Scheduling, AtRest
<1>3. RunTypeOK
  BY IdleOK DEF Init, RunTypeOK
<1>4. QED
  BY <1>1, <1>2, <1>3 DEF TypeOK

\* Every step keeps the types.
LEMMA StepTypeOK == TypeOK /\ [Next]_vars => TypeOK'
<1> SUFFICES ASSUME TypeOK, [Next]_vars PROVE TypeOK'
  OBVIOUS
<1> USE LockAssumption, SchedulerAssumption DEF TypeOK
<1>1. ASSUME NEW i \in Instances, Lead(i) PROVE TypeOK'
  <2>1. JobTypeOK'
    BY <1>1 DEF Lead, FreshMaps, TryAcquire, lock, JobTypeOK, Rows, Statuses
  <2>2. InstanceTypeOK'
    BY <1>1 DEF Lead, FreshMaps, TryAcquire, lock, InstanceTypeOK, LockTypeOK, Scheduling
  <2>3. RunTypeOK'
    BY <1>1, FreshOK DEF Lead
  <2>4. QED
    BY <2>1, <2>2, <2>3
<1>2. ASSUME NEW i \in Instances, Lose(i) PROVE TypeOK'
  <2>1. JobTypeOK'
    BY <1>2 DEF Lose, LoseSession, FreedBy, Spend, instance, history, JobTypeOK, Rows, Statuses
  <2>2. InstanceTypeOK'
    BY <1>2 DEF Lose, LoseSession, FreedBy, Spend, instance, history, InstanceTypeOK, LockTypeOK, Scheduling
  <2>3. RunTypeOK'
    BY <1>2 DEF Lose, LoseSession, FreedBy, Spend, instance, history, RunTypeOK
  <2>4. QED
    BY <2>1, <2>2, <2>3
<1>3. ASSUME NEW i \in Instances, Unhealthy(i) PROVE TypeOK'
  <2>1. JobTypeOK'
    BY <1>3 DEF Unhealthy, CloseUnhealthy, FreedBy, Spend, history, JobTypeOK, Rows, Statuses
  <2>2. InstanceTypeOK'
    BY <1>3 DEF Unhealthy, CloseUnhealthy, FreedBy, Spend, history, InstanceTypeOK, LockTypeOK, Scheduling
  <2>3. RunTypeOK'
    BY <1>3 DEF Unhealthy, CloseUnhealthy, FreedBy, Spend, history, RunTypeOK
  <2>4. QED
    BY <2>1, <2>2, <2>3
<1>4. ASSUME NEW i \in Instances, StopQuartz(i) PROVE TypeOK'
  <2>1. JobTypeOK'
    BY <1>4 DEF StopQuartz, lock, history, JobTypeOK, Rows, Statuses
  <2>2. InstanceTypeOK'
    BY <1>4 DEF StopQuartz, lock, history, InstanceTypeOK, LockTypeOK, Scheduling
  <2>3. RunTypeOK'
    BY <1>4 DEF StopQuartz, lock, history, RunTypeOK
  <2>4. QED
    BY <2>1, <2>2, <2>3
<1>5. ASSUME NEW i \in Instances, ReleaseLock(i) PROVE TypeOK'
  <2>1. JobTypeOK'
    BY <1>5 DEF ReleaseLock, Release, FreedBy, history, JobTypeOK, Rows, Statuses
  <2>2. InstanceTypeOK'
    BY <1>5 DEF ReleaseLock, Release, FreedBy, history, InstanceTypeOK, LockTypeOK, Scheduling
  <2>3. RunTypeOK'
    BY <1>5 DEF ReleaseLock, Release, FreedBy, history, RunTypeOK
  <2>4. QED
    BY <2>1, <2>2, <2>3
<1>6. ASSUME NEW i \in Instances, StepDown(i) PROVE TypeOK'
  <2>1. JobTypeOK'
    BY <1>6 DEF StepDown, FreshMaps, lock, JobTypeOK, Rows, Statuses
  <2>2. InstanceTypeOK'
    BY <1>6 DEF StepDown, FreshMaps, lock, InstanceTypeOK, LockTypeOK, Scheduling
  <2>3. RunTypeOK'
    BY <1>6, FreshOK DEF StepDown
  <2>4. QED
    BY <2>1, <2>2, <2>3
<1>7. ASSUME NEW i \in Instances, Shutdown(i) PROVE TypeOK'
  <2>1. JobTypeOK'
    BY <1>7 DEF Shutdown, Spend, lock, history, JobTypeOK, Rows, Statuses
  <2>2. InstanceTypeOK'
    BY <1>7 DEF Shutdown, Spend, lock, history, InstanceTypeOK, LockTypeOK, Scheduling
  <2>3. RunTypeOK'
    BY <1>7 DEF Shutdown, Spend, lock, history, RunTypeOK
  <2>4. QED
    BY <2>1, <2>2, <2>3
<1>8. ASSUME NEW i \in Instances, Exit(i) PROVE TypeOK'
  <2>1. JobTypeOK'
    BY <1>8 DEF Exit, DropSession, FreedBy, Spend, Idle, AtRest, JobTypeOK, Rows, Statuses
  <2>2. InstanceTypeOK'
    BY <1>8 DEF Exit, DropSession, FreedBy, Spend, Idle, AtRest, InstanceTypeOK, LockTypeOK, Scheduling
  <2>3. RunTypeOK'
    BY <1>8, IdleOK DEF Exit, RunTypeOK
  <2>4. QED
    BY <2>1, <2>2, <2>3
<1>9. ASSUME NEW i \in Instances, Restart(i) PROVE TypeOK'
  <2>1. JobTypeOK'
    BY <1>9 DEF Restart, lock, history, JobTypeOK, Rows, Statuses
  <2>2. InstanceTypeOK'
    BY <1>9 DEF Restart, lock, history, InstanceTypeOK, LockTypeOK, Scheduling
  <2>3. RunTypeOK'
    BY <1>9 DEF Restart, lock, history, RunTypeOK
  <2>4. QED
    BY <2>1, <2>2, <2>3
<1>10. ASSUME NEW i \in Instances, PassRead(i) PROVE TypeOK'
  <2>1. JobTypeOK'
    BY <1>10 DEF PassRead, Unless, lock, history, JobTypeOK, Rows, Statuses
  <2>2. InstanceTypeOK'
    BY <1>10 DEF PassRead, Unless, lock, history, JobTypeOK, Rows, InstanceTypeOK, LockTypeOK, Scheduling
  <2>3. RunTypeOK'
    BY <1>10 DEF PassRead, Unless, lock, history, RunTypeOK
  <2>4. QED
    BY <2>1, <2>2, <2>3
<1>11. ASSUME NEW i \in Instances, PassDisarm(i) PROVE TypeOK'
  <2>1. JobTypeOK'
    BY <1>11 DEF PassDisarm, AtRest, lock, history, JobTypeOK, Rows, Statuses
  <2>2. InstanceTypeOK'
    BY <1>11, SMTT(30) DEF PassDisarm, AtRest, lock, history, InstanceTypeOK, LockTypeOK, Scheduling
  <2>3. RunTypeOK'
    BY <1>11 DEF PassDisarm, AtRest, lock, history, RunTypeOK
  <2>4. QED
    BY <2>1, <2>2, <2>3
<1>12. ASSUME NEW i \in Instances, PassArm(i) PROVE TypeOK'
  <2>1. JobTypeOK'
    BY <1>12 DEF PassArm, Armed, Unless, AtRest, lock, history, JobTypeOK, Rows, Statuses
  <2>2. InstanceTypeOK'
    BY <1>12, SMTT(60) DEF PassArm, Armed, Unless, AtRest, lock, history, InstanceTypeOK, LockTypeOK, Scheduling
  <2>3. RunTypeOK'
    BY <1>12 DEF PassArm, Armed, Unless, AtRest, lock, history, RunTypeOK
  <2>4. QED
    BY <2>1, <2>2, <2>3
<1>13. ASSUME NEW i \in Instances, PassNote(i) PROVE TypeOK'
  <2>1. JobTypeOK'
    BY <1>13 DEF PassNote, AtRest, lock, history, JobTypeOK, Rows, Statuses
  <2>2. InstanceTypeOK'
    BY <1>13 DEF PassNote, AtRest, lock, history, InstanceTypeOK, LockTypeOK, Scheduling
  <2>3. RunTypeOK'
    BY <1>13 DEF PassNote, AtRest, lock, history, RunTypeOK
  <2>4. QED
    BY <2>1, <2>2, <2>3
<1>14. ASSUME NEW i \in Instances, Fire(i) PROVE TypeOK'
  <2>1. JobTypeOK'
    BY <1>14 DEF Fire, SpentWith, Spend, history, JobTypeOK, InstanceTypeOK
  <2>2. InstanceTypeOK'
    BY <1>14 DEF Fire, SpentWith, Spawn, Spawned, Blank, Spend, lock, history, InstanceTypeOK, LockTypeOK, Scheduling
  <2>3. RunTypeOK'
    BY <1>14, SpawnOK, PutRun DEF Fire, SpentWith, Spawn
  <2>4. QED
    BY <2>1, <2>2, <2>3
<1>15. ASSUME NEW i \in Instances, FireRetry(i) PROVE TypeOK'
  <2>1. JobTypeOK'
    BY <1>15 DEF FireRetry, Spawn, Idle, lock, history, JobTypeOK, Rows, Statuses
  <2>2. InstanceTypeOK'
    BY <1>15 DEF FireRetry, Spawn, Idle, lock, history, InstanceTypeOK, LockTypeOK, Scheduling
  <2>3. RunTypeOK'
    <3>1. retries[i] \subseteq 0..2
      BY DEF InstanceTypeOK
    <3>2. QED
      BY <1>15, <3>1, SpawnOK, PutRun DEF FireRetry, Spawn
  <2>4. QED
    BY <2>1, <2>2, <2>3
<1>16. ASSUME NEW i \in Instances, RunNow(i) PROVE TypeOK'
  <2>1. JobTypeOK'
    BY <1>16 DEF RunNow, Spawn, Idle, Spend, lock, instance, history, JobTypeOK, Rows, Statuses
  <2>2. InstanceTypeOK'
    BY <1>16 DEF RunNow, Spawn, Idle, Spend, lock, instance, history, InstanceTypeOK, LockTypeOK, Scheduling
  <2>3. RunTypeOK'
    BY <1>16, SpawnOK, PutRun DEF RunNow, Spawn
  <2>4. QED
    BY <2>1, <2>2, <2>3
<1>17. ASSUME NEW r \in Runs, Begin(r) PROVE TypeOK'
  <2>1. JobTypeOK'
    BY <1>17 DEF Begin, Marked, Only, Blank, Idle, Spend, lock, history, JobTypeOK, Rows, Statuses
  <2>2. InstanceTypeOK'
    BY <1>17 DEF Begin, Marked, Only, Blank, Idle, Spend, lock, history, InstanceTypeOK, LockTypeOK, Scheduling
  <2>3. RunTypeOK'
    BY <1>17, BeginIs, IdleOK, LoadedOK, OnlyOK, PutRun
  <2>4. QED
    BY <2>1, <2>2, <2>3
<1>18. ASSUME NEW r \in Runs, CreateChat(r) \/ SetChat(r) PROVE TypeOK'
  <2>1. JobTypeOK'
    <3>1. JobTypeOK
      BY DEF TypeOK
    <3>2. job' \in Rows
      BY <1>18, <3>1, JobOK DEF CreateChat, SetChat, JobTypeOK
    <3>3. left' \in Nat
      <4>1. left' = left \/ Spend
        BY <1>18, Zenon DEF CreateChat, SetChat
      <4>2. QED
        BY <4>1 DEF Spend, JobTypeOK
    <3>4. UNCHANGED <<spent, edit, begun>>
      BY <1>18 DEF CreateChat, SetChat, history
    <3>5. QED
      BY <3>2, <3>3, <3>4 DEF JobTypeOK
  <2>2. InstanceTypeOK'
    BY <1>18 DEF CreateChat, SetChat, Goto, Conclude, Only, Blank, Idle, Verdict, Spend, lock, instance, history, InstanceTypeOK, LockTypeOK, Scheduling
  <2>3. RunTypeOK'
    <3>1. CASE Goto(r, "link")
      BY <1>18, <3>1, GotoOK DEF CreateChat, SetChat, RunTypeOK, RunStates
    <3>2. CASE run' = [run EXCEPT ![r].pc = "window", ![r].sched = job.sched]
      <4>0. run[r] \in RunStates /\ job.sched \in Schedules /\ run[r].pc \in {"chat", "link"}
        BY <1>18 DEF CreateChat, SetChat, RunTypeOK, JobTypeOK, Rows
      <4>1. [run[r] EXCEPT !.pc = "window", !.sched = job.sched] \in RunStates
        BY <4>0 DEF RunStates, RunFields
      <4>2. run' = [run EXCEPT ![r] = [run[r] EXCEPT !.pc = "window", !.sched = job.sched]]
        BY <3>2 DEF RunTypeOK
      <4>3. QED
        BY <4>1, <4>2, PutRun
    <3>3. CASE Conclude(r, FALSE)
      BY <1>18, <3>3, OnlyOK, PutRun DEF CreateChat, SetChat, Conclude, Verdict
    <3>4. QED
      BY <1>18, <3>1, <3>2, <3>3 DEF CreateChat, SetChat
  <2>4. QED
    BY <2>1, <2>2, <2>3
<1>19. ASSUME NEW r \in Runs, Window(r) PROVE TypeOK'
  <2>1. JobTypeOK'
    BY <1>19 DEF Window, Goto, Finish, Only, Blank, Idle, Spend, lock, instance, JobTypeOK, Rows, Statuses
  <2>2. InstanceTypeOK'
    <3>1. run[r].at \in Instances /\ run[r].retry \in 0..2 /\ run[r].sched \in Schedules
      BY <1>19 DEF Window, RunTypeOK, RunStates, RunFields
    <3>2. RetryLimit[run[r].sched] \in 0..2
      BY <3>1
    <3>3. QED
      BY <1>19, <3>1, <3>2 DEF Window, lock, InstanceTypeOK, LockTypeOK, Scheduling
  <2>3. RunTypeOK'
    <3>1. CASE Goto(r, "turn")
      BY <1>19, <3>1, GotoOK DEF Window, RunTypeOK, RunStates
    <3>2. CASE Finish(r)
      BY <1>19, <3>2, OnlyOK, PutRun DEF Window, Finish
    <3>3. QED
      BY <1>19, <3>1, <3>2 DEF Window
  <2>4. QED
    BY <2>1, <2>2, <2>3
<1>20. ASSUME NEW r \in Runs, TurnOver(r) PROVE TypeOK'
  <2>1. JobTypeOK'
    BY <1>20 DEF TurnOver, Conclude, Only, Blank, Idle, Verdict, lock, instance, history, JobTypeOK, Rows, Statuses
  <2>2. InstanceTypeOK'
    BY <1>20 DEF TurnOver, Conclude, Only, Blank, Idle, Verdict, lock, instance, history, InstanceTypeOK, LockTypeOK, Scheduling
  <2>3. RunTypeOK'
    BY <1>20, OnlyOK, PutRun DEF TurnOver, Conclude, Verdict
  <2>4. QED
    BY <2>1, <2>2, <2>3
<1>21. ASSUME NEW r \in Runs, Record(r) PROVE TypeOK'
  <2>1. JobTypeOK'
    <3>1. JobTypeOK /\ run[r].verdict \in {"none", "complete", "failed", "paused"}
      BY DEF RunTypeOK, RunStates, RunFields
    <3>2. job' \in Rows
      BY <1>21, <3>1, JobOK DEF Record, Statuses, JobTypeOK
    <3>3. QED
      BY <1>21, <3>1, <3>2 DEF Record, Spend, JobTypeOK
  <2>2. InstanceTypeOK'
    BY <1>21 DEF Record, Only, Blank, Idle, Spend, lock, instance, InstanceTypeOK, LockTypeOK, Scheduling
  <2>3. RunTypeOK'
    BY <1>21, OnlyOK, PutRun DEF Record
  <2>4. QED
    BY <2>1, <2>2, <2>3
<1>22. ASSUME NEW r \in Runs, Disarm(r) PROVE TypeOK'
  <2>1. JobTypeOK'
    BY <1>22 DEF Disarm, Goto, lock, history, JobTypeOK, Rows, Statuses
  <2>2. InstanceTypeOK'
    BY <1>22 DEF Disarm, Goto, lock, history, InstanceTypeOK, LockTypeOK, Scheduling
  <2>3. RunTypeOK'
    BY <1>22, GotoOK DEF Disarm
  <2>4. QED
    BY <2>1, <2>2, <2>3
<1>23. ASSUME NEW r \in Runs, Forget(r) PROVE TypeOK'
  <2>1. JobTypeOK'
    BY <1>23 DEF Forget, Goto, lock, JobTypeOK, Rows, Statuses
  <2>2. InstanceTypeOK'
    BY <1>23 DEF Forget, Goto, lock, InstanceTypeOK, LockTypeOK, Scheduling
  <2>3. RunTypeOK'
    <3>1. [run[r] EXCEPT !.pc = "end"] \in RunStates
      BY <1>23 DEF Forget, RunTypeOK, RunStates, RunFields
    <3>2. QED
      BY <1>23, <3>1, PutRun DEF Forget, Goto, RunTypeOK
  <2>4. QED
    BY <2>1, <2>2, <2>3
<1>24. ASSUME NEW r \in Runs, End(r) PROVE TypeOK'
  <2>1. JobTypeOK'
    BY <1>24 DEF End, Idle, lock, JobTypeOK, Rows, Statuses
  <2>2. InstanceTypeOK'
    BY <1>24 DEF End, Idle, lock, InstanceTypeOK, LockTypeOK, Scheduling
  <2>3. RunTypeOK'
    BY <1>24, IdleOK, PutRun DEF End
  <2>4. QED
    BY <2>1, <2>2, <2>3
<1>25. ASSUME NEW s \in Schedules, Reschedule(s) PROVE TypeOK'
  <2>1. JobTypeOK'
    <3>1. JobTypeOK
      BY DEF TypeOK
    <3>2. job' \in Rows
      <4>1. PICK st \in Statuses : job' = [job EXCEPT !.sched = s, !.status = st]
        BY <1>25, <3>1 DEF Reschedule, JobTypeOK, Rows, Statuses
      <4>2. QED
        BY <3>1, <4>1, JobOK
    <3>3. QED
      BY <1>25, <3>1, <3>2 DEF Reschedule, Edited, Spend, JobTypeOK
  <2>2. InstanceTypeOK'
    BY <1>25 DEF Reschedule, Edited, Spend, lock, instance, InstanceTypeOK, LockTypeOK, Scheduling
  <2>3. RunTypeOK'
    BY <1>25 DEF Reschedule, Edited, Spend, lock, instance, RunTypeOK
  <2>4. QED
    BY <2>1, <2>2, <2>3
<1>26. ASSUME NEW st \in {"active", "paused"}, SetStatus(st) PROVE TypeOK'
  <2>1. JobTypeOK'
    <3>1. JobTypeOK
      BY DEF TypeOK
    <3>2. job' \in Rows
      BY <1>26, <3>1, JobOK DEF SetStatus, Statuses
    <3>3. QED
      BY <1>26, <3>1, <3>2 DEF SetStatus, Edited, Spend, JobTypeOK
  <2>2. InstanceTypeOK'
    BY <1>26 DEF SetStatus, Edited, Spend, lock, instance, InstanceTypeOK, LockTypeOK, Scheduling
  <2>3. RunTypeOK'
    BY <1>26 DEF SetStatus, Edited, Spend, lock, instance, RunTypeOK
  <2>4. QED
    BY <2>1, <2>2, <2>3
<1>27. ASSUME ReadSchedule PROVE TypeOK'
  BY <1>27 DEF ReadSchedule, Spend, lock, instance, history, JobTypeOK, InstanceTypeOK, LockTypeOK, RunTypeOK
<1>28. ASSUME Delete PROVE TypeOK'
  <2>1. JobTypeOK'
    <3>1. JobTypeOK
      BY DEF TypeOK
    <3>2. job' \in Rows
      BY <1>28, <3>1, JobOK DEF Delete, Statuses
    <3>3. QED
      BY <1>28, <3>1, <3>2 DEF Delete, Edited, Spend, JobTypeOK
  <2>2. InstanceTypeOK'
    BY <1>28 DEF Delete, Edited, Spend, lock, instance, InstanceTypeOK, LockTypeOK, Scheduling
  <2>3. RunTypeOK'
    BY <1>28 DEF Delete, Edited, Spend, lock, instance, RunTypeOK
  <2>4. QED
    BY <2>1, <2>2, <2>3
<1>29. CASE UNCHANGED vars
  BY <1>29 DEF vars, lock, instance, history, JobTypeOK, InstanceTypeOK, LockTypeOK, RunTypeOK
<1>30. QED
  BY <1>1, <1>2, <1>3, <1>4, <1>5, <1>6, <1>7, <1>8, <1>9, <1>10, <1>11, <1>12, <1>13, <1>14, <1>15, <1>16, <1>17, <1>18, <1>19, <1>20, <1>21, <1>22, <1>23, <1>24, <1>25, <1>26, <1>27, <1>28, <1>29 DEF Next, Leadership, Reconcile, RunStep, Edit

\* The variables keep their types, whatever the constants.
THEOREM TypeCorrect == Spec => []TypeOK
<1>1. Init => TypeOK
  BY InitTypeOK
<1>2. TypeOK /\ [Next]_vars => TypeOK'
  BY StepTypeOK
<1>3. QED
  BY <1>1, <1>2, PTL DEF Spec

-----------------------------------------------------------------------------
\* The lock has one holder, and every step of a leadership keeps its session
\* until quartz is stopped.
LEMMA StepLeadersHaveSession ==
  TypeOK /\ LeadersHaveSession /\ [Next]_vars => LeadersHaveSession'
<1> SUFFICES ASSUME TypeOK, LeadersHaveSession, [Next]_vars PROVE LeadersHaveSession'
  OBVIOUS
<1> USE DEF TypeOK, InstanceTypeOK, LockTypeOK, Scheduling, LeadersHaveSession, HeldByOne
<1>1. ASSUME NEW i \in Instances, Lead(i) PROVE LeadersHaveSession'
  BY <1>1, LockAssumption DEF Lead, TryAcquire
<1>2. ASSUME NEW i \in Instances, Lose(i) PROVE LeadersHaveSession'
  BY <1>2, LockAssumption DEF Lose, LoseSession, FreedBy, instance
<1>3. ASSUME NEW i \in Instances, Unhealthy(i) PROVE LeadersHaveSession'
  BY <1>3, LockAssumption DEF Unhealthy, CloseUnhealthy, FreedBy
<1>4. ASSUME NEW i \in Instances, StopQuartz(i) PROVE LeadersHaveSession'
  BY <1>4 DEF StopQuartz, lock, instance, Edited
<1>5. ASSUME NEW i \in Instances, ReleaseLock(i) PROVE LeadersHaveSession'
  BY <1>5, LockAssumption DEF ReleaseLock, Release, FreedBy
<1>6. ASSUME NEW i \in Instances, StepDown(i) PROVE LeadersHaveSession'
  BY <1>6 DEF StepDown, lock, instance, Edited
<1>7. ASSUME NEW i \in Instances, Shutdown(i) PROVE LeadersHaveSession'
  BY <1>7 DEF Shutdown, lock, instance, Edited
<1>8. ASSUME NEW i \in Instances, Exit(i) PROVE LeadersHaveSession'
  BY <1>8, LockAssumption DEF Exit, DropSession, FreedBy
<1>9. ASSUME NEW i \in Instances, Restart(i) PROVE LeadersHaveSession'
  BY <1>9 DEF Restart, lock, instance, Edited
<1>10. ASSUME NEW i \in Instances, PassRead(i) PROVE LeadersHaveSession'
  BY <1>10 DEF PassRead, lock, instance, Edited
<1>11. ASSUME NEW i \in Instances, PassDisarm(i) PROVE LeadersHaveSession'
  BY <1>11 DEF PassDisarm, lock, instance, Edited
<1>12. ASSUME NEW i \in Instances, PassArm(i) PROVE LeadersHaveSession'
  BY <1>12 DEF PassArm, Armed, lock, instance, Edited
<1>13. ASSUME NEW i \in Instances, PassNote(i) PROVE LeadersHaveSession'
  BY <1>13 DEF PassNote, lock, instance, Edited
<1>14. ASSUME NEW i \in Instances, Fire(i) PROVE LeadersHaveSession'
  BY <1>14 DEF Fire, SpentWith, lock, instance, Edited
<1>15. ASSUME NEW i \in Instances, FireRetry(i) PROVE LeadersHaveSession'
  BY <1>15 DEF FireRetry, lock, instance, Edited
<1>16. ASSUME NEW i \in Instances, RunNow(i) PROVE LeadersHaveSession'
  BY <1>16 DEF RunNow, lock, instance, Edited
<1>17. ASSUME NEW r \in Runs, Begin(r) PROVE LeadersHaveSession'
  BY <1>17 DEF Begin, Marked, lock, instance, Edited
<1>18. ASSUME NEW r \in Runs, CreateChat(r) \/ SetChat(r) PROVE LeadersHaveSession'
  BY <1>18 DEF CreateChat, SetChat, lock, instance, Edited
<1>19. ASSUME NEW r \in Runs, Window(r) PROVE LeadersHaveSession'
  BY <1>19 DEF Window, lock, instance, Edited
<1>20. ASSUME NEW r \in Runs, TurnOver(r) PROVE LeadersHaveSession'
  BY <1>20 DEF TurnOver, lock, instance, Edited
<1>21. ASSUME NEW r \in Runs, Record(r) PROVE LeadersHaveSession'
  BY <1>21 DEF Record, lock, instance, Edited
<1>22. ASSUME NEW r \in Runs, Disarm(r) PROVE LeadersHaveSession'
  BY <1>22 DEF Disarm, lock, instance, Edited
<1>23. ASSUME NEW r \in Runs, Forget(r) PROVE LeadersHaveSession'
  BY <1>23 DEF Forget, lock, instance, Edited
<1>24. ASSUME NEW r \in Runs, End(r) PROVE LeadersHaveSession'
  BY <1>24 DEF End, lock, instance, Edited
<1>25. ASSUME NEW s \in Schedules, Reschedule(s) PROVE LeadersHaveSession'
  BY <1>25 DEF Reschedule, lock, instance, Edited
<1>26. ASSUME NEW st \in {"active", "paused"}, SetStatus(st) PROVE LeadersHaveSession'
  BY <1>26 DEF SetStatus, lock, instance, Edited
<1>27. ASSUME ReadSchedule PROVE LeadersHaveSession'
  BY <1>27 DEF ReadSchedule, lock, instance
<1>28. ASSUME Delete PROVE LeadersHaveSession'
  BY <1>28 DEF Delete, lock, instance, Edited
<1>29. CASE UNCHANGED vars
  BY <1>29 DEF vars, lock, instance, history
<1>30. QED
  BY <1>1, <1>2, <1>3, <1>4, <1>5, <1>6, <1>7, <1>8, <1>9, <1>10, <1>11, <1>12, <1>13, <1>14, <1>15, <1>16, <1>17, <1>18, <1>19, <1>20, <1>21, <1>22, <1>23, <1>24, <1>25, <1>26, <1>27, <1>28, <1>29 DEF Next, Leadership, Reconcile, RunStep, Edit

\* Two instances schedule at once only while one has lost its lock.
THEOREM OneSchedulerAlways == Spec => []OneScheduler
<1>1. Init => LeadersHaveSession
  BY LockAssumption DEF Init, LockInit, LeadersHaveSession, HeldByOne
<1>2. TypeOK /\ LeadersHaveSession => OneScheduler
  BY DEF TypeOK, InstanceTypeOK, LockTypeOK, LeadersHaveSession, HeldByOne, OneScheduler
<1>3. QED
  BY TypeCorrect, StepLeadersHaveSession, <1>1, <1>2, PTL DEF Spec

\* A mark stands until its run ends, a leadership ends, or a run that a leadership
\* left behind clears it.
LEMMA StepRunsAreMarked ==
  TypeOK /\ RunsAreMarked /\ SingleRun /\ [Next]_vars => RunsAreMarked' /\ SingleRun'
<1> SUFFICES ASSUME TypeOK, RunsAreMarked, SingleRun, [Next]_vars PROVE (RunsAreMarked /\ SingleRun)'
  OBVIOUS
<1> USE DEF TypeOK, InstanceTypeOK, RunTypeOK, RunStates, RunFields, RunsAreMarked, SingleRun, Busy
<1>1. ASSUME NEW i \in Instances, Lead(i) PROVE (RunsAreMarked /\ SingleRun)'
  BY <1>1 DEF Lead, FreshMaps
<1>2. ASSUME NEW i \in Instances, Lose(i) PROVE (RunsAreMarked /\ SingleRun)'
  BY <1>2 DEF Lose, lock, instance, history, Edited
<1>3. ASSUME NEW i \in Instances, Unhealthy(i) PROVE (RunsAreMarked /\ SingleRun)'
  BY <1>3 DEF Unhealthy, lock, instance, history, Edited
<1>4. ASSUME NEW i \in Instances, StopQuartz(i) PROVE (RunsAreMarked /\ SingleRun)'
  BY <1>4 DEF StopQuartz, lock, instance, history, Edited
<1>5. ASSUME NEW i \in Instances, ReleaseLock(i) PROVE (RunsAreMarked /\ SingleRun)'
  BY <1>5 DEF ReleaseLock, lock, instance, history, Edited
<1>6. ASSUME NEW i \in Instances, StepDown(i) PROVE (RunsAreMarked /\ SingleRun)'
  BY <1>6 DEF StepDown, FreshMaps
<1>7. ASSUME NEW i \in Instances, Shutdown(i) PROVE (RunsAreMarked /\ SingleRun)'
  BY <1>7 DEF Shutdown, lock, instance, history, Edited
<1>8. ASSUME NEW i \in Instances, Exit(i) PROVE (RunsAreMarked /\ SingleRun)'
  BY <1>8 DEF Exit, Idle, Blank
<1>9. ASSUME NEW i \in Instances, Restart(i) PROVE (RunsAreMarked /\ SingleRun)'
  BY <1>9 DEF Restart, lock, instance, history, Edited
<1>10. ASSUME NEW i \in Instances, PassRead(i) PROVE (RunsAreMarked /\ SingleRun)'
  BY <1>10 DEF PassRead, lock, instance, history, Edited
<1>11. ASSUME NEW i \in Instances, PassDisarm(i) PROVE (RunsAreMarked /\ SingleRun)'
  BY <1>11 DEF PassDisarm, lock, instance, history, Edited
<1>12. ASSUME NEW i \in Instances, PassArm(i) PROVE (RunsAreMarked /\ SingleRun)'
  BY <1>12 DEF PassArm, Armed, lock, instance, history, Edited
<1>13. ASSUME NEW i \in Instances, PassNote(i) PROVE (RunsAreMarked /\ SingleRun)'
  BY <1>13 DEF PassNote, lock, instance, history, Edited
<1>14. ASSUME NEW i \in Instances, Fire(i) PROVE (RunsAreMarked /\ SingleRun)'
  BY <1>14 DEF Fire, SpentWith, Spawn, Spawned, Live, Blank, history
<1>15. ASSUME NEW i \in Instances, FireRetry(i) PROVE (RunsAreMarked /\ SingleRun)'
  BY <1>15 DEF FireRetry, Spawn, Spawned, Live, Blank, history
<1>16. ASSUME NEW i \in Instances, RunNow(i) PROVE (RunsAreMarked /\ SingleRun)'
  BY <1>16 DEF RunNow, Spawn, Spawned, Live, Blank, instance, history
<1>17. ASSUME NEW r \in Runs, Begin(r) PROVE (RunsAreMarked /\ SingleRun)'
  <2>1. run[r].pc = "spawned" /\ run[r].at \in Instances /\ wiped' = wiped
    BY <1>17 DEF Begin, Marked, history
  <2>2. Loaded(r).at = run[r].at /\ Blank("end", run[r].at, TRUE).at = run[r].at
    BY <2>1, LoadedOK DEF Blank
  <2>3. PICK x : /\ run' = [run EXCEPT ![r] = x]
                 /\ IF inFlight[run[r].at] THEN x = Idle /\ UNCHANGED inFlight
                    ELSE inFlight' = [inFlight EXCEPT ![run[r].at] = TRUE] /\ x.at = run[r].at
    BY <1>17, <2>2, BeginIs
  <2>4. run'[r] = x /\ \A q \in Runs \ {r} : run'[q] = run[q]
    BY <2>3
  <2>5. CASE inFlight[run[r].at]
    <3>1. x.pc = "none" /\ UNCHANGED inFlight
      BY <2>3, <2>5 DEF Idle, Blank
    <3>2. inFlight' = inFlight
      BY <3>1
    <3>3. RunsAreMarked'
      BY <2>1, <2>4, <3>1, <3>2
    <3>4. SingleRun'
      BY <2>1, <2>4, <3>1
    <3>5. QED
      BY <3>3, <3>4
  <2>6. CASE ~inFlight[run[r].at]
    <3>1. inFlight' = [inFlight EXCEPT ![run[r].at] = TRUE] /\ x.at = run[r].at
      BY <2>3, <2>6
    <3>2. \A q \in Runs \ {r} : Busy(q) /\ run[q].here /\ run[q].at = run[r].at => wiped[run[r].at]
      BY <2>6
    <3>3. RunsAreMarked'
      BY <2>1, <2>4, <3>1
    <3>4. SingleRun'
      <4>1. \A q \in Runs \ {r} : Busy(q)' /\ run'[q].here /\ run'[q].at = run'[r].at => wiped'[run'[r].at]
        BY <2>1, <2>4, <3>1, <3>2
      <4>2. \A p, q \in Runs \ {r} :
              p # q /\ Busy(p)' /\ Busy(q)' /\ run'[p].at = run'[q].at /\ run'[p].here /\ run'[q].here =>
                wiped'[run'[p].at]
        BY <2>1, <2>4
      <4> HIDE DEF Busy
      <4>3. QED
        BY <4>1, <4>2, Zenon
    <3>5. QED
      BY <3>3, <3>4
  <2>7. QED
    BY <2>5, <2>6
<1>18. ASSUME NEW r \in Runs, CreateChat(r) \/ SetChat(r) PROVE (RunsAreMarked /\ SingleRun)'
  <2>1. run[r].pc \in {"chat", "link"} /\ UNCHANGED <<inFlight, wiped>>
    BY <1>18 DEF CreateChat, SetChat, instance, history
  <2>2. CASE Goto(r, "link")
    BY <2>1, <2>2 DEF Goto
  <2>3. CASE run' = [run EXCEPT ![r].pc = "window", ![r].sched = job.sched]
    BY <2>1, <2>3
  <2>4. CASE Conclude(r, FALSE)
    BY <2>1, <2>4 DEF Conclude, Only, Blank
  <2>5. QED
    BY <1>18, <2>2, <2>3, <2>4 DEF CreateChat, SetChat
<1>19. ASSUME NEW r \in Runs, Window(r) PROVE (RunsAreMarked /\ SingleRun)'
  <2>1. run[r].pc = "window" /\ UNCHANGED <<inFlight, wiped>>
    BY <1>19 DEF Window
  <2>2. CASE Goto(r, "turn")
    BY <2>1, <2>2 DEF Goto
  <2>3. CASE Finish(r)
    BY <2>1, <2>3 DEF Finish, Only, Blank
  <2>4. QED
    BY <1>19, <2>2, <2>3 DEF Window
<1>20. ASSUME NEW r \in Runs, TurnOver(r) PROVE (RunsAreMarked /\ SingleRun)'
  BY <1>20 DEF TurnOver, Conclude, Only, Blank, instance, history
<1>21. ASSUME NEW r \in Runs, Record(r) PROVE (RunsAreMarked /\ SingleRun)'
  BY <1>21 DEF Record, Only, Blank, instance
<1>22. ASSUME NEW r \in Runs, Disarm(r) PROVE (RunsAreMarked /\ SingleRun)'
  BY <1>22 DEF Disarm, Goto, history
<1>23. ASSUME NEW r \in Runs, Forget(r) PROVE (RunsAreMarked /\ SingleRun)'
  BY <1>23 DEF Forget, Goto
<1>24. ASSUME NEW r \in Runs, End(r) PROVE (RunsAreMarked /\ SingleRun)'
  BY <1>24 DEF End, Idle, Blank
<1>25. ASSUME NEW s \in Schedules, Reschedule(s) PROVE (RunsAreMarked /\ SingleRun)'
  BY <1>25 DEF Reschedule, lock, instance, history, Edited
<1>26. ASSUME NEW st \in {"active", "paused"}, SetStatus(st) PROVE (RunsAreMarked /\ SingleRun)'
  BY <1>26 DEF SetStatus, lock, instance, history, Edited
<1>27. ASSUME ReadSchedule PROVE (RunsAreMarked /\ SingleRun)'
  BY <1>27 DEF ReadSchedule, instance, history
<1>28. ASSUME Delete PROVE (RunsAreMarked /\ SingleRun)'
  BY <1>28 DEF Delete, lock, instance, history, Edited
<1>29. CASE UNCHANGED vars
  BY <1>29 DEF vars, lock, instance, history
<1>30. QED
  BY <1>1, <1>2, <1>3, <1>4, <1>5, <1>6, <1>7, <1>8, <1>9, <1>10, <1>11, <1>12, <1>13, <1>14, <1>15, <1>16, <1>17, <1>18, <1>19, <1>20, <1>21, <1>22, <1>23, <1>24, <1>25, <1>26, <1>27, <1>28, <1>29 DEF Next, Leadership, Reconcile, RunStep, Edit

\* The runs of a leadership do not overlap, unless a mark was wiped.
THEOREM SingleRunAlways == Spec => []SingleRun
<1>1. Init => RunsAreMarked /\ SingleRun
  BY DEF Init, RunsAreMarked, SingleRun, Busy, Idle, Blank
<1>2. QED
  BY TypeCorrect, StepRunsAreMarked, <1>1, PTL DEF Spec

-----------------------------------------------------------------------------
\* A step that neither touches the runs, the row and the mark nor starts a leader
\* keeps the invariant.
LEMMA OnceKept ==
  ASSUME OnceInv, UNCHANGED <<run, begun, inFlight>>, job'.status = job.status,
         \A i \in Instances : role'[i] \in Scheduling => role[i] \in Scheduling
  PROVE  OnceInv'
<1>1. Calm'
  <2>1. ASSUME NEW i \in Instances, AllAt(i) PROVE AllAt(i)'
    BY <2>1 DEF AllAt, Live, Busy
  <2>2. QED
    BY <2>1 DEF OnceInv, Calm
<1>2. OnceOver'
  BY DEF OnceInv, OnceOver, Over, Gone, Ran, Live
<1>3. QED
  BY <1>1, <1>2 DEF OnceInv, OneOffRunsOnce

\* A busy run's step keeps the runs together.
LEMMA CalmKept ==
  ASSUME Calm, NEW r \in Runs, Busy(r), NEW x, run \in [Runs -> RunStates], run' = [run EXCEPT ![r] = x],
         x.at = run[r].at, UNCHANGED <<role, inFlight>>,
         begun' \in {"never", "once"} => begun \in {"never", "once"}
  PROVE  Calm'
<1>1. ASSUME NEW i \in Instances, AllAt(i) PROVE AllAt(i)'
  <2>1. \A q \in Runs : /\ Live(q)' => Live(q) /\ run'[q].at = run[q].at
                        /\ Busy(q)' => Busy(q)
    BY DEF Live, Busy
  <2>2. QED
    BY <1>1, <2>1 DEF AllAt
<1>2. QED
  BY <1>1 DEF Calm

\* A run that starts, at an instance with a scheduler, starts where the others are.
LEMMA OnceSpawned ==
  ASSUME OnceInv, NEW i \in Instances, role[i] \in Scheduling, NEW x, x.at = i, x.pc = "spawned",
         Spawn(x), run \in [Runs -> RunStates], UNCHANGED <<job, role, begun, inFlight>>
  PROVE  OnceInv'
<1>1. PICK r \in Runs : ~Live(r) /\ run' = [run EXCEPT ![r] = x]
  BY DEF Spawn
<1>2. /\ run'[r] = x
      /\ \A q \in Runs \ {r} : run'[q] = run[q]
  BY <1>1
<1>3. Calm'
  <2>1. ASSUME NEW j \in Instances, AllAt(j) PROVE AllAt(j)'
    <3>1. j = i
      BY <2>1 DEF AllAt
    <3>2. \A q \in Runs : Busy(q)' => Busy(q)
      BY <1>2 DEF Busy
    <3>3. QED
      BY <1>2, <2>1, <3>1, <3>2 DEF AllAt, Live
  <2>2. QED
    BY <2>1 DEF OnceInv, Calm
<1>4. OnceOver'
  BY <1>1, <1>2 DEF OnceInv, OnceOver, Over, Gone, Ran, Live
<1>5. QED
  BY <1>3, <1>4 DEF OnceInv, OneOffRunsOnce

\* What a new or ended leadership does to the runs and to the invariant.
LEMMA OnceFresh ==
  ASSUME TypeOK, OnceInv, NEW i \in Instances, FreshMaps(i), UNCHANGED job,
         \A j \in Instances \ {i} : role'[j] = role[j]
  PROVE  OnceInv'
<1>1. CASE begun' = "excused"
  BY <1>1 DEF OnceInv, Calm, OnceOver, OneOffRunsOnce
<1>2. CASE begun' = "never" /\ ~Underway(i)
  <2>1. \A r \in Runs : run'[r].pc = run[r].pc
    BY DEF FreshMaps, TypeOK, RunTypeOK, RunStates, RunFields
  <2>2. AllAt(i)'
    BY <1>2, <2>1 DEF Underway, AllAt, Live, Busy
  <2>3. QED
    BY <1>2, <2>2 DEF OnceInv, Calm, OnceOver, OneOffRunsOnce
<1>3. QED
  BY <1>1, <1>2 DEF FreshMaps

\* A run that records keeps its instance.
LEMMA OnlyIs ==
  ASSUME NEW r \in Runs, NEW l
  PROVE  /\ Only(r, l).at = run[r].at /\ Only(r, l).pc = l
         /\ \A v : LET x == [Only(r, l) EXCEPT !.verdict = v]
                  IN  x.at = run[r].at /\ x.pc = l /\ x.verdict = v
BY DEF Only, Blank

\* Every step keeps the inductive invariant of OneOffRunsOnce.
LEMMA StepOnceInv == TypeOK /\ OnceInv /\ [Next]_vars => OnceInv'
<1> SUFFICES ASSUME TypeOK, OnceInv, [Next]_vars PROVE OnceInv'
  OBVIOUS
<1>1. ASSUME NEW i \in Instances, Lose(i) PROVE OnceInv'
  BY <1>1, OnceKept DEF Lose, lock, instance, history, LoseSession, Scheduling
<1>2. ASSUME NEW i \in Instances, Unhealthy(i) PROVE OnceInv'
  BY <1>2, OnceKept DEF Unhealthy, history, Scheduling
<1>3. ASSUME NEW i \in Instances, StopQuartz(i) PROVE OnceInv'
  BY <1>3, OnceKept DEF StopQuartz, history, Scheduling
<1>4. ASSUME NEW i \in Instances, ReleaseLock(i) PROVE OnceInv'
  BY <1>4, OnceKept DEF ReleaseLock, history, Scheduling
<1>5. ASSUME NEW i \in Instances, Shutdown(i) PROVE OnceInv'
  BY <1>5, OnceKept DEF Shutdown, history, Scheduling
<1>6. ASSUME NEW i \in Instances, Restart(i) PROVE OnceInv'
  BY <1>6, OnceKept DEF Restart, history, Scheduling
<1>7. ASSUME NEW i \in Instances, PassRead(i) PROVE OnceInv'
  BY <1>7, OnceKept DEF PassRead, history, Scheduling
<1>8. ASSUME NEW i \in Instances, PassDisarm(i) PROVE OnceInv'
  BY <1>8, OnceKept DEF PassDisarm, history, Scheduling
<1>9. ASSUME NEW i \in Instances, PassArm(i) PROVE OnceInv'
  BY <1>9, OnceKept DEF PassArm, Armed, history, Scheduling
<1>10. ASSUME NEW i \in Instances, PassNote(i) PROVE OnceInv'
  BY <1>10, OnceKept DEF PassNote, history, Scheduling
<1>11. ASSUME NEW i \in Instances, Lead(i) PROVE OnceInv'
  BY <1>11, OnceFresh DEF Lead
<1>12. ASSUME NEW i \in Instances, StepDown(i) PROVE OnceInv'
  BY <1>12, OnceFresh DEF StepDown
<1>13. ASSUME NEW i \in Instances, Exit(i) PROVE OnceInv'
  <2>1. \A r \in Runs : IF run[r].at = i THEN run'[r].pc = "none" ELSE run'[r] = run[r]
    BY <1>13 DEF Exit, Idle, Blank, TypeOK, RunTypeOK
  <2>2. /\ UNCHANGED <<job, begun>>
        /\ role' = [role EXCEPT ![i] = "down"]
        /\ inFlight' = [inFlight EXCEPT ![i] = FALSE]
    BY <1>13 DEF Exit
  <2>3. Calm'
    <3>1. ASSUME NEW j \in Instances, AllAt(j) PROVE AllAt(j)'
      <4>1. \A r \in Runs : /\ Live(r)' => Live(r) /\ run'[r] = run[r] /\ run[r].at # i
                            /\ Busy(r)' => Busy(r)
        BY <2>1 DEF Live, Busy, TypeOK, RunTypeOK, RunStates
      <4>2. \A r \in Runs : Busy(r)' => inFlight'[j]
        BY <2>2, <3>1, <4>1 DEF AllAt, Live, Busy, TypeOK, InstanceTypeOK
      <4>3. \A k \in Instances \ {j} : role'[k] \notin Scheduling
        BY <2>2, <3>1 DEF AllAt, Scheduling, TypeOK, InstanceTypeOK
      <4>4. QED
        BY <3>1, <4>1, <4>2, <4>3 DEF AllAt
    <3>2. QED
      BY <2>2, <3>1 DEF OnceInv, Calm
  <2>4. OnceOver'
    <3>1. CASE begun # "once"
      BY <2>2, <3>1 DEF OnceOver
    <3>2. CASE Over \/ Gone
      BY <2>1, <2>2, <3>2 DEF OnceOver, Over, Gone, Live, Scheduling, TypeOK, InstanceTypeOK
    <3>3. CASE begun = "once" /\ \E r \in Runs : Ran(r)
      <4>1. PICK r \in Runs : Ran(r)
        BY <3>3
      <4>2. PICK j \in Instances : AllAt(j)
        BY <3>3 DEF OnceInv, Calm
      <4>3. CASE j = i
        BY <2>1, <2>2, <4>2, <4>3 DEF OnceOver, Gone, AllAt, Live, Scheduling, TypeOK, InstanceTypeOK
      <4>4. CASE j # i
        <5>1. run'[r] = run[r]
          BY <2>1, <4>1, <4>2, <4>4 DEF AllAt, Ran, Live
        <5>2. QED
          BY <4>1, <5>1 DEF OnceOver, Ran
      <4>5. QED
        BY <4>3, <4>4
    <3>4. QED
      BY <3>1, <3>2, <3>3 DEF OnceInv, OnceOver
  <2>5. QED
    BY <2>2, <2>3, <2>4 DEF OnceInv, OneOffRunsOnce
<1>14. ASSUME NEW i \in Instances, Fire(i) PROVE OnceInv'
  <2>1. Spawned(i).at = i /\ Spawned(i).pc = "spawned"
    BY DEF Spawned, Blank
  <2>2. QED
    BY <1>14, <2>1, OnceSpawned DEF Fire, SpentWith, Scheduling, history, TypeOK, RunTypeOK
<1>15. ASSUME NEW i \in Instances, FireRetry(i) PROVE OnceInv'
  <2>1. \A m : LET x == [Spawned(i) EXCEPT !.retry = m] IN x.at = i /\ x.pc = "spawned"
    BY DEF Spawned, Blank
  <2>2. QED
    BY <1>15, <2>1, OnceSpawned DEF FireRetry, Scheduling, history, TypeOK, RunTypeOK
<1>16. ASSUME NEW i \in Instances, RunNow(i) PROVE OnceInv'
  <2>1. LET x == [Spawned(i) EXCEPT !.manual = TRUE] IN x.at = i /\ x.pc = "spawned"
    BY DEF Spawned, Blank
  <2>2. QED
    BY <1>16, <2>1, OnceSpawned DEF RunNow, instance, history, TypeOK, RunTypeOK
<1>17. ASSUME NEW r \in Runs, Begin(r) PROVE OnceInv'
  <2>1. PICK x : /\ run' = [run EXCEPT ![r] = x]
                 /\ IF inFlight[run[r].at] THEN x.pc = "none" /\ UNCHANGED inFlight
                    ELSE /\ inFlight' = [inFlight EXCEPT ![run[r].at] = TRUE]
                         /\ x.at = run[r].at
                         /\ x.pc = "end" \/ (x.pc \in {"chat", "window"} /\ job.status \in {"active", "paused"})
    <3>1. Loaded(r).pc \in {"chat", "window"} /\ Loaded(r).at = run[r].at
      BY <1>17, BeginIs, LoadedOK DEF TypeOK
    <3>2. Blank("end", run[r].at, TRUE).at = run[r].at /\ Blank("end", run[r].at, TRUE).pc = "end"
      BY DEF Blank
    <3>3. Idle.pc = "none"
      BY DEF Idle, Blank
    <3>4. QED
      BY <1>17, <3>1, <3>2, <3>3, BeginIs
  <2>2. /\ run[r].pc = "spawned" /\ run[r].at \in Instances
        /\ UNCHANGED <<job, role, begun>>
    BY <1>17 DEF Begin, Marked, history, TypeOK, RunTypeOK, RunStates
  <2>3. run'[r] = x /\ \A q \in Runs \ {r} : run'[q] = run[q]
    BY <2>1 DEF TypeOK, RunTypeOK
  <2>4. ASSUME NEW i \in Instances, AllAt(i) PROVE AllAt(i)'
    <3>1. run[r].at = i
      BY <2>2, <2>4 DEF AllAt, Live
    <3>2. CASE inFlight[i]
      BY <2>1, <2>2, <2>3, <2>4, <3>1, <3>2 DEF AllAt, Live, Busy
    <3>3. CASE ~inFlight[i]
      <4>1. \A q \in Runs : ~Busy(q)
        BY <2>4, <3>3 DEF AllAt
      <4>2. inFlight'[i] /\ x.at = i
        BY <2>1, <3>1, <3>3 DEF TypeOK, InstanceTypeOK
      <4>3. QED
        BY <2>2, <2>3, <2>4, <4>1, <4>2 DEF AllAt, Live, Busy
    <3>4. QED
      BY <3>2, <3>3
  <2>5. Calm'
    BY <2>2, <2>4 DEF OnceInv, Calm
  <2>6. OnceOver'
    <3>1. CASE begun # "once" \/ Gone
      BY <2>2, <3>1 DEF OnceOver, Gone, Live
    <3>2. CASE Over
      BY <2>1, <2>2, <2>3, <3>2 DEF OnceOver, Over
    <3>3. CASE \E q \in Runs : Ran(q)
      BY <2>2, <2>3, <3>3 DEF OnceOver, Ran
    <3>4. QED
      BY <3>1, <3>2, <3>3 DEF OnceInv, OnceOver
  <2>7. QED
    BY <2>2, <2>5, <2>6 DEF OnceInv, OneOffRunsOnce
<1>18. ASSUME NEW r \in Runs, NEW x, Busy(r), run' = [run EXCEPT ![r] = x], x.at = run[r].at,
            UNCHANGED <<role, inFlight>>,
            begun' \in {"never", "once"} => begun \in {"never", "once"},
            begun' # "again", OnceOver'
      PROVE OnceInv'
  BY <1>18, CalmKept DEF OnceInv, OneOffRunsOnce, TypeOK, RunTypeOK
<1>19. ASSUME NEW r \in Runs, Busy(r), begun \in {"never", "once"}
      PROVE  \A q \in Runs \ {r} : ~Busy(q)
  BY <1>19 DEF OnceInv, Calm, AllAt
<1>20. ASSUME NEW r \in Runs, CreateChat(r) \/ SetChat(r) PROVE OnceInv'
  <2>1. /\ run[r].pc \in {"chat", "link"} /\ Busy(r) /\ UNCHANGED <<role, inFlight, begun>>
        /\ job'.status = job.status
    BY <1>20 DEF CreateChat, SetChat, Busy, instance, history, TypeOK, JobTypeOK, Rows
  <2>2. begun # "once"
    BY <2>1, <1>19 DEF OnceInv, OnceOver, Over, Gone, Ran, Live, Busy
  <2>3. PICK x : run' = [run EXCEPT ![r] = x] /\ x.at = run[r].at
    <3>1. CASE Goto(r, "link")
      <4>1. [run[r] EXCEPT !.pc = "link"].at = run[r].at
        BY DEF TypeOK, RunTypeOK, RunStates, RunFields
      <4>2. QED
        BY <3>1, <4>1 DEF Goto, TypeOK, RunTypeOK
    <3>2. CASE run' = [run EXCEPT ![r].pc = "window", ![r].sched = job.sched]
      <4>1. [run[r] EXCEPT !.pc = "window", !.sched = job.sched].at = run[r].at
        BY DEF TypeOK, RunTypeOK, RunStates, RunFields
      <4>2. run' = [run EXCEPT ![r] = [run[r] EXCEPT !.pc = "window", !.sched = job.sched]]
        BY <3>2 DEF TypeOK, RunTypeOK
      <4>3. QED
        BY <4>1, <4>2
    <3>3. CASE Conclude(r, FALSE)
      <4> DEFINE x == [Only(r, "record") EXCEPT !.verdict = Verdict(run[r].sched, FALSE, run[r].noNext)]
      <4>1. run' = [run EXCEPT ![r] = x]
        BY <3>3 DEF Conclude
      <4>2. x.at = run[r].at
        BY OnlyIs
      <4> HIDE DEF x
      <4>3. QED
        BY <4>1, <4>2
    <3>4. QED
      BY <1>20, <3>1, <3>2, <3>3 DEF CreateChat, SetChat
  <2>4. OnceOver' /\ begun' # "again"
    BY <2>1, <2>2 DEF OnceInv, OnceOver, OneOffRunsOnce
  <2>5. QED
    BY <2>1, <2>3, <2>4, <1>18
<1>21. ASSUME NEW r \in Runs, Window(r) PROVE OnceInv'
  <2>1. run[r].pc = "window" /\ Busy(r) /\ UNCHANGED <<role, inFlight, job>>
    BY <1>21 DEF Window, Busy
  <2>2. begun # "once"
    BY <2>1, <1>19 DEF OnceInv, OnceOver, Over, Gone, Ran, Live, Busy
  <2>3. PICK x : /\ run' = [run EXCEPT ![r] = x] /\ x.at = run[r].at
                 /\ begun' # begun => x.pc = "turn" /\ x.sched = run[r].sched /\ run[r].sched \in OneOff
    <3>1. CASE Goto(r, "turn")
      <4>1. LET x == [run[r] EXCEPT !.pc = "turn"]
            IN  x.at = run[r].at /\ x.pc = "turn" /\ x.sched = run[r].sched
        BY DEF TypeOK, RunTypeOK, RunStates, RunFields
      <4>2. run' = [run EXCEPT ![r] = [run[r] EXCEPT !.pc = "turn"]]
        BY <3>1 DEF Goto, TypeOK, RunTypeOK
      <4>3. begun' # begun => run[r].sched \in OneOff
        BY <1>21 DEF Window
      <4>4. QED
        BY <4>1, <4>2, <4>3
    <3>2. CASE Finish(r) /\ begun' = begun
      BY <3>2 DEF Finish, Only, Blank
    <3>3. QED
      BY <1>21, <3>1, <3>2 DEF Window
  <2>4. begun' = begun \/ (begun = "never" /\ begun' = "once")
    BY <1>21, <2>2 DEF Window, OnceInv, OneOffRunsOnce, TypeOK, JobTypeOK
  <2>5. OnceOver'
    <3>1. CASE begun' = begun
      BY <2>2, <3>1 DEF OnceOver
    <3>2. CASE begun' # begun
      BY <2>3, <3>2 DEF OnceOver, Ran, TypeOK, RunTypeOK
    <3>3. QED
      BY <3>1, <3>2
  <2>6. QED
    BY <2>1, <2>3, <2>4, <2>5, <1>18 DEF OnceInv, OneOffRunsOnce
<1>22. ASSUME NEW r \in Runs, TurnOver(r) PROVE OnceInv'
  <2>1. run[r].pc = "turn" /\ Busy(r) /\ UNCHANGED <<role, inFlight, job, begun>>
    BY <1>22 DEF TurnOver, Busy, instance, history
  <2>2. PICK x : /\ run' = [run EXCEPT ![r] = x] /\ x.at = run[r].at /\ x.pc = "record"
                 /\ run[r].sched \in OneOff => x.verdict \in {"complete", "failed"}
    <3>1. PICK ok \in BOOLEAN : Conclude(r, ok)
      BY <1>22 DEF TurnOver
    <3> DEFINE v == Verdict(run[r].sched, ok, run[r].noNext)
               y == [Only(r, "record") EXCEPT !.verdict = v]
    <3>2. run' = [run EXCEPT ![r] = y]
      BY <3>1 DEF Conclude
    <3>3. y.at = run[r].at /\ y.pc = "record" /\ y.verdict = v
      BY OnlyIs
    <3>4. run[r].sched \in OneOff => v \in {"complete", "failed"}
      BY DEF Verdict
    <3> HIDE DEF v, y
    <3>5. QED
      BY <3>2, <3>3, <3>4
  <2>3. OnceOver'
    <3>1. CASE begun # "once"
      BY <2>1, <3>1 DEF OnceOver
    <3>2. ~Over
      BY <2>1 DEF Over
    <3>3. CASE begun = "once" /\ \E q \in Runs : Ran(q)
      <4>1. Ran(r)
        BY <2>1, <3>3, <1>19 DEF Ran, Busy
      <4>2. Ran(r)'
        BY <2>1, <2>2, <4>1 DEF Ran, TypeOK, RunTypeOK
      <4>3. QED
        BY <4>2 DEF OnceOver
    <3>4. ~Gone
      BY <2>1 DEF Gone, Live
    <3>5. QED
      BY <3>1, <3>2, <3>3, <3>4 DEF OnceInv, OnceOver
  <2>4. QED
    BY <2>1, <2>2, <2>3, <1>18 DEF OnceInv, OneOffRunsOnce
<1>23. ASSUME NEW r \in Runs, Record(r) PROVE OnceInv'
  <2>1. run[r].pc = "record" /\ Busy(r) /\ UNCHANGED <<role, inFlight>>
    BY <1>23 DEF Record, Busy, instance
  <2>2. PICK x : run' = [run EXCEPT ![r] = x] /\ x.at = run[r].at /\ x.pc \in {"end", "disarm"}
    <3> DEFINE x == Only(r, IF run[r].verdict = "none" THEN "end" ELSE "disarm")
    <3>1. run' = [run EXCEPT ![r] = x]
      BY <1>23 DEF Record
    <3>2. x.at = run[r].at /\ x.pc \in {"end", "disarm"}
      BY OnlyIs
    <3> HIDE DEF x
    <3>3. QED
      BY <3>1, <3>2
  <2>3. CASE begun' = "excused"
    BY <2>3 DEF OnceInv, Calm, OnceOver, OneOffRunsOnce
  <2>4. CASE begun' = begun
    <3>1. OnceOver'
      <4>1. CASE begun # "once"
        BY <2>4, <4>1 DEF OnceOver
      <4>2. CASE begun = "once"
        <5>1. \A q \in Runs : run'[q].pc \notin {"chat", "link", "window", "turn", "record"}
          BY <2>1, <2>2, <4>2, <1>19 DEF Busy, TypeOK, RunTypeOK
        <5>2. run[r].verdict \in {"complete", "failed"}
          BY <2>1, <4>2, <1>19 DEF OnceInv, OnceOver, Over, Gone, Live, Busy, Ran
        <5>3. job'.status \notin {"active", "paused"}
          <6>1. CASE UNCHANGED job
            BY <1>23, <2>4, <4>2, <5>2, <6>1 DEF Record, TypeOK, JobTypeOK, Rows
          <6>2. CASE job' = [job EXCEPT !.status = run[r].verdict]
            BY <5>2, <6>2 DEF TypeOK, JobTypeOK, Rows
          <6>3. QED
            BY <1>23, <5>2, <6>1, <6>2 DEF Record
        <5>4. QED
          BY <5>1, <5>3 DEF OnceOver, Over
      <4>3. QED
        BY <4>1, <4>2
    <3>2. QED
      BY <2>1, <2>2, <2>4, <3>1, <1>18 DEF OnceInv, OneOffRunsOnce
  <2>5. QED
    BY <1>23, <2>3, <2>4 DEF Record
<1>24. ASSUME NEW r \in Runs, NEW l, Busy(r), Goto(r, l), l \in {"forget", "end"},
            run[r].pc \in {"disarm", "forget"}, UNCHANGED <<job, role, inFlight, begun>>
      PROVE OnceInv'
  <2>1. PICK x : run' = [run EXCEPT ![r] = x] /\ x.at = run[r].at /\ x.pc = l
    <3>1. LET x == [run[r] EXCEPT !.pc = l] IN x.at = run[r].at /\ x.pc = l
      BY DEF TypeOK, RunTypeOK, RunStates, RunFields
    <3>2. run' = [run EXCEPT ![r] = [run[r] EXCEPT !.pc = l]]
      BY <1>24 DEF Goto, TypeOK, RunTypeOK
    <3>3. QED
      BY <3>1, <3>2
  <2>2. OnceOver'
    <3>1. CASE begun # "once" \/ Over
      BY <1>24, <2>1, <3>1 DEF OnceOver, Over, TypeOK, RunTypeOK
    <3>2. CASE \E q \in Runs : Ran(q)
      BY <1>24, <2>1, <3>2 DEF OnceOver, Ran, TypeOK, RunTypeOK
    <3>3. ~Gone
      BY <1>24 DEF Gone, Live
    <3>4. QED
      BY <3>1, <3>2, <3>3 DEF OnceInv, OnceOver
  <2>3. QED
    BY <1>24, <2>1, <2>2, <1>18 DEF OnceInv, OneOffRunsOnce
<1>25. ASSUME NEW r \in Runs, Disarm(r) PROVE OnceInv'
  BY <1>25, <1>24 DEF Disarm, Busy, history
<1>26. ASSUME NEW r \in Runs, Forget(r) PROVE OnceInv'
  BY <1>26, <1>24 DEF Forget, Busy
<1>27. ASSUME NEW r \in Runs, End(r) PROVE OnceInv'
  <2>1. /\ run' = [run EXCEPT ![r] = Idle] /\ run[r].pc = "end" /\ run[r].at \in Instances
        /\ inFlight' = [inFlight EXCEPT ![run[r].at] = FALSE]
        /\ UNCHANGED <<job, role, begun>>
    BY <1>27 DEF End, TypeOK, RunTypeOK, RunStates
  <2>2. \A q \in Runs : IF q = r THEN run'[q].pc = "none" ELSE run'[q] = run[q]
    BY <2>1 DEF Idle, Blank, TypeOK, RunTypeOK
  <2>3. ASSUME NEW i \in Instances, AllAt(i) PROVE AllAt(i)'
    <3>1. \A q \in Runs : ~Busy(q)'
      BY <2>1, <2>2, <2>3 DEF AllAt, Busy
    <3>2. QED
      BY <2>1, <2>2, <2>3, <3>1 DEF AllAt, Live
  <2>4. OnceOver'
    <3>1. CASE begun # "once" \/ Over
      BY <2>1, <2>2, <3>1 DEF OnceOver, Over
    <3>2. CASE \E q \in Runs : Ran(q)
      BY <2>1, <2>2, <3>2 DEF OnceOver, Ran
    <3>3. ~Gone
      BY <2>1 DEF Gone, Live
    <3>4. QED
      BY <3>1, <3>2, <3>3 DEF OnceInv, OnceOver
  <2>5. QED
    BY <2>1, <2>3, <2>4 DEF OnceInv, Calm, OneOffRunsOnce
<1>28. ASSUME Edited PROVE OnceInv'
  <2>1. /\ begun' = IF \A i \in Instances : Underway(i) THEN "excused" ELSE "never"
        /\ UNCHANGED <<role, inFlight, run>>
    BY <1>28 DEF Edited, instance
  <2>2. CASE \A i \in Instances : Underway(i)
    BY <2>1, <2>2 DEF OnceInv, Calm, OnceOver, OneOffRunsOnce
  <2>3. ASSUME NEW i \in Instances, ~Underway(i) PROVE OnceInv'
    <3>1. AllAt(i)'
      BY <2>1, <2>3 DEF Underway, AllAt, Live, Busy
    <3>2. QED
      BY <2>1, <2>3, <3>1 DEF OnceInv, Calm, OnceOver, OneOffRunsOnce
  <2>4. QED
    BY <2>2, <2>3
<1>29. ASSUME ReadSchedule PROVE OnceInv'
  BY <1>29, OnceKept DEF ReadSchedule, instance, history
<1>30. CASE UNCHANGED vars
  BY <1>30 DEF vars, instance, history, OnceInv, Calm, OnceOver, OneOffRunsOnce, AllAt, Ran, Over, Gone, Live, Busy
<1>31. QED
  <2>1. ASSUME NEW i \in Instances, Leadership(i) PROVE OnceInv'
    BY <2>1, <1>1, <1>2, <1>3, <1>4, <1>5, <1>6, <1>11, <1>12, <1>13 DEF Leadership
  <2>2. ASSUME NEW i \in Instances, Reconcile(i) PROVE OnceInv'
    BY <2>2, <1>7, <1>8, <1>9, <1>10 DEF Reconcile
  <2>3. ASSUME NEW r \in Runs, RunStep(r) PROVE OnceInv'
    BY <2>3, <1>17, <1>20, <1>21, <1>22, <1>23, <1>25, <1>26, <1>27 DEF RunStep
  <2>4. CASE Edit
    BY <2>4, <1>28, <1>29 DEF Edit, Reschedule, SetStatus, Delete
  <2>5. QED
    BY <2>1, <2>2, <2>3, <2>4, <1>14, <1>15, <1>16, <1>30 DEF Next

\* A one-off prompt is not given to the agent twice, for every number of
\* instances, runs and schedules: while it is undecided (Calm) only one instance
\* has runs or a scheduler, its mark admits one of them at a time, and the run
\* that began the prompt ends the job before another can load it.
THEOREM OneOffRunsOnceAlways == Spec => []OneOffRunsOnce
<1>1. Init => OnceInv
  <2> SUFFICES ASSUME Init PROVE OnceInv
    OBVIOUS
  <2>1. \A r \in Runs : ~Live(r)
    BY DEF Init, Live, Idle, Blank
  <2>2. PICK i \in Instances : TRUE
    BY SchedulerAssumption
  <2>3. AllAt(i)
    BY <2>1 DEF Init, AllAt, Live, Busy, Scheduling
  <2>4. QED
    BY <2>3 DEF Init, OnceInv, Calm, OnceOver, OneOffRunsOnce
<1>2. OnceInv => OneOffRunsOnce
  BY DEF OnceInv
<1>3. QED
  BY <1>1, <1>2, InitTypeOK, StepTypeOK, StepOnceInv, PTL DEF Spec
=============================================================================

------------------------------ MODULE Scheduler ------------------------------
(***************************************************************************)
(* The distributed scheduler of agent jobs, seen by one agent job (jobs    *)
(* share nothing but the leader and the user's execution window, which is  *)
(* left open).  The instance that holds the leader lock projects the jobs  *)
(* table into triggers in its memory, a pass every 30 s; a trigger's       *)
(* firing runs the job on a goroutine of its own, which neither losing the *)
(* lock nor ending the leadership stops.                                   *)
(*                                                                         *)
(* Times are left out: a trigger may fire at any moment, a one-off one     *)
(* once; a cron schedule may turn out to have no next run at any firing,   *)
(* and is spent from then on.                                              *)
(***************************************************************************)
EXTENDS Naturals, FiniteSets, LeaderLock

CONSTANTS
  Runs,        \* bound: runs alive at once
  Schedules,   \* the schedules the job may be given
  OneOff,      \* those of type "at"; the others are cron expressions
  RetryLimit,  \* deferred retries a schedule's recurrence allows
  None,        \* no schedule
  Trouble      \* bound: edits, run-now calls, schedules that end, full windows, lost
               \* sessions, crashes and faults

ASSUME SchedulerAssumption ==
  /\ Instances # {}
  /\ OneOff \subseteq Schedules /\ None \notin Schedules
  /\ RetryLimit \in [Schedules -> 0..2]
  /\ Trouble \in Nat

VARIABLES
  job,       \* the agent_jobs row: status, schedule, whether it has its chat
  edit,      \* a schedule edit that has read the row: none, or whether to revive the job
  spent,     \* cron schedules with no next run
  role,      \* each instance's part: down, follower, leading, stopping,
             \* quiet (quartz stopped) or released
  closing,   \* the instances whose server is shutting down
  main,      \* the schedule of the job's trigger in quartz, or None
  retries,   \* the deferred retries waiting in quartz
  print,     \* m.fingerprints of the job
  inFlight,  \* m.inFlight of the job
  pass,      \* the reconcile pass: where it is and the schedule it read active
  run,       \* the runs
  left,      \* what is left of Trouble
  begun,     \* history: whether a one-off prompt began since the last edit: never,
             \* once, again, or excused where a second may
  wiped,     \* history: an earlier session's run cleared this session's mark
  crossed    \* history: a run's cleanup fell between the pass's arming and its note

instance == <<role, closing, main, retries, print, inFlight, pass>>
history == <<begun, wiped, crossed>>
vars == <<lock, job, edit, spent, instance, run, left, history>>

Statuses == {"active", "paused", "complete", "failed", "deleted"}
Blank(l, i, h) == [pc |-> l, at |-> i, here |-> h, manual |-> FALSE, retry |-> 0,
                   sched |-> None, noNext |-> FALSE, verdict |-> "none"]
Idle == Blank("none", Nobody, FALSE)
\* m.sched is not nil.
Scheduling == {"leading", "stopping", "quiet", "released"}
Busy(r) == run[r].pc \notin {"none", "spawned"}
Live(r) == run[r].pc # "none"
AtRest == [at |-> "idle", seen |-> None]

Init ==
  /\ LockInit
  /\ job \in [status : {"active"}, sched : Schedules, chat : {FALSE}]
  /\ edit = "none"
  /\ spent = {}
  /\ role = [i \in Instances |-> "follower"]
  /\ closing = {}
  /\ main = [i \in Instances |-> None]
  /\ retries = [i \in Instances |-> {}]
  /\ print = [i \in Instances |-> None]
  /\ inFlight = [i \in Instances |-> FALSE]
  /\ pass = [i \in Instances |-> AtRest]
  /\ run = [r \in Runs |-> Idle]
  /\ left = Trouble
  /\ begun = "never"
  /\ wiped = [i \in Instances |-> FALSE]
  /\ crossed = [i \in Instances |-> FALSE]

\* A run is alive, or an instance other than i still has a scheduler.
Underway(i) ==
  \/ \E r \in Runs : Live(r)
  \/ \E j \in Instances \ {i} : role[j] \in Scheduling

Spend == left > 0 /\ left' = left - 1

-----------------------------------------------------------------------------
(* Leadership.                                                              *)

\* The maps and the quartz scheduler start empty, and are dropped again; a run
\* of the session that ends is no longer in its map.
FreshMaps(i) ==
  /\ main' = [main EXCEPT ![i] = None]
  /\ retries' = [retries EXCEPT ![i] = {}]
  /\ print' = [print EXCEPT ![i] = None]
  /\ inFlight' = [inFlight EXCEPT ![i] = FALSE]
  /\ run' = [r \in Runs |-> IF run[r].at = i THEN [run[r] EXCEPT !.here = FALSE] ELSE run[r]]
  /\ wiped' = [wiped EXCEPT ![i] = FALSE]
  /\ crossed' = [crossed EXCEPT ![i] = FALSE]
  /\ begun' = IF begun = "never" /\ ~Underway(i) THEN begun ELSE "excused"

\* A follower acquires the lock and starts as leader.
Lead(i) ==
  /\ role[i] = "follower" /\ i \notin closing
  /\ TryAcquire(i)
  /\ role' = [role EXCEPT ![i] = "leading"]
  /\ FreshMaps(i)
  /\ UNCHANGED <<job, edit, spent, closing, pass, left>>

\* The lock's session breaks; the leader works on.
Lose(i) ==
  /\ LoseSession(i) /\ Spend
  /\ UNCHANGED <<job, edit, spent, instance, run, history>>

\* The health check fails, because the session is gone or by a time-out, and the
\* leader's context is cancelled: quartz stops firing and no new pass reads.
Unhealthy(i) ==
  /\ role[i] = "leading"
  /\ CloseUnhealthy(i)
  /\ IF session[i] = "held" THEN Spend ELSE UNCHANGED left
  /\ role' = [role EXCEPT ![i] = "stopping"]
  /\ UNCHANGED <<job, edit, spent, closing, main, retries, print, inFlight, pass, run, history>>

\* stopLeader waits for the pass under way, then stops quartz ...
StopQuartz(i) ==
  /\ role[i] = "stopping" /\ pass[i] = AtRest
  /\ role' = [role EXCEPT ![i] = "quiet"]
  /\ UNCHANGED <<lock, job, edit, spent, closing, main, retries, print, inFlight, pass, run, left, history>>

\* Mutant: the lock is released before quartz is stopped.
ReleaseEarly(i) ==
  /\ role[i] \in {"stopping", "quiet"} /\ session[i] # "none"
  /\ Release(i)
  /\ role' = [role EXCEPT ![i] = IF @ = "quiet" THEN "released" ELSE @]
  /\ UNCHANGED <<job, edit, spent, closing, main, retries, print, inFlight, pass, run, left, history>>

\* ... releases the lock ...
ReleaseLock(i) ==
  /\ role[i] = "quiet"
  /\ Release(i)
  /\ role' = [role EXCEPT ![i] = "released"]
  /\ UNCHANGED <<job, edit, spent, closing, main, retries, print, inFlight, pass, run, left, history>>

\* ... and drops the scheduler and its maps.
StepDown(i) ==
  /\ role[i] = "released"
  /\ role' = [role EXCEPT ![i] = "follower"]
  /\ FreshMaps(i)
  /\ UNCHANGED <<lock, job, edit, spent, closing, pass, left>>

\* The server's context ends: a leader stops as above, and nobody leads again.
Shutdown(i) ==
  /\ role[i] # "down" /\ i \notin closing
  /\ Spend
  /\ closing' = closing \cup {i}
  /\ role' = [role EXCEPT ![i] = IF @ = "leading" THEN "stopping" ELSE @]
  /\ UNCHANGED <<lock, job, edit, spent, main, retries, print, inFlight, pass, run, history>>

\* The process ends, once it has shut down or at any point, its runs with it.
Exit(i) ==
  /\ role[i] # "down"
  /\ IF i \in closing /\ role[i] = "follower" THEN UNCHANGED left ELSE Spend
  /\ DropSession(i)
  /\ role' = [role EXCEPT ![i] = "down"]
  /\ closing' = closing \ {i}
  /\ main' = [main EXCEPT ![i] = None]
  /\ retries' = [retries EXCEPT ![i] = {}]
  /\ print' = [print EXCEPT ![i] = None]
  /\ inFlight' = [inFlight EXCEPT ![i] = FALSE]
  /\ pass' = [pass EXCEPT ![i] = AtRest]
  /\ run' = [r \in Runs |-> IF run[r].at = i THEN Idle ELSE run[r]]
  /\ wiped' = [wiped EXCEPT ![i] = FALSE]
  /\ crossed' = [crossed EXCEPT ![i] = FALSE]
  /\ UNCHANGED <<job, edit, spent, begun>>

\* It may come back.
Restart(i) ==
  /\ role[i] = "down"
  /\ role' = [role EXCEPT ![i] = "follower"]
  /\ UNCHANGED <<lock, job, edit, spent, closing, main, retries, print, inFlight, pass, run, left, history>>

Leadership(i) ==
  \/ Lead(i) \/ Lose(i) \/ Unhealthy(i) \/ StopQuartz(i) \/ ReleaseLock(i) \/ StepDown(i)
  \/ Shutdown(i) \/ Exit(i) \/ Restart(i)

-----------------------------------------------------------------------------
(* The reconcile pass: the table is read, then quartz is changed, then the  *)
(* fingerprint is noted, and a run may act between any two.                 *)

Unless(c, s) == IF c THEN s ELSE None

PassRead(i) ==
  /\ role[i] = "leading" /\ pass[i].at = "idle"
  /\ pass' = [pass EXCEPT ![i] = [at |-> "read",
                                  seen |-> Unless(job.status = "active", job.sched)]]
  /\ UNCHANGED <<lock, job, edit, spent, role, closing, main, retries, print, inFlight, run, left, history>>

\* An inactive job that has a fingerprint loses its trigger.
PassDisarm(i) ==
  /\ pass[i].at = "read" /\ pass[i].seen = None
  /\ IF print[i] = None
       THEN pass' = [pass EXCEPT ![i] = AtRest] /\ UNCHANGED main
       ELSE /\ pass' = [pass EXCEPT ![i] = [at |-> "forget", seen |-> None]]
            /\ main' = [main EXCEPT ![i] = None]
  /\ UNCHANGED <<lock, job, edit, spent, role, closing, retries, print, inFlight, run, left, history>>

\* Mutant: a fingerprint of any schedule will do.
ArmedAnyhow(i) == print[i] # None

Armed(i) == print[i] = pass[i].seen

\* An active job with another fingerprint has its trigger replaced; a schedule
\* with no next run cannot be scheduled, and nothing is noted.
PassArm(i) ==
  /\ pass[i].at = "read" /\ pass[i].seen # None
  /\ LET s == pass[i].seen IN
     IF Armed(i)
       THEN pass' = [pass EXCEPT ![i] = AtRest] /\ UNCHANGED main
       ELSE /\ main' = [main EXCEPT ![i] = Unless(s \notin spent, s)]
            /\ pass' = [pass EXCEPT ![i] = IF s \in spent THEN AtRest ELSE [at |-> "note", seen |-> s]]
  /\ UNCHANGED <<lock, job, edit, spent, role, closing, retries, print, inFlight, run, left, history>>

PassNote(i) ==
  /\ pass[i].at \in {"forget", "note"}
  /\ print' = [print EXCEPT ![i] = pass[i].seen]
  /\ pass' = [pass EXCEPT ![i] = AtRest]
  /\ UNCHANGED <<lock, job, edit, spent, role, closing, main, retries, inFlight, run, left, history>>

Reconcile(i) == PassRead(i) \/ PassDisarm(i) \/ PassArm(i) \/ PassNote(i)

-----------------------------------------------------------------------------
(* What starts a run.                                                       *)

Spawned(i) == Blank("spawned", i, FALSE)
Spawn(x) == \E r \in Runs : ~Live(r) /\ run' = [run EXCEPT ![r] = x]

\* Mutant: a one-off schedule is taken for spent.
SpentAnyhow(s) == spent \cup {s}

\* A cron schedule turns out to have no next run.
SpentWith(s) == IF s \in OneOff THEN spent ELSE spent \cup {s}

\* A trigger fires: a one-off or spent one is gone, a cron one waits again.
Fire(i) ==
  /\ role[i] = "leading" /\ main[i] # None
  /\ Spawn(Spawned(i))
  /\ \/ main[i] \notin OneOff /\ UNCHANGED <<main, spent, left>>
     \/ /\ main' = [main EXCEPT ![i] = None]
        /\ spent' = SpentWith(main[i])
        /\ IF main[i] \in OneOff THEN UNCHANGED left ELSE Spend
  /\ UNCHANGED <<lock, job, edit, role, closing, retries, print, inFlight, pass, history>>

FireRetry(i) ==
  /\ role[i] = "leading"
  /\ \E n \in retries[i] : /\ retries' = [retries EXCEPT ![i] = @ \ {n}]
                           /\ Spawn([Spawned(i) EXCEPT !.retry = n])
  /\ UNCHANGED <<lock, job, edit, spent, role, closing, main, print, inFlight, pass, left, history>>

\* "Run now", of an active or paused job, where the instance has a scheduler.
RunNow(i) ==
  /\ role[i] \in Scheduling /\ job.status \in {"active", "paused"}
  /\ Spend
  /\ Spawn([Spawned(i) EXCEPT !.manual = TRUE])
  /\ UNCHANGED <<lock, job, edit, spent, instance, history>>

-----------------------------------------------------------------------------
(* A run.                                                                   *)

Goto(r, l) == run' = [run EXCEPT ![r].pc = l]

\* What matters of run r at label l, from the record on.
Only(r, l) == Blank(l, run[r].at, run[r].here)
Finish(r) == run' = [run EXCEPT ![r] = Only(r, "end")]

\* Mutant: the mark stops manual runs only.
MarkedForManual(r) == inFlight[run[r].at] /\ run[r].manual

Marked(r) == inFlight[run[r].at]

\* It marks the job in flight, or gives way to the run that did, and loads the
\* row: a job that is neither active nor, for a manual run, paused is left
\* alone, and so is one that cannot be loaded.
Begin(r) ==
  /\ run[r].pc = "spawned"
  /\ LET i == run[r].at
         executable == job.status = "active" \/ (job.status = "paused" /\ run[r].manual)
         loaded == [run[r] EXCEPT !.pc = IF job.chat THEN "window" ELSE "chat", !.here = TRUE, !.manual = FALSE, !.sched = job.sched,
                                  !.noNext = job.status = "active" /\ job.sched \in spent]
         ended == Blank("end", i, TRUE)
     IN IF Marked(r)
          THEN run' = [run EXCEPT ![r] = Idle] /\ UNCHANGED <<inFlight, left>>
          ELSE /\ inFlight' = [inFlight EXCEPT ![i] = TRUE]
               /\ \/ run' = [run EXCEPT ![r] = IF executable THEN loaded ELSE ended] /\ UNCHANGED left
                  \/ run' = [run EXCEPT ![r] = ended] /\ Spend
  /\ UNCHANGED <<lock, job, edit, spent, role, closing, main, retries, print, pass, history>>

\* Mutant: a one-off job that failed may be tried again.
VerdictRetried(s, ok, noNext) ==
  IF s \in OneOff THEN (IF ok THEN "complete" ELSE "none")
  ELSE IF noNext THEN "paused" ELSE "none"

\* The status a run records: a one-off job is over, whatever became of its
\* prompt, and a cron job with no next run is paused.
Verdict(s, ok, noNext) ==
  IF s \in OneOff THEN (IF ok THEN "complete" ELSE "failed")
  ELSE IF noNext THEN "paused" ELSE "none"

Conclude(r, ok) ==
  run' = [run EXCEPT ![r] = [Only(r, "record") EXCEPT
                               !.verdict = Verdict(run[r].sched, ok, run[r].noNext)]]

\* A job loaded without a chat gets one ...
CreateChat(r) ==
  /\ run[r].pc = "chat"
  /\ \/ Goto(r, "link") /\ UNCHANGED left
     \/ Conclude(r, FALSE) /\ Spend
  /\ UNCHANGED <<lock, job, edit, spent, instance, history>>

\* ... and the run goes on with the row it is saved to, as edited since; else, or
\* if the job is gone, the run counts as failed.
SetChat(r) ==
  /\ run[r].pc = "link"
  /\ \/ /\ job.status # "deleted"
        /\ job' = [job EXCEPT !.chat = TRUE]
        /\ run' = [run EXCEPT ![r].pc = "window", ![r].sched = job.sched]
        /\ UNCHANGED left
     \/ /\ IF job.status = "deleted" THEN UNCHANGED left ELSE Spend
        /\ Conclude(r, FALSE)
        /\ UNCHANGED job
  /\ UNCHANGED <<lock, edit, spent, instance, history>>

\* The user's execution window: there is room and the prompt goes to the agent;
\* or a retry is put into the scheduler the manager has by now; or the run is
\* skipped.
Window(r) ==
  /\ run[r].pc = "window"
  /\ \/ /\ Goto(r, "turn")
        /\ begun' = IF run[r].sched \notin OneOff THEN begun
                    ELSE CASE begun = "never" -> "once" [] begun = "once" -> "again" [] OTHER -> begun
        /\ UNCHANGED <<retries, left>>
     \/ LET i == run[r].at
            n == run[r].retry + 1
        IN /\ Finish(r) /\ Spend /\ UNCHANGED begun
           /\ retries' = IF n <= RetryLimit[run[r].sched] /\ role[i] \in Scheduling
                           THEN [retries EXCEPT ![i] = @ \cup {n}] ELSE retries
     \/ Spend /\ Finish(r) /\ UNCHANGED <<retries, begun>>
  /\ UNCHANGED <<lock, job, edit, spent, role, closing, main, print, inFlight, pass, wiped, crossed>>

\* The agent's turn succeeds, is stopped from its thread, or fails.
TurnOver(r) ==
  /\ run[r].pc = "turn"
  /\ \E ok \in BOOLEAN : Conclude(r, ok)
  /\ UNCHANGED <<lock, job, edit, spent, instance, left, history>>

\* The attempt is recorded over whatever the row says by now, or the write fails
\* and is only logged.
Record(r) ==
  /\ run[r].pc = "record"
  /\ LET v == run[r].verdict IN
     /\ run' = [run EXCEPT ![r] = Only(r, IF v = "none" THEN "end" ELSE "disarm")]
     /\ \/ /\ job' = IF job.status = "deleted" \/ v = "none" THEN job
                     ELSE [job EXCEPT !.status = v]
           /\ UNCHANGED <<left, begun>>
        \/ /\ Spend
           /\ begun' = IF v = "none" THEN begun ELSE "excused"
           /\ UNCHANGED job
  /\ UNCHANGED <<lock, edit, spent, instance, wiped, crossed>>

\* A run that ended the job's schedule takes its trigger out of the scheduler
\* the manager has by now, then its fingerprint.
Disarm(r) ==
  /\ run[r].pc = "disarm"
  /\ main' = [main EXCEPT ![run[r].at] = None]
  /\ Goto(r, "forget")
  /\ UNCHANGED <<lock, job, edit, spent, role, closing, retries, print, inFlight, pass, left, history>>

Forget(r) ==
  /\ run[r].pc = "forget"
  /\ LET i == run[r].at IN
     /\ print' = [print EXCEPT ![i] = None]
     /\ crossed' = [crossed EXCEPT ![i] = @ \/ (pass[i].at = "note" /\ main[i] = None)]
  /\ Goto(r, "end")
  /\ UNCHANGED <<lock, job, edit, spent, role, closing, main, retries, inFlight, pass, left, begun, wiped>>

\* The run clears the job's mark in the map the manager has by now.
End(r) ==
  /\ run[r].pc = "end"
  /\ LET i == run[r].at IN
     /\ inFlight' = [inFlight EXCEPT ![i] = FALSE]
     /\ wiped' = [wiped EXCEPT ![i] = @ \/ (~run[r].here /\ inFlight[i])]
  /\ run' = [run EXCEPT ![r] = Idle]
  /\ UNCHANGED <<lock, job, edit, spent, role, closing, main, retries, print, pass, left, begun, crossed>>

RunStep(r) ==
  \/ Begin(r) \/ CreateChat(r) \/ SetChat(r) \/ Window(r) \/ TurnOver(r)
  \/ Record(r) \/ Disarm(r) \/ Forget(r) \/ End(r)

-----------------------------------------------------------------------------
(* The user's edits, from the jobs page or an agent's tool.                 *)

Edited ==
  /\ job.status # "deleted"
  /\ begun' = IF \A i \in Instances : Underway(i) THEN "excused" ELSE "never"
  /\ UNCHANGED <<lock, spent, instance, run, wiped, crossed>>

\* A new schedule makes a job active again that was over when the edit read it,
\* whatever became of it before the write.
ReadSchedule ==
  /\ edit = "none" /\ job.status # "deleted" /\ Spend
  /\ edit' = IF job.status \in {"complete", "failed"} THEN "revive" ELSE "keep"
  /\ UNCHANGED <<lock, job, spent, instance, run, history>>

Reschedule(s) ==
  /\ Edited
  /\ edit # "none" /\ s \notin spent
  /\ job' = [job EXCEPT !.sched = s, !.status = IF edit = "revive" THEN "active" ELSE @]
  /\ edit' = "none"
  /\ UNCHANGED left

SetStatus(st) == Edited /\ Spend /\ UNCHANGED edit /\ job' = [job EXCEPT !.status = st]

Delete == Edited /\ Spend /\ UNCHANGED edit /\ job' = [job EXCEPT !.status = "deleted"]

Edit ==
  \/ ReadSchedule
  \/ \E s \in Schedules : Reschedule(s)
  \/ \E st \in {"active", "paused"} : SetStatus(st)
  \/ Delete

-----------------------------------------------------------------------------
Next ==
  \/ \E i \in Instances : Leadership(i) \/ Reconcile(i) \/ Fire(i) \/ FireRetry(i) \/ RunNow(i)
  \/ \E r \in Runs : RunStep(r)
  \/ Edit

Spec == Init /\ [][Next]_vars

\* The loops of an instance and its runs go on; triggers, edits and faults are
\* the environment's.
Fairness ==
  /\ \A i \in Instances :
       /\ WF_vars(Lead(i)) /\ WF_vars(Unhealthy(i) /\ session[i] = "lost")
       /\ WF_vars(StopQuartz(i)) /\ WF_vars(ReleaseLock(i)) /\ WF_vars(StepDown(i))
       /\ WF_vars(Exit(i) /\ i \in closing /\ role[i] = "follower") /\ WF_vars(Restart(i))
       /\ WF_vars(Reconcile(i))
  /\ \A r \in Runs : WF_vars(RunStep(r))

FairSpec == Spec /\ Fairness

-----------------------------------------------------------------------------
RunFields ==
  [pc : {"none", "spawned", "chat", "link", "window", "turn", "record", "disarm", "forget", "end"},
   at : Instances \cup {Nobody}, here : BOOLEAN, manual : BOOLEAN, retry : 0..2,
   sched : Schedules \cup {None}, noNext : BOOLEAN,
   verdict : {"none", "complete", "failed", "paused"}]

\* A run has its instance, and once it has loaded the row a schedule.
RunStates ==
  {x \in RunFields : /\ x.pc # "none" => x.at \in Instances
                     /\ x.pc \in {"chat", "link", "window", "turn"} => x.sched \in Schedules}

Rows == [status : Statuses, sched : Schedules, chat : BOOLEAN]

JobTypeOK ==
  /\ job \in Rows
  /\ edit \in {"none", "keep", "revive"}
  /\ spent \subseteq Schedules \ OneOff
  /\ left \in Nat
  /\ begun \in {"never", "once", "again", "excused"}

InstanceTypeOK ==
  /\ LockTypeOK
  /\ role \in [Instances -> {"down", "follower"} \cup Scheduling]
  /\ closing \subseteq Instances
  /\ main \in [Instances -> Schedules \cup {None}]
  /\ retries \in [Instances -> SUBSET (1..2)]
  /\ print \in [Instances -> Schedules \cup {None}]
  /\ inFlight \in [Instances -> BOOLEAN]
  /\ pass \in [Instances -> [at : {"idle", "read", "forget", "note"}, seen : Schedules \cup {None}]]
  /\ wiped \in [Instances -> BOOLEAN] /\ crossed \in [Instances -> BOOLEAN]

RunTypeOK == run \in [Runs -> RunStates]

TypeOK == JobTypeOK /\ InstanceTypeOK /\ RunTypeOK

\* Two instances project the table and fire triggers at once only while one of
\* them has lost its lock: stopLeader waits for the pass under way and stops
\* quartz before it releases the lock.
OneScheduler ==
  \A i, j \in Instances : i # j /\ {role[i], role[j]} \subseteq {"leading", "stopping"} =>
    "lost" \in {session[i], session[j]}

\* The job's runs that began in the leadership an instance is in do not overlap,
\* unless a run of an earlier one ended in it and cleared their mark.
SingleRun ==
  \A r, q \in Runs : r # q /\ Busy(r) /\ Busy(q) /\ run[r].at = run[q].at /\ run[r].here /\ run[q].here =>
    wiped[run[r].at]

\* A one-off job's prompt is given to the agent once per edit, whatever passes,
\* stale triggers, retries and run-now calls overlap with it, unless a new
\* leader started while it ran, its end could not be recorded, or the edit was
\* made while it ran.
OneOffRunsOnce == begun # "again"

\* Some instance always ends up leading with its lock.
SomeoneLeads == []<>(\E i \in Instances : role[i] = "leading" /\ session[i] = "held")

\* A recurring job that stays active is armed with its newest schedule in the
\* end, by a leader, unless a run's cleanup crossed the pass that armed it.
ActiveStaysArmed ==
  \A s \in Schedules \ OneOff :
    <>[](job.status = "active" /\ job.sched = s /\ s \notin spent) =>
      <>[](\E i \in Instances : role[i] = "leading" /\ (main[i] = s \/ crossed[i]))
=============================================================================

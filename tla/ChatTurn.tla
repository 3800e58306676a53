------------------------------- MODULE ChatTurn -------------------------------
(***************************************************************************)
(* The turns of ONE chat and the gate that serialises them.                *)
(*                                                                         *)
(* A turn is a job row (pending -> ... -> complete | cancelled | failed)   *)
(* and a worker goroutine on the API instance that created it.  Workers    *)
(* share nothing but the jobs table: a worker polls it until no OLDER turn *)
(* job of the chat is pending or processing, builds its context, generates *)
(* and saves its reply, and moves its row through the post-reply phases.   *)
(* Around the workers run Stop (CancelJob), the per-job cancel watcher,    *)
(* the heartbeat, a shutdown (FailInFlightTurns), crashes, and the reaper  *)
(* a starting instance runs.                                               *)
(*                                                                         *)
(* A job's number is its place in turn order, (created_at, id).  Times are *)
(* abstracted to the two bounds the code compares updated_at with: age 0   *)
(* is within TurnJobStaleAfter (2 min), 1 is past it, 2 is past the        *)
(* reaper's bound (30 min).                                                *)
(***************************************************************************)
EXTENDS Naturals

CONSTANTS
  Jobs,            \* turn jobs, numbered in turn order
  Instances,       \* API instances
  Nobody,          \* no instance
  KindOf,          \* what started each job's turn
  At,              \* the instance whose worker runs each job
  MessageOf,       \* the user message a chat_message job answers
  OrderedCommits,  \* TRUE: rows commit in turn order (FALSE: clock skew, slow commits)
  SlowHeartbeats,  \* TRUE: a live worker's row may age (missed heartbeats)
  WaitsTimeOut,    \* TRUE: a queued turn may reach chatTurnWaitTimeout
  Budget           \* bounds: stops, crashes, shutdowns and failed writes

Kinds == {"user", "retry", "async", "ticket"}
Blocking == {"pending", "processing"}
Replied == {"inference_complete", "expression_complete", "compaction_complete"}
Terminal == {"complete", "cancelled", "failed"}
Status == Blocking \cup Replied \cup Terminal

ASSUME ConstantsAssumption ==
  /\ Jobs \subseteq Nat
  /\ Nobody \notin Instances
  /\ KindOf \in [Jobs -> Kinds]
  /\ At \in [Jobs -> Instances]
  /\ OrderedCommits \in BOOLEAN
  /\ SlowHeartbeats \in BOOLEAN
  /\ WaitsTimeOut \in BOOLEAN
  /\ Budget \in [stops : Nat, crashes : Nat, shutdowns : Nat, faults : Nat]

VARIABLES
  row,        \* the jobs table: each job's status, "absent" before its commit
  age,        \* how old the row's updated_at is: 0, 1 or 2
  pc,         \* where each job's worker is
  mem,        \* the status in the worker's own copy of the job
  cancelled,  \* jobs whose run context is cancelled
  waited,     \* jobs that have found an earlier turn ahead of them
  saved,      \* jobs whose reply message is in the chat
  chain,      \* the job whose reply chat.response_id names (0: none)
  up,         \* "up", "draining" (shutting down) or "down", per instance
  stopAt,     \* the instance handling a Stop, or Nobody
  stopTodo,   \* the jobs that Stop still has to cancel
  shut,       \* what a shutdown has decided about each job it snapshotted
  left,       \* what is left of Budget
  built,      \* history: jobs that built their context
  seen,       \* history: the replies in the context a job built
  lapsed      \* history: jobs that stopped blocking the gate while still before
              \* their reply (stopped or ended from outside, taken as dead, or
              \* committed after a later turn had passed)

db == <<row, age>>
worker == <<pc, mem, cancelled, waited>>
chat == <<saved, chain>>
server == <<up, stopAt, stopTodo, shut>>
history == <<built, seen, lapsed>>
vars == <<row, age, pc, mem, cancelled, waited, saved, chain, up, stopAt,
          stopTodo, shut, left, built, seen, lapsed>>

\* A chat_message turn (handleUserMessage owns its job) or an agent-job turn.
IsUser(j) == KindOf[j] \in {"user", "retry"}
IsTicket(j) == KindOf[j] = "ticket"

Labels == {"none", "insert", "inserted", "start", "queue", "admitted", "entered",
           "run", "infer", "replied", "chain", "persist", "express", "compact",
           "complete", "release", "ticketEnd", "abort", "over", "unended", "dead"}
InTurn == {"run", "infer", "replied", "persist"}
AfterGate == InTurn \cup {"admitted", "entered"}
BeforeReply == AfterGate \cup {"inserted", "start", "queue"}
\* Over, over without having been able to write how it ended, or dead.
Ended == {"over", "unended", "dead"}
\* Between acquire and release: in the tracker, with a heartbeat.
Tracked(j) ==
  \/ pc[j] \in (AfterGate \cup {"queue", "chain", "express", "compact", "complete",
                                "release", "ticketEnd"})
  \/ IsTicket(j) /\ pc[j] = "abort"

\* hasRunningJob: Stop can cancel the worker directly on its own instance.
HasRunningJob(j) ==
  IF IsTicket(j) THEN pc[j] \in {"run", "infer", "replied"}
  ELSE pc[j] \notin {"none", "insert", "inserted"} \cup Ended

\* A goroutine watches the row for a Stop handled elsewhere.
Watched(j) == HasRunningJob(j) /\ KindOf[j] # "retry"

\* Mutants: pending jobs, or job order, left out of the filter.
BlockersProcessingOnly(k) == {j \in Jobs : j < k /\ row[j] = "processing" /\ age[j] = 0}
BlockersUnordered(k) == {j \in Jobs : j # k /\ row[j] \in Blocking /\ age[j] = 0}

\* blockingTurnJobs over ListPendingTurnJobsForChat.
Blockers(k) == {j \in Jobs : j < k /\ row[j] \in Blocking /\ age[j] = 0}

\* FindLatestActiveChatMessageJob.
ActiveFor(m) == {j \in Jobs : /\ IsUser(j) /\ MessageOf[j] = m
                              /\ row[j] \in Status \ Terminal}

Init ==
  /\ row = [j \in Jobs |-> "absent"]
  /\ age = [j \in Jobs |-> 0]
  /\ pc = [j \in Jobs |-> "none"]
  /\ mem = [j \in Jobs |-> "pending"]
  /\ cancelled = {}
  /\ waited = {}
  /\ saved = {}
  /\ chain = 0
  /\ up = [i \in Instances |-> "up"]
  /\ stopAt = Nobody
  /\ stopTodo = {}
  /\ shut = [j \in Jobs |-> "none"]
  /\ left = Budget
  /\ built = {}
  /\ seen = [j \in Jobs |-> {}]
  /\ lapsed = {}

-----------------------------------------------------------------------------
(* Writes.  Every write of a row refreshes updated_at (TimeMixin).          *)

WriteRow(j, s) ==
  /\ row' = [row EXCEPT ![j] = s]
  /\ age' = [age EXCEPT ![j] = 0]

\* A status write made on the run context, and the worker's copy of it.
Save(j, s) == WriteRow(j, s) /\ mem' = [mem EXCEPT ![j] = s]
NoSave == UNCHANGED <<row, age, mem>>

Goto(j, l) == pc' = [pc EXCEPT ![j] = l]

\* A write succeeds, or fails: on a cancelled context always, else by a fault.
WriteSucceeds(j) == j \notin cancelled /\ UNCHANGED left
Fault == left.faults > 0 /\ left' = [left EXCEPT !.faults = @ - 1]
WriteFails(j) == \/ j \in cancelled /\ UNCHANGED left
                 \/ j \notin cancelled /\ Fault

-----------------------------------------------------------------------------
(* Creating a turn.                                                         *)

\* The request is accepted and CreateJob stamps created_at in this process; the
\* row is not visible yet.  A retry first looks for an active job of its message.
Arrive(j) ==
  /\ pc[j] = "none"
  /\ up[At[j]] = "up"
  /\ OrderedCommits => \A i \in Jobs : i < j => pc[i] \notin {"none", "insert"}
  /\ KindOf[j] = "retry" =>
        \E i \in Jobs : KindOf[i] = "user" /\ MessageOf[i] = MessageOf[j] /\ row[i] \in Status
  /\ Goto(j, IF KindOf[j] = "retry" /\ ActiveFor(MessageOf[j]) # {} THEN "over" ELSE "insert")
  /\ UNCHANGED <<db, mem, cancelled, waited, chat, server, left, history>>

\* The row commits.  A later turn may already have passed the gate.
Insert(j) ==
  /\ pc[j] = "insert"
  /\ WriteRow(j, "pending")
  /\ Goto(j, "inserted")
  /\ lapsed' = IF \E k \in Jobs : j < k /\ (pc[k] \in AfterGate \/ k \in built)
               THEN lapsed \cup {j} ELSE lapsed
  /\ UNCHANGED <<mem, cancelled, waited, chat, server, left, built, seen>>

\* The worker is registered for Stop and its goroutine starts; a ticket goes
\* straight to the gate and is registered only when its turn starts.
Register(j) ==
  /\ pc[j] = "inserted"
  /\ Goto(j, IF IsTicket(j) THEN "queue" ELSE "start")
  /\ UNCHANGED <<db, mem, cancelled, waited, chat, server, left, history>>

\* The worker's first write, whatever the row holds by now.
Start(j) ==
  /\ pc[j] = "start"
  /\ WriteSucceeds(j)
  /\ Save(j, "processing")
  /\ Goto(j, "queue")
  /\ UNCHANGED <<cancelled, waited, chat, server, history>>

\* It failed: a user turn tries to record that on the same context, an async
\* agent-job turn just returns.
StartFails(j) ==
  /\ pc[j] = "start"
  /\ WriteFails(j)
  /\ \/ IsUser(j) /\ j \notin cancelled /\ Save(j, "failed") /\ Goto(j, "over")
     \/ (IsUser(j) => j \in cancelled) /\ NoSave /\ Goto(j, "unended")
  /\ UNCHANGED <<cancelled, waited, chat, server, history>>

-----------------------------------------------------------------------------
(* The gate.                                                                *)

\* The first poll that finds an earlier live turn records what it waits on.
Queue(j) ==
  /\ pc[j] = "queue"
  /\ j \notin waited \cup cancelled
  /\ Blockers(j) # {}
  /\ waited' = waited \cup {j}
  /\ age' = [age EXCEPT ![j] = 0]
  /\ UNCHANGED <<row, pc, mem, cancelled, chat, server, left, history>>

\* Where a worker goes once admitted: a ticket marks its job processing first.
Entry(j) == IF IsTicket(j) THEN "entered" ELSE "run"

\* Mutant: a queued turn goes on at its first wake, without listing again.
PassGateOnceWoken(j) ==
  /\ pc[j] = "queue"
  /\ j \notin cancelled
  /\ Blockers(j) = {} \/ j \in waited
  /\ Goto(j, IF j \in waited THEN "admitted" ELSE Entry(j))
  /\ UNCHANGED <<db, mem, cancelled, waited, chat, server, left, history>>

\* A poll that finds none; a job that queued re-reads its own status.
PassGate(j) ==
  /\ pc[j] = "queue"
  /\ j \notin cancelled
  /\ Blockers(j) = {}
  /\ Goto(j, IF j \in waited THEN "admitted" ELSE Entry(j))
  /\ UNCHANGED <<db, mem, cancelled, waited, chat, server, left, history>>

\* Not cancelled, or the read failed (the turn then goes on).
CheckQueuedStatus(j) ==
  /\ pc[j] = "admitted"
  /\ \/ (row[j] # "cancelled" \/ j \in cancelled) /\ UNCHANGED left
     \/ j \notin cancelled /\ Fault
  /\ Goto(j, Entry(j))
  /\ UNCHANGED <<db, mem, cancelled, waited, chat, server, history>>

\* Its context ended while queued, or its row turned cancelled: the worker
\* records the cancellation on a fresh context and returns.
LeaveQueueCancelled(j) ==
  /\ \/ pc[j] = "queue" /\ j \in cancelled
     \/ pc[j] = "admitted" /\ row[j] = "cancelled" /\ j \notin cancelled
  /\ \/ WriteRow(j, "cancelled") /\ UNCHANGED left /\ Goto(j, "over")
     \/ Fault /\ UNCHANGED db /\ Goto(j, "unended")
  /\ UNCHANGED <<mem, cancelled, waited, chat, server, history>>

\* Mutant: a turn that waited too long runs anyway.
GiveUpAndRun(j) ==
  /\ WaitsTimeOut
  /\ pc[j] = "queue"
  /\ j \in waited \ cancelled
  /\ Goto(j, Entry(j))
  /\ UNCHANGED <<db, mem, cancelled, waited, chat, server, left, history>>

\* chatTurnWaitTimeout: the turn fails rather than run concurrently.
GiveUp(j) ==
  /\ WaitsTimeOut
  /\ pc[j] = "queue"
  /\ j \in waited \ cancelled
  /\ Blockers(j) # {}
  /\ \/ WriteRow(j, "failed") /\ UNCHANGED left /\ Goto(j, "over")
     \/ Fault /\ UNCHANGED db /\ Goto(j, "unended")
  /\ UNCHANGED <<mem, cancelled, waited, chat, server, history>>

\* beginEphemeralChatTurn's write for a ticket, best effort.
MarkTicketProcessing(j) ==
  /\ pc[j] = "entered"
  /\ \/ WriteRow(j, "processing") /\ UNCHANGED left
     \/ Fault /\ UNCHANGED db
  /\ Goto(j, "run")
  /\ UNCHANGED <<mem, cancelled, waited, chat, server, history>>

-----------------------------------------------------------------------------
(* The turn.                                                                *)

\* Mutant: the history is read without the newest reply.
BuildStaleContext(j) ==
  /\ pc[j] = "run"
  /\ j \notin cancelled
  /\ built' = built \cup {j}
  /\ seen' = [seen EXCEPT ![j] = saved \ {chain}]
  /\ Goto(j, "infer")
  /\ UNCHANGED <<db, mem, cancelled, waited, chat, server, left, lapsed>>

\* The context is built from the replies saved so far.
BuildContext(j) ==
  /\ pc[j] = "run"
  /\ j \notin cancelled
  /\ built' = built \cup {j}
  /\ seen' = [seen EXCEPT ![j] = saved]
  /\ Goto(j, "infer")
  /\ UNCHANGED <<db, mem, cancelled, waited, chat, server, left, lapsed>>

\* It cannot be built (context cancelled, quota, a provider or database error).
ContextFails(j) ==
  /\ pc[j] = "run"
  /\ IF IsUser(j)
     THEN /\ \/ WriteSucceeds(j) /\ Save(j, "failed")
             \/ WriteFails(j) /\ NoSave
          /\ Goto(j, "release")
     ELSE NoSave /\ UNCHANGED left /\ Goto(j, "abort")
  /\ UNCHANGED <<cancelled, waited, chat, server, history>>

\* The provider answered and saveAgentResponse stored the reply.
Reply(j) ==
  /\ pc[j] = "infer"
  /\ j \notin cancelled
  /\ saved' = saved \cup {j}
  /\ Goto(j, "replied")
  /\ UNCHANGED <<db, mem, cancelled, waited, chain, server, left, history>>

\* Generation failed or was cancelled: finalizeChatJobWithPartial ends a user
\* turn's row over whatever status it has; if that fails, setJobStatusFailed.
GenerationFails(j) ==
  /\ pc[j] = "infer"
  /\ IF IsUser(j)
     THEN /\ \/ Save(j, IF j \in cancelled THEN "cancelled" ELSE "failed") /\ UNCHANGED left
             \/ Fault /\ (NoSave \/ Save(j, "failed"))
          /\ Goto(j, "release")
     ELSE NoSave /\ UNCHANGED left /\ Goto(j, "abort")
  /\ UNCHANGED <<cancelled, waited, chat, server, history>>

-----------------------------------------------------------------------------
(* After the reply.  A user turn moves its row first and then saves the     *)
(* chat's response chain; an agent-job turn saves the chain first.          *)

\* persistInferencePhase, or its retry (advanceJobInferenceComplete).
RecordReply(j) ==
  /\ pc[j] = IF IsUser(j) THEN "replied" ELSE "persist"
  /\ WriteSucceeds(j)
  /\ Save(j, "inference_complete")
  /\ Goto(j, IF IsUser(j) THEN "chain" ELSE IF IsTicket(j) THEN "ticketEnd" ELSE "express")
  /\ UNCHANGED <<cancelled, waited, chat, server, history>>

\* Both attempts failed, or wrote the row and failed to clear its draft (the
\* worker's copy then stays behind): a user turn tries to fail its job, an async
\* one returns the error, a ticket only logs it.
RecordReplyFails(j) ==
  /\ pc[j] = IF IsUser(j) THEN "replied" ELSE "persist"
  /\ WriteFails(j)
  /\ \/ IsUser(j) /\ j \notin cancelled /\ Save(j, "failed")
     \/ WriteRow(j, "inference_complete") /\ UNCHANGED mem
     \/ NoSave
  /\ Goto(j, IF IsUser(j) THEN "release" ELSE IF IsTicket(j) THEN "ticketEnd" ELSE "abort")
  /\ UNCHANGED <<cancelled, waited, chat, server, history>>

\* UpdateChatContinuity.
SaveChain(j) ==
  /\ pc[j] = IF IsUser(j) THEN "chain" ELSE "replied"
  /\ WriteSucceeds(j)
  /\ chain' = j
  /\ Goto(j, IF IsUser(j) THEN "express" ELSE "persist")
  /\ UNCHANGED <<db, mem, cancelled, waited, saved, server, history>>

\* A user turn only logs the failure; an agent-job turn fails on it.
SaveChainFails(j) ==
  /\ pc[j] = IF IsUser(j) THEN "chain" ELSE "replied"
  /\ WriteFails(j)
  /\ Goto(j, IF IsUser(j) THEN "express" ELSE "abort")
  /\ UNCHANGED <<db, mem, cancelled, waited, chat, server, history>>

\* The label after each phase, and the status that ends it.
NextPhase(l) == CASE l = "express" -> "compact" [] l = "compact" -> "complete"
                  [] OTHER -> "release"
PhaseStatus(l) == CASE l = "express" -> "expression_complete"
                    [] l = "compact" -> "compaction_complete" [] OTHER -> "complete"

\* advanceChatJobStatus, from the worker's own copy.  An async turn is over when
\* its job is complete.
Advance(j) ==
  /\ pc[j] \in {"express", "compact", "complete"}
  /\ WriteSucceeds(j)
  /\ Save(j, PhaseStatus(pc[j]))
  /\ Goto(j, IF ~IsUser(j) /\ pc[j] = "complete" THEN "over" ELSE NextPhase(pc[j]))
  /\ UNCHANGED <<cancelled, waited, chat, server, history>>

\* A user turn logs the failure and goes on; an async one returns it.
AdvanceFails(j) ==
  /\ pc[j] \in {"express", "compact", "complete"}
  /\ WriteFails(j)
  /\ Goto(j, IF IsUser(j) THEN NextPhase(pc[j]) ELSE "abort")
  /\ UNCHANGED <<db, mem, cancelled, waited, chat, server, history>>

\* A ticket ends as soon as its reply is saved.
EndTicket(j) ==
  /\ pc[j] = "ticketEnd"
  /\ \/ WriteRow(j, "complete") /\ UNCHANGED left /\ Goto(j, "over")
     \/ Fault /\ UNCHANGED db /\ Goto(j, "unended")
  /\ UNCHANGED <<mem, cancelled, waited, chat, server, history>>

\* An agent-job turn returned an error: cancelled when its context was, on a
\* fresh context; otherwise failed (an async one on its run context).
Abort(j) ==
  /\ pc[j] = "abort"
  /\ \/ WriteRow(j, IF j \in cancelled THEN "cancelled" ELSE "failed") /\ UNCHANGED left /\ Goto(j, "over")
     \/ Fault /\ UNCHANGED db /\ Goto(j, "unended")
  /\ UNCHANGED <<mem, cancelled, waited, chat, server, history>>

\* Mutants: the abandoned job is always reported complete, or left as it is.
FinishAsComplete(j) ==
  IF mem[j] \notin Terminal /\ row[j] \notin Terminal THEN WriteRow(j, "complete")
  ELSE UNCHANGED db
LeaveAbandoned(j) == UNCHANGED db

\* finishAbandonedTurnJob, on a fresh context: only when the worker's copy is not
\* terminal, and only over a row that is not.
FinishAbandoned(j) ==
  IF mem[j] \notin Terminal /\ row[j] \notin Terminal
  THEN WriteRow(j, IF mem[j] \in Replied \/ row[j] \in Replied THEN "complete" ELSE "failed")
  ELSE UNCHANGED db

Release(j) ==
  /\ pc[j] = "release"
  /\ \/ FinishAbandoned(j) /\ UNCHANGED left /\ Goto(j, "over")
     \/ Fault /\ UNCHANGED db /\ Goto(j, "unended")
  /\ UNCHANGED <<mem, cancelled, waited, chat, server, history>>

-----------------------------------------------------------------------------
(* Time, the watcher, Stop.                                                 *)

\* Time passes without a write: only rows a poll or the reaper may read age.
\* A worker past acquire heartbeats, so its row ages only when heartbeats fail.
Age(j) ==
  /\ row[j] \in Blocking
  /\ age[j] < 2
  /\ pc[j] \in Ended \/ SlowHeartbeats
  /\ age' = [age EXCEPT ![j] = @ + 1]
  /\ lapsed' = IF pc[j] \in BeforeReply THEN lapsed \cup {j} ELSE lapsed
  /\ UNCHANGED <<row, worker, chat, server, left, built, seen>>

\* TouchJob from a live turn's heartbeat.
Heartbeat(j) ==
  /\ Tracked(j)
  /\ age[j] > 0
  /\ age' = [age EXCEPT ![j] = 0]
  /\ UNCHANGED <<row, worker, chat, server, left, history>>

\* watchChatJobCancel finds the row cancelled.
Watch(j) ==
  /\ Watched(j)
  /\ row[j] = "cancelled"
  /\ j \notin cancelled
  /\ cancelled' = cancelled \cup {j}
  /\ UNCHANGED <<db, pc, mem, waited, chat, server, left, history>>

\* The user stops the thread from a request about job j, handled by instance i:
\* CancelJob lists the chat's unfinished jobs (ListActiveChatJobIDsForChat).
StopThread(i, j) ==
  /\ left.stops > 0
  /\ up[i] = "up"
  /\ stopAt = Nobody
  /\ row[j] \in Status
  /\ stopAt' = i
  /\ stopTodo' = {k \in Jobs : row[k] \in Status \ Terminal} \cup {j}
  /\ left' = [left EXCEPT !.stops = @ - 1]
  /\ UNCHANGED <<db, worker, chat, up, shut, history>>

\* cancelChatJob, newest job first: through the worker's context when it runs
\* here, else MarkChatJobCancelled unless the row is terminal.
StopJob(j) ==
  /\ j \in stopTodo
  /\ \A k \in stopTodo : k <= j
  /\ stopTodo' = stopTodo \ {j}
  /\ stopAt' = IF stopTodo' = {} THEN Nobody ELSE stopAt
  /\ IF At[j] = stopAt /\ HasRunningJob(j)
     THEN cancelled' = cancelled \cup {j} /\ UNCHANGED <<db, lapsed>>
     ELSE /\ IF row[j] \in Terminal THEN UNCHANGED <<db, lapsed>>
             ELSE /\ WriteRow(j, "cancelled")
                  /\ lapsed' = IF pc[j] \in BeforeReply THEN lapsed \cup {j} ELSE lapsed
          /\ UNCHANGED cancelled
  /\ UNCHANGED <<pc, mem, waited, chat, up, shut, left, built, seen>>

-----------------------------------------------------------------------------
(* Shutdown, crash, restart.                                                *)

\* FailInFlightTurns snapshots this process's in-flight turns, and for each
\* whether its reply is known to be recorded (markReplied); its workers go on.
ReplyNoted(j) == mem[j] \in Replied \cup {"complete"} /\ pc[j] # "chain"
BeginShutdown(i) ==
  /\ left.shutdowns > 0
  /\ up[i] = "up"
  /\ \A j \in Jobs : shut[j] = "none"
  /\ up' = [up EXCEPT ![i] = "draining"]
  /\ shut' = [j \in Jobs |-> IF At[j] = i /\ Tracked(j)
                             THEN IF ReplyNoted(j) THEN "replied" ELSE "open"
                             ELSE "none"]
  /\ left' = [left EXCEPT !.shutdowns = @ - 1]
  /\ UNCHANGED <<db, worker, chat, stopAt, stopTodo, history>>

\* Mutant: a turn the shutdown ends is reported as the user's Stop.
ShutdownReadCancels(j) ==
  /\ shut[j] \in {"open", "replied"}
  /\ shut' = [shut EXCEPT ![j] =
       IF row[j] \in Terminal THEN "none"
       ELSE IF shut[j] = "replied" \/ row[j] \notin Blocking THEN "complete" ELSE "cancelled"]
  /\ UNCHANGED <<db, worker, chat, up, stopAt, stopTodo, left, history>>

\* For one snapshotted turn, the row is read and the outcome decided ...
ShutdownRead(j) ==
  /\ shut[j] \in {"open", "replied"}
  /\ shut' = [shut EXCEPT ![j] =
       IF row[j] \in Terminal THEN "none"
       ELSE IF shut[j] = "replied" \/ row[j] \notin Blocking THEN "complete" ELSE "failed"]
  /\ UNCHANGED <<db, worker, chat, up, stopAt, stopTodo, left, history>>

\* ... and then written, whatever the row holds by then.
ShutdownWrite(j) ==
  /\ shut[j] \in {"complete", "failed"}
  /\ WriteRow(j, shut[j])
  /\ shut' = [shut EXCEPT ![j] = "none"]
  /\ lapsed' = IF pc[j] \in BeforeReply THEN lapsed \cup {j} ELSE lapsed
  /\ UNCHANGED <<worker, chat, up, stopAt, stopTodo, left, built, seen>>

\* The process is gone: its workers, its Stop handler and its shutdown with it.
Down(i) ==
  /\ up' = [up EXCEPT ![i] = "down"]
  /\ pc' = [j \in Jobs |-> IF At[j] = i /\ pc[j] \notin {"none"} \cup Ended THEN "dead" ELSE pc[j]]
  /\ stopAt' = IF stopAt = i THEN Nobody ELSE stopAt
  /\ stopTodo' = IF stopAt = i THEN {} ELSE stopTodo
  /\ shut' = [j \in Jobs |-> IF At[j] = i THEN "none" ELSE shut[j]]
  /\ UNCHANGED <<db, mem, cancelled, waited, chat, history>>

Exit(i) == up[i] = "draining" /\ Down(i) /\ UNCHANGED left

Crash(i) ==
  /\ left.crashes > 0
  /\ up[i] = "up"
  /\ left' = [left EXCEPT !.crashes = @ - 1]
  /\ Down(i)

\* A starting instance fails the chat's turn jobs that nothing has written for
\* 30 minutes (FailInterruptedJobs).
Restart(i) ==
  /\ up[i] = "down"
  /\ up' = [up EXCEPT ![i] = "up"]
  /\ LET reaped == {j \in Jobs : row[j] \in Blocking /\ age[j] = 2}
     IN /\ row' = [j \in Jobs |-> IF j \in reaped THEN "failed" ELSE row[j]]
        /\ age' = [j \in Jobs |-> IF j \in reaped THEN 0 ELSE age[j]]
        /\ lapsed' = lapsed \cup {j \in reaped : pc[j] \in BeforeReply}
  /\ UNCHANGED <<worker, chat, stopAt, stopTodo, shut, left, built, seen>>

-----------------------------------------------------------------------------
Work(j) ==
  \/ Insert(j) \/ Register(j) \/ Start(j) \/ StartFails(j)
  \/ Queue(j) \/ PassGate(j) \/ CheckQueuedStatus(j) \/ LeaveQueueCancelled(j)
  \/ GiveUp(j) \/ MarkTicketProcessing(j)
  \/ BuildContext(j) \/ ContextFails(j) \/ Reply(j) \/ GenerationFails(j)
  \/ RecordReply(j) \/ RecordReplyFails(j) \/ SaveChain(j) \/ SaveChainFails(j)
  \/ Advance(j) \/ AdvanceFails(j) \/ EndTicket(j) \/ Abort(j) \/ Release(j)

Next ==
  \/ \E j \in Jobs : Arrive(j) \/ Work(j) \/ Age(j) \/ Heartbeat(j) \/ Watch(j)
                     \/ StopJob(j) \/ ShutdownRead(j) \/ ShutdownWrite(j)
  \/ \E i \in Instances : BeginShutdown(i) \/ Exit(i) \/ Crash(i) \/ Restart(i)
  \/ \E i \in Instances, j \in Jobs : StopThread(i, j)

Spec == Init /\ [][Next]_vars

\* A worker, its heartbeat and its watcher run until they end; a Stop or a
\* shutdown that began goes on; time passes.  Requests, stops, crashes, faults
\* and restarts are not fair.
Fairness ==
  /\ \A j \in Jobs : /\ WF_vars(Work(j)) /\ WF_vars(Age(j)) /\ WF_vars(Heartbeat(j))
                     /\ WF_vars(Watch(j)) /\ WF_vars(StopJob(j))
                     /\ WF_vars(ShutdownRead(j)) /\ WF_vars(ShutdownWrite(j))
  /\ \A i \in Instances : WF_vars(Exit(i))

FairSpec == Spec /\ Fairness

-----------------------------------------------------------------------------
(* Properties.                                                              *)

\* Types; and a shutdown decides complete or failed, never cancelled: that a turn was
\* cancelled is only ever said for a Stop.
TypeOK ==
  /\ row \in [Jobs -> Status \cup {"absent"}]
  /\ age \in [Jobs -> 0..2]
  /\ pc \in [Jobs -> Labels]
  /\ mem \in [Jobs -> Status]
  /\ cancelled \subseteq Jobs
  /\ waited \subseteq Jobs
  /\ saved \subseteq Jobs
  /\ chain \in Jobs \cup {0}
  /\ up \in [Instances -> {"up", "draining", "down"}]
  /\ stopAt \in Instances \cup {Nobody}
  /\ stopTodo \subseteq Jobs
  /\ shut \in [Jobs -> {"none", "open", "replied", "complete", "failed"}]
  /\ left \in [stops : Nat, crashes : Nat, shutdowns : Nat, faults : Nat]
  /\ built \subseteq Jobs
  /\ seen \in [Jobs -> SUBSET Jobs]
  /\ lapsed \subseteq Jobs

\* Two turns of the chat run at once only when the earlier one stopped blocking
\* the gate while still before its reply: nothing else the gate, the workers, a
\* Stop, a shutdown or a restart do breaks job-ordered single-flight.
SingleFlight ==
  \A j, k \in Jobs : j < k /\ pc[j] \in InTurn /\ pc[k] \in InTurn => j \in lapsed

\* A turn builds its context on every reply an earlier turn saves, now or later:
\* an earlier reply missing from it is the reply of a turn that lapsed.
ContextHasEarlierReplies ==
  \A j, k \in Jobs : j < k /\ k \in built /\ j \in saved => j \in seen[k] \cup lapsed

\* No two turns run at once (when rows commit in turn order, heartbeats get
\* through, and nothing ends a job from outside).
StrictSingleFlight ==
  \A j, k \in Jobs : pc[j] \in InTurn /\ pc[k] \in InTurn => j = k

\* A job is reported complete only when its reply is in the chat, whoever
\* finished it: its worker, the end-of-turn guard or a shutdown.
CompleteMeansReplied == \A j \in Jobs : row[j] = "complete" => j \in saved

\* A queued turn leaves the queue, whatever happened to the workers ahead of it:
\* two turns never wait on each other, and a dead one stops blocking.
QueueMovesOn == \A j \in Jobs : pc[j] = "queue" ~> pc[j] # "queue"

\* Every turn's job reaches a terminal status through a Stop and through any write
\* that fails on its way: what a worker could not record, the end-of-turn guard
\* does.  Left out are a worker that died and one that is unended, because the very
\* write that was to end its job failed too: it is not tried again.
TurnsEnd ==
  \A j \in Jobs : row[j] \in Status ~> row[j] \in Terminal \/ pc[j] \in {"unended", "dead"}

-----------------------------------------------------------------------------
(* The gate implements OrderedTurns.                                        *)

PhaseOf(l) == CASE l \in {"none", "insert"} -> "idle"
                [] l \in BeforeReply \ AfterGate -> "waiting"
                [] l \in AfterGate -> "running"
                [] OTHER -> "settled"

Phases == [j \in Jobs |-> PhaseOf(pc[j])]

Abstract == INSTANCE OrderedTurns
  WITH Turns <- Jobs, phase <- Phases,
       excused <- lapsed, answers <- saved, looked <- built, context <- seen

\* The polling gate, with its stops, crashes, shutdowns and slow heartbeats, is
\* an ordered queue of turns once what lapsed is excused.
ImplementsOrderedTurns == Abstract!TSpec

=============================================================================

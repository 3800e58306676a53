# What If: verification of the concurrent core

TLA+ modules for the parts of What If whose correctness depends on the order of
things: the turns of a chat and the gate that serialises them, what an interrupted
turn leaves behind, the checkpoints made at a turn's end, the scheduler that starts
turns, the relay queues that start them from Discord, the sync that copies another
server's threads, and the merging of memories. TLC checks small instances, TLAPS
proves the most important invariants for every value of the constants.

Contents: [the system](#the-system), [the plan](#the-plan), [the modules](#the-modules),
[what the runs show](#what-the-runs-show), [bounds](#bounds), [fairness](#fairness),
[what is proved](#what-is-proved), [what the code's comments say and it does not
do](#what-the-comments-say-and-the-code-does-not-do), [what is not modelled](#what-is-not-modelled).

## The system

What If is a Go server (with a web client) for chats with personalities that
remember. Several API instances may run; they share one Postgres database and
nothing else.

| Component | Source (`src/internal/...`) | State | Operations | What is hard |
|---|---|---|---|---|
| Turn gate | `agent/chat_turn_gate.go` | the turn jobs of the chat, `updated_at`; per instance: tracked turns | acquire, wait, heartbeat, release, tickets, `FailInFlightTurns` | instances meet only in a table they poll; a live turn may look dead |
| User turn | `agent/message.go`, `agent/job_phase.go` | job row, the worker's copy of it, the chat's messages and response chain | send, retry, context, reply, phases, Stop, cancel watcher | each status write may fail or be overtaken |
| Agent-job turn | `agent/agentjob_run.go` | tracking job or queue ticket | background runs, scheduled runs, Stop, abort | a ticket is admitted, marked and ended by different code |
| Jobs table | `datastore/job.go` | status, `created_at`, `updated_at` | create, guarded and unguarded status writes, the reaper | commit order differs from `created_at` order |
| Server lifecycle | `server/server.go` | | startup reaper, shutdown | a crash or shutdown at any step of a turn |
| Checkpointing | `agent/message.go` (`postMessageProcessing` and below), `datastore/chat_checkpoint_claim.go` | summary, window start and claim time on the chat row | claim, summarise, look up, persist, release | runs after the gate has opened; takeover of a stale claim |
| Relay turn queue | `relaykit/turnqueue.go` | per thread: batches, a count, a wake-up token, a worker | `Enqueue`, `next`, `work` | retirement, lost wake-ups, the bound |
| Relay replies | `relaykit/replies.go` | waiters, early releases, orphans | `Wait`, `Release`, `Forget`, `KeepOrphan`, `TakeOrphan` | the reply hook may run ahead of the worker |
| Discord relay | `discordrelay/*.go`, `datastore/discord.go` | inbound and outbound links, post requests | `runInbound`, `OnReply`, `post` | two callers of `OnReply`, no transaction around any of it |
| Agent-job scheduler | `agentjobs/scheduler/*.go`, `datastore/scheduler_lock.go`, `datastore/agentjob.go` | an advisory lock and each instance's session of it; per leadership: quartz triggers, fingerprints, the in-flight set; the job's row | lead, check the lock, reconcile, fire, run, defer, record, step down; edits | leadership moves while detached runs go on; a pass works on a list it read before |
| Relay supervisor, loop guard | `relaykit/supervisor.go`, `loop.go`, `gate.go` | lock, sessions; depth and hourly budget | lead, reconcile; `Batch`, `TakeAgentTurn` | two leaders; budgets shared by places |
| Interrupted Advanced runs | `datastore/job_agent_run.go`, `datastore/job.go`, `agent/advanced_generation.go` | a job's draft and result, the tool-call rows on it | save, clear, consume into the reply or a partial reply; Stop, shutdown, reaper | four parties may end one turn, each in transactions of its own |
| Thread rehydration | `agent/thread_rehydration.go`, `datastore/chat_rehydration.go` | a status and a summary per imported chat | claim, summarise, settle | writes the summary without the checkpoint claim |
| Remote thread sync | `remotesync/syncer.go`, `datastore/remotesync*.go` | the account's lease and outcome; a link per remote thread; local copies | claim, walk, pull, apply, extend, record; stop, save | lease takeover, an early stop of the walk, local messages in a copy |
| Memories and merging | `datastore/memory_merge.go`, `datastore/memory.go`, `datastore/memory_embedding.go` | memory rows, their embeddings, merge events | fold, undo, create, edit, delete, embed | overlapping transactions that read first and lock only the survivor; undo in any order |
| Tools, providers, handlers, OAuth, files, import/export, web client | elsewhere | | | data and I/O; little control that the gate does not already serialise |

How they interact: a handler, the scheduler or a relay creates a job row and a
worker; the worker queues at the gate, reads the chat, calls the provider, saves
its reply and moves its row on. The status `inference_complete` opens the gate, so
the rest of the turn (expression, checkpoint, reply hook) overlaps the next turn.
The checkpoint writes the chat row the next turn reads. The reply hook posts the
reply to Discord and frees the relay worker, which takes the thread's next batch.
An Advanced run saves its draft on the job row as it goes, for whoever ends the turn
if the worker does not. The scheduler's runs queue at the gate as tickets. Checkpoints
extract memories and fold them into older ones; the sync writes chats no turn of this
server made.

What makes each correct:

* **Gate**: one turn of a chat at a time, in order, each on the replies before it;
  no turn waits for ever; nothing is left in progress after a crash, a Stop or a
  shutdown; a job reported complete has its reply.
* **Checkpoint and rehydration**: no message disappears behind a summary that never
  saw it; one pass and one rehydration at a time.
* **Turn queue**: one turn at a time per thread, in order, one place per turn,
  bounded; an accepted message is answered.
* **Replies**: the tags are answered, once, at the newest of them, and the worker
  does not wait for an answer that was given.

* **Scheduler**: one instance projects and fires while its lock holds, a job runs
  once at a time, a one-off prompt is given once, and somebody leads in the end.
* **Interrupted runs**: a turn is answered once, and the work it saved is not lost.
* **Sync**: what a link says was seen has been copied, no message twice, nothing into
  a thread the user continued here, and everything in the end.
* **Memories**: undo brings back what was, a vector belongs to its row's text, and no
  fact is retired without a memory that stands for it.

The hazards these come from are listed in `PROJECT.json`, each at its line.

## The plan

1. `ChatTurn` with its abstract specification `OrderedTurns`, and the proofs of
   type correctness, single flight and context completeness. *Done.*
2. `Checkpoint`, which runs beside later turns, with proofs. *Done.*
3. `RelayTurns` with its abstract specification `PlaceQueues`; `RelayReplies`, the
   inside of one relay turn. *Done, with proofs.*
4. `Scheduler` over `LeaderLock`, with proofs. *Done.*
5. `Drafts`, the messages of an interrupted Advanced turn. *Done, with proofs.*
6. `RemoteSync`. *Done, with proofs.*
7. `MemoryMerges`. *Done, with proofs.*
8. `Supervisor`, which would reuse `LeaderLock`, and the loop guard's hourly budget.
9. Rehydration in `Checkpoint`, with its proofs. *Done.* The revert of a snapshot and
   the sync's writes to a thread with turns are left.
10. Link groups and their split in `MemoryMerges`.
11. Proofs of the two refinements (`ImplementsOrderedTurns`, `ImplementsPlaceQueues`),
    `StrictSingleFlight` and `CompleteMeansReplied`. *Done.*
12. Proofs of the invariants of `Drafts` and `RemoteSync` and of `StandsForItsGroup`.
    *Done: every safety property a run checks is proved.*

`OrderedTurns` and `PlaceQueues` are the interfaces at which the modules meet: the
turn that `RelayTurns` runs is the `StartTurn .. gone` of `RelayReplies`, which is a
job of `ChatTurn`; the pass of `Checkpoint` is the compaction phase of `ChatTurn`.
A run of `Scheduler` in its `turn` is a ticket of `ChatTurn`; `Drafts` opens up the
`BuildContext .. Abort` of one job of `ChatTurn` and keeps only what moves the draft.
They are checked apart because `Checkpoint` holds without the gate (turns in it
overlap as they like) and the relay only needs a turn to end.

## The modules

### ChatTurn: the turns of one chat

A job's number is its place in turn order `(created_at, id)`. `row` is the jobs
table, `age` says which of the code's two bounds `updated_at` has passed
(`TurnJobStaleAfter`, 2 min, and the reaper's 30 min), `mem` is the worker's own
copy of its job, `cancelled` the jobs whose run context is cancelled. `pc` is where
the worker goroutine is; labels are named for what comes next.

| Actions | Code |
|---|---|
| `Arrive`, `Insert`, `Register` | a request: `RetryUserChatMessage`'s look for an active job, `CreateJob`, `HandleUserMessage` |
| `Start`, `StartFails` | the worker's first write |
| `Queue`, `PassGate`, `CheckQueuedStatus`, `LeaveQueueCancelled`, `GiveUp` | `wait` and `acquire`, one action per poll outcome |
| `MarkTicketProcessing` | `beginEphemeralChatTurn` for a scheduled run |
| `BuildContext` .. `RecordReplyFails` | the turn up to `persistInferencePhase` |
| `SaveChain`, `NextPhase`, `PhaseStatus`, `Advance`, `EndTicket`, `Abort` | the response chain and the phases after the reply |
| `Release`, `FinishAbandoned` | the end-of-turn guard `finishAbandonedTurnJob` |
| `Age`, `Heartbeat`, `Watch` | time, `TouchJob`, `watchChatJobCancel` |
| `StopThread`, `StopJob` | `CancelJob`, `cancelChatJob`, newest job first |
| `BeginShutdown`, `ShutdownRead`, `ShutdownWrite`, `Exit` | `Shutdown`, `FailInFlightTurns` |
| `Crash`, `Restart` | a process dies, another starts and runs `FailInterruptedJobs` |

User turns move the row to `inference_complete` before they save the chain; agent
turns save it first. Both orders are kept as the code has them. `KindOf` tells what
started a turn: `user`, `retry` (no cancel watcher), `async` (a tracking job) or
`ticket` (a scheduled run). Failed writes are drawn from `Budget`; a worker whose
very last write failed, the one that says how its turn ended, is `unended`, not `over`.

Nothing in the code makes the gate unconditional: a turn may be stopped on another
instance and go on, be taken for dead, or commit its row after a later turn has
passed. The history variable `lapsed` collects exactly the turns to which that
happened while they were still before their reply, and the properties are stated
relative to it. `StrictSingleFlight` is the same without the excuse, where rows
commit in order and heartbeats get through.

`OrderedTurns` is the promise without a jobs table: turns wait, run in order and
settle; the mapping sends `pc` to its phase and `lapsed` to the excused turns.
`ChatTurnClaims` states what comments say that does not hold. `MCChatTurn` names the
small instances.

### Checkpoint: the checkpoints of one chat

Messages are their `sent_at`, which is stamped before the row commits. A turn reads
the chat row (`from`, and the summary in `cover`), later its history, replies, and
may run a pass: claim (`Claim`, by time stamp, with takeover of a stale one),
`SummaryFails`, `Lookup` (did another message arrive during the turn?), `Persist`
(summary and window start in one update), `Release`. A summary is the set of
messages it covers; a pass covers what its turn's context covered. `passAge` places
the claim against `checkpointTimeout` and `checkpointClaimStaleAfter`. The turns are
*not* serialised here, so what holds does not rest on the gate.

The chat is imported, and a second kind of writer summarises what came before its
first turn: a rehydration claims the thread by its state (`EnqueueRehydration`), reads
its messages (`ReadTranscript`), then the stored summary and window, folds into that
summary all but the last turns (`Split`) and stores summary and window in one update
(`StoreRehydrated`), whoever holds the checkpoint claim. A turn waits for it two
minutes at most, so the model lets it read the chat at any time. `Unsummarised` and
`Behind` are the states import and sync leave a thread in.

### RelayTurns: one relay thread's turn queue

An entry of the `threads` map and its worker are named after the message that made
them, so a retired worker and its successor are told apart. `StartThread`, `Join` and
`Refuse` are the outcomes of `Enqueue`; `Take`, `Sleep`, `Finish`, `Woken`,
`GatherOver`, `IdleOver` and `CtxDone` are the critical sections and the `select` of
`work` and `next`. `Ripen` is the gather time passing, oldest batch first. The
abstract `PlaceQueues` knows only which messages wait, which turn runs and whether
the relay has ended.

### RelayReplies: one turn's reply

`runInbound` (start, register the waiter, attach the tags' links newest first, take
an orphan, wait) beside `OnReply`, which the reply hook runs once the turn is
complete and the worker runs on an orphan. A database call, a `Replies` method or a
post is one action; every one that can fail has the failure. A failed post (`SendFails`)
may have reached Discord, its answer `lost`, and is retried `PostRetries` times; an
empty reply is not posted and counts as sent. A post request for the same binding may
come or go at any time, and may be asked for again between the listing of requests and
their deletion, which takes only the rows listed (`listing`). The thread is taken to be active for as
long as the hook's lookup takes after its worker left (it stays a minute), and the
TTLs to outlast the turn.

### Scheduler and LeaderLock: one agent job

`LeaderLock` is the Postgres advisory lock: `holder` is the session that has it in
the database, `session` what each instance's lock object has, which is `lost` from
the moment its connection is gone until the instance notices. `Scheduler` extends it
with one agent job; jobs share nothing but the leader and the user's execution window.

| Actions | Code |
|---|---|
| `Lead`, `Lose`, `Unhealthy`, `StopQuartz`, `ReleaseLock`, `StepDown` | `run`, `tick`, `startLeader`, `stopLeader`, in the order the code stops things |
| `Shutdown`, `Exit`, `Restart` | the server's context and process |
| `PassRead`, `PassDisarm`, `PassArm`, `PassNote` | `reconcile` and `upsertJob`: table, quartz and fingerprint are three steps |
| `Fire`, `FireRetry`, `RunNow` | quartz, `scheduleCongestedRetry`'s trigger, `TriggerNow` |
| `Begin`, `CreateChat`, `SetChat`, `Window`, `TurnOver`, `Record`, `Disarm`, `Forget`, `End` | `runAgentJob`, detached from the leadership that started it |
| `ReadSchedule`, `Reschedule`, `SetStatus`, `Delete` | edits; a schedule is read, then written, in two steps |

A run has no pointer to its leadership: it cleans up in the maps the manager has *by
then*, as in the code. `here` says whether that is still the map it marked. History:
`begun` counts a one-off's prompts since the last edit and is `excused` where a second
may come; `wiped` is a mark cleared by an older leadership's run; `crossed` a cleanup
that fell between a pass's arming and its note.

### Drafts: what an Advanced turn leaves behind

One turn, a user's or a ticket's: the job row (`status`, `draft`, `result`, `stale`),
`home` of each tool call's row (none, the job, a message) and the messages made.
`read` holds the snapshots of open `finalizeChatJobWithPartial` transactions, one
each for the worker, the shutdown and the reaper: read and write are two steps, since
the transaction is read committed and locks nothing before it writes.

| Actions | Code |
|---|---|
| `Start`, `Call`, `NextStep`, `Answer`, `RunFails` | the Advanced loop, as far as it saves rows and drafts |
| `AnswerRefusal` | `handleSafetyViolation`: a refused user turn gets a set reply and goes on as if it had been done |
| `SaveReply`, `SaveReplyFails`, `SaveChain`, `Persist`, `Clear`, `Drop`, `RecordFails`, `Post` | the reply and its recording |
| `SettleUser`, `SettleTicket`, `SelectTicket`, `Finalize`, `FinalizeFails`, `FailJob`, `WipeDraft`, `Release`, `EndTicket` | how a run that did not finish ends |
| `StopHere`, `StopElsewhere`, `Watch` | `CancelJob`, `MarkChatJobCancelled`, the watcher |
| `BeginShutdown` .. `ShutdownMark`, `Crash`, `Age`, `ReapList` .. `ReapRest` | `FailInFlightTurns`; `FailInterruptedAdvancedJobs` and `FailInterruptedJobs` |

History: `noted` is the last draft saved, `torn` what came between the turn and its
messages (a failed write, a cut context, a refused run, a dead worker stopped, a reply nobody
recorded, a row aged between the reaper's passes, two finalizers at once), `late` that
the worker went on while another was ending its turn. The properties name exactly
these as exceptions: each one was found as a counterexample and traced in the code.

### RemoteSync: one account's sync

A remote message is its place in the order they were sent, a page of the remote list
one thread. `link[t]` is the thread's row (`seen` is `remote_last_message_time`,
`head` where the next pull starts), `copy[t]` the local threads made for it, oldest
first. A run walks (`Read`, `List`, `Listing`), takes its threads one by one (`Pull`,
`Look`, `Commit`, `Extend`) and ends (`RoundOver`, `RunFails`, `Refused`, `Cancel`,
`Record`, `Release`). `Plan` is `ApplyRemoteThread`'s decision (create, adopt, append,
fork, touch, detach); `Look` and `Commit` are the two halves of its transaction, and
`Clash` the unique keys that fail the second. `Continue` and `DeleteLocal` are the
user in the copy, `Stop` and `Save` the account's row.
History: `crossed` are the threads whose copy or link changed under an open
transaction, or whose sync was stopped under a run; `cut` that a run which had written
some threads ended short of the others.

### MemoryMerges: folds, undos and edits

`mem` are the rows, with `vec` the *text* the embedding was made from; `events` the
merge events; `tx` what each of two open transactions has read. `BeginFold` takes any
rows (a plan was made on memories read long before) and locks the survivor;
`CommitFold` is `PersistMemoryMergeGroup` into a live memory with
`foldIntoLiveMemory`, `decideSurvivorRewrite` and the event. `BeginUndo`/`CommitUndo`
are `UndoMemoryMerge`, `BeginEdit`/`CommitEdit` `UpdateMemory` (which writes back every
field it read), `BeginEmbed`/`CommitEmbed` the embedding of a row's text by the
provider. `Fail` is any transaction that does not commit. History: `born` is each row as
created, `edited` the user's, `tangled` those undone out of order or folded by a
stale plan, `lost` those where an edit wrote over a change it had not read.

## What the runs show

| Run | Properties | Distinct states |
|---|---|---|
| `ChatTurn_safety` | `TypeOK`, `SingleFlight`, `ContextHasEarlierReplies`: turns overlap, and a context misses an earlier reply, only when the earlier turn lapsed; `CompleteMeansReplied`; `ImplementsOrderedTurns`: refinement through a Stop and a shutdown | 1,407,082 |
| `ChatTurn_strict` | `StrictSingleFlight`, three turns (a send, its retry, a scheduled run), a crash and two failed writes | 370,206 |
| `ChatTurn_live` | `QueueMovesOn`: no deadlock in the queue, dead workers stop blocking; `TurnsEnd`: a turn's job ends through a Stop and a failed write, unless its process died or the write that was to end it is the one that failed | 395,629 |
| `Checkpoint` | `NothingHidden` (the defect the code calls #268 cannot recur), `OnePassAtATime`; two turns beside a thread that is rehydrated again and again | 2,543,697 |
| `RelayTurns` | `OneTurnAtATime`, `AcceptedIsAnswered`, `ImplementsPlaceQueues` | 301,088 |
| `RelayReplies` | `PostedOnce`: hook and worker never both answer, and a post is only doubled by the retry of one whose answer was lost; `NewestIsAnswered`, `ReplyIsPosted`, `WorkerIsReleased` | 61,605 |
| `Scheduler` | `OneScheduler`, `SingleRun`, `OneOffRunsOnce`: excused only by what the history variables name; `SomeoneLeads`, `ActiveStaysArmed` | 256,643 |
| `Drafts` | `OneAnswer`, `WorkIsKept`: one answer, with the work in it, but for the named exceptions | 5,222,804 |
| `RemoteSync` | `SeenIsCopied`, `ForkedForAReason`, `ContinuedIsLeftAlone`, `EarlyStopIsSafe` (the walk may stop where nothing changed), `CopiedInTheEnd` | 528,406 |
| `MemoryMerges` | `UndoneIsAsBefore`, `TextIsEmbedded`, `FactsAreKept`, `StandsForItsGroup` | 1,008,408 |
| `Claim_ticket_stop`, `Claim_left_out` | one comment each, violated (below) | |

Deadlock is checked in `Scheduler` and `RemoteSync`, which never end. Elsewhere
`CHECK_DEADLOCK FALSE`: a system whose turns are all over stops, as it should
(`ChatTurn`, `Checkpoint`, `Drafts`, the relay), and in `MemoryMerges` the bounds are
spent. The type invariants are checked with the safety runs. Some say more than a
type: the shutdown of `ChatTurn` never decides `cancelled`, the window of `Checkpoint`
starts at most just after the newest stamp, the relay queue keeps its bound.

Each property is paired with a plausible bug that breaks it (the operators marked
"Mutant" in the modules): the filter of the gate without pending jobs or without job
order, a stale copy of the chat used as context, a wait that times out and runs, a
shutdown that reports a turn as stopped by its user, a window that always starts after
the reply or well after it, a summary folded into none, a claim that is taken over at once, a
batch that takes messages of every place, a worker that retires whatever came, a
second look that is left out, links attached oldest first, a lock released before
quartz is stopped, a fingerprint of any schedule taken for the newest, a Stop that
clears the draft, a reaper that takes jobs past their reply, a link that notes what it
did not pull, a fork only where the copies differ, a survivor read without its lock,
a snapshot taken after the update.

## Bounds

* **Two jobs** (`ChatTurn_safety`: a ticket and a user's turn) where a Stop, a
  shutdown or a liveness property multiplies the states, **three** (a send, its retry
  and a scheduled run) in `ChatTurn_strict`. What the gate decides depends on one pair, an earlier and a
  later turn, and the proofs cover any number.
* **Two instances**, jobs alternating: every interaction between instances is between
  two of them. **Budget**: a single stop, crash, shutdown or failed write, or two of
  different kinds; a second one of a kind meets the same code in the same states.
  `ChatTurn_live` has a Stop, a crash and a failed write together, on rows that commit
  in turn order (the safety run has them in any order).
* `age` and `passAge` stop at 2, past the largest bound the code compares with.
* `Checkpoint`: two turns, two workers that rehydrate as often as the state lets them
  (a failed one is tried again), two imported messages (one to fold, one to keep), one
  failed read, lookup or release. The proofs cover any number of each.
* `RelayTurns`: five messages, two places, two waiting: enough for a full queue, a
  batch of two, a second place that overtakes nothing, and a retired worker followed
  by a new one.
* `RelayReplies`: a batch of two tags (a newest and another), one retry of a post and
  two failures, so that the retry may fail, or the retried post be doubled.
* `Scheduler`: two instances, two runs alive, a recurring and a one-off schedule, one
  retry, `Trouble` one: one edit, manual run, lost session, crash, full window or
  failed write. The proofs cover any number of each.
* `Drafts`: two steps (a draft with one, and work that is in no draft), one Stop, one
  crash, one shutdown and one failed write together.
* `RemoteSync`: two threads with a message each, one of them imported; two runs; one
  thread per round, so that a round defers; four messages; one trouble. Takeover needs
  two runs, the early stop two threads, one changed behind one that is not.
* `MemoryMerges`: two stored memories and one to be created, two transactions open,
  two folds and one other change, one wording; any number of undos and embeddings.
  Threads are symmetric, and so are the stored memories. Two folds give a fold of a fold and a crossed pair. A deeper
  instance (three stored memories, three folds, two wordings, one transaction at a
  time; 752,817 states) passes as well.

## Fairness

* Workers, heartbeats and watchers are goroutines: weak fairness on each job's
  actions (`Fairness` in `ChatTurn`). Within `Work(j)` the outcome is left open, so a
  failing branch is never forced, and none is excluded.
* Time is fair (`Age`): a dead worker's row does become stale, and a heartbeat keeps
  a live one from it.
* Requests, stops, crashes, failed writes and restarts are not fair.
* `Scheduler`: an instance's loops run (it leads when it can, notices a lost session
  at a health check, stops in order, reconciles), a process is restarted, and runs go
  on. Triggers, edits and faults are not fair, a healthy session is not closed.
* `RemoteSync`: the timer starts a run that is due, runs go on, and the lease of a dead
  run expires. Messages, faults and the owner are not fair. A step that may fail is
  fair in its successful form (`Step`): a fault is spent from a bound.
* Relay: the worker goroutine runs, a turn it runs returns (it waits for its reply
  with a timeout), gather time passes; idle timers and the relay's end are not
  assumed. In `RelayReplies` neither a poll nor a timeout is assumed, so
  `WorkerIsReleased` shows that the release itself frees the worker.

## What is proved

All for arbitrary constants that satisfy the modules' named assumptions.

* `ChatTurn_proofs`: `TypeCorrect`, `SingleFlightHolds`, `ContextIsComplete`,
  `CompletedHaveReplied`, `StrictSingleFlightHolds`, `ImplementsAlways`.
  `SingleFlight` is not inductive: that no earlier turn runs when a later one passes
  is known only from the table. `GateInv` adds `LiveTurnsBlock` (a worker before its
  reply has a fresh blocking row, unless it lapsed) and `GateOrder` (once a turn is
  past the gate, or has built its context, every earlier worker still before its
  reply lapsed). `CompleteMeansReplied` needs `RepliesAreSaved`: the worker's copy, its
  row and a shutdown each write `complete` on what another of them said. For the strict
  form, proved under the conditions its run sets (`Undisturbed`), `NothingLapses` says
  why each way to lapse is closed.
  `ImplementsAlways` says that every behaviour of the gate is one of `OrderedTurns`. A
  commit, a poll, a context and a reply are its steps; all others excuse live turns or
  settle ended ones. That nobody ahead is live and unexcused when a poll finds no
  blocking row is `LiveTurnsBlock`; `BuiltOnce` is what a reply needs.
* `Checkpoint_proofs`: `TypeCorrect`, `NothingIsHidden`, `OnePassHolds`.
  `NothingHidden` speaks of the stored pair; the invariant says the same of every pair
  on its way there: the copy a turn read (`CopyComplete`), its context
  (`ContextComplete`), what a pass is about to store (`StoreComplete`), and what a
  rehydration read and is about to store (`TranscriptComplete`, `GistComplete`). Each
  pair is complete by itself, so it does not matter which of the two writers, who know
  nothing of each other, comes last. They survive later commits because such a message
  has the newest stamp or is excused (`Stamps`). `OnePassAtATime` follows from
  `ClaimHeld`, a pass whose claim is not yet stale is the one on the row, and
  `StateHeld`, a rehydration still at work holds the thread's state alone.
* `RelayTurns_proofs`: `TypeCorrect`, `OneTurnHolds`, `ImplementsAlways`. The second is from
  `WorkerHasEntry`: the only worker that is not gone is the one the map's entry names.
  The bound in `TypeOK` is on the counter `Enqueue` compares with `Max`, which is kept
  apart from the batches; it holds because the counter is the number of messages in
  them after every step (`Holds`), so that a batch taken never takes it below zero.
  `ImplementsAlways` says that every behaviour of the queue is one of `PlaceQueues`. The
  abstract queue takes the place of its oldest message; the code takes the first batch
  of a list that no line of it sorts. The list stays sorted (`Sorted`): its first batch
  holds the oldest message of all, and of two batches of one place the earlier is closed
  and older.
* `RelayReplies_proofs`: `TypeCorrect`, `TagsAnsweredOnce`, `NewestAnswered`. The right
  to answer the tags is a token (`OneToken`) that the hook holds first (`HookFirst`),
  that may be put down in the orphan and taken up once, and that the post spends. Tags
  are attached newest first, so as long as nothing failed the newest is attached before
  any other is (`NewestFirst`), and whoever picks the newest of the attached picks it.

* `Scheduler_proofs`: `TypeCorrect`, `OneSchedulerAlways`, `SingleRunAlways`,
  `OneOffRunsOnceAlways`. The first rests on `LeadersHaveSession` (whoever has not
  stopped quartz has a session), the second on `RunsAreMarked`. The third says where a
  second prompt could come from: until it is excused one instance has all runs and
  triggers (`Calm`), and a prompt that began is still run, or ended the job, or went
  with its process (`OnceOver`).
* `MemoryMerges_proofs`: `TypeCorrect`, `FactsAreKeptAlways`, `TextIsEmbeddedAlways`,
  `UndoneIsAsBeforeAlways`, `StandsForItsGroupAlways`. A survivor is still active when
  its fold commits (`SurvivorsAreActive`, from the lock), so whoever a fold retires has
  an answer, and only the user deletes (`DeletedAreEdited`). `TextIsEmbedded` is said of
  what undo would bring back, too (`PriorIsEmbedded`). For `UndoneIsAsBefore` the
  standing events on a memory are a chain (`Chained`) from the row as created to the row
  as it is, each having found what the one before it left: a fold pushes onto the chains
  of its members, an undo in order pops (`ChainedByFold`, `ChainedByUndo`), and no chain
  is no change.
  `StandsForItsGroup` is about the same chains while they stand: the chain of counts ends
  at the row's first count and the sum of what its folds added (`ChainAddsUp`), and the
  last fold that labelled a row left it external. The sum is a fold over a set; that it
  is one, and loses a term with an element (`SumsExist`, `SumOfMore`), is proved from a
  smallest counterexample.
* `Drafts_proofs`: `TypeCorrect`, `OneAnswerAlways`, `WorkIsKeptAlways`. Four writers may
  answer a turn, each by what it read of the job some steps before. A worker that takes no
  step once another has set about ending its turn speaks first or not at all
  (`NothingSaidEarly`), and a row read as ended stays so (`StaysEnded`); so whoever begins
  on a draft finds the turn unanswered (`DraftUnanswered`). `WorkIsKept` follows the work:
  until there is a message it is on the job, notes in the draft and calls in rows
  (`WorkingIsOnJob`, `NotedIsOnJob`), what a transaction read of it is still so
  (`ReadIsDraft`), and nobody leaves while it waits there (`DraftWaits`).
* `RemoteSync_proofs`: `TypeCorrect`, `SeenIsCopiedAlways`, `ForkedForAReasonAlways`,
  `ContinuedIsLeftAloneAlways` (an action property), `EarlyStopIsSafeAlways`. A transaction
  writes what it pulled some steps before, from a link read before that. The first three
  follow from one invariant (`Sync`): a copy is the first messages of its thread
  (`CopyIsPrefix`), what a run pulled are all messages from a head no newer than the
  link's (`KnownIsOld`, `LookInv`), what it will write is what it would plan now
  (`CommitInv`), and no other transaction of the thread is open (`OneOpen`), which is what
  `crossed` excepts. `EarlyStopIsSafe` is about the order of the whole list: while only the
  holder of the lease has written (`Sole`), the threads its links and what it has left to
  do bring up to date are those that were the longest unchanged (`Ordered`), as it walks
  but for those further down (`Walked`); a message that comes in takes its thread out of
  the set and to the top of the list.

Only model-checked: everything under fairness (`QueueMovesOn`, `TurnsEnd`,
`AcceptedIsAnswered`, `ReplyIsPosted`, `WorkerIsReleased`, `SomeoneLeads`,
`ActiveStaysArmed`, `CopiedInTheEnd`). Liveness and `ENABLED` are outside the proof
system's reach, and so is an induction theorem that takes an operator; where a proof
needs induction (the sums of `MemoryMerges`, the lists of `RemoteSync`) it takes a
smallest counterexample instead.

## What the comments say and the code does not do

Two are runs that TLC ends with a counterexample; `PROJECT.json` quotes the lines.

* `Claim_ticket_stop`: ADR 0x039 has Stop work on a scheduled run. A Stop between the
  ticket's admission and its `processing` write is overwritten and the run completes.
* `Claim_left_out`: a thread that failed is to be tried again by the next sync. The
  walk of an incremental run stops at the first page without a changed thread, so a
  thread a failed or cancelled run left out behind copied ones stays out until it
  changes again. `CopiedInTheEnd` and `EarlyStopIsSafe` hold where no run was `cut`.

The others were met while modelling; the properties' exceptions are where they show.

* The gate is said to open when the reply *and* the response chain are saved
  (`job_phase.go:47`). `persistInferencePhase` writes `inference_complete` first; a
  turn that polls in between continues from the older chain.
* A Stop that cancels a worker before its first write (`message.go:993`) makes that
  write and the recording of its failure fail: the job stays `pending` until the
  reaper. A background run does not record a failed first write at all. The write that
  is to end a turn (`LeaveQueueCancelled`, `GiveUp`, `EndTicket`, `Abort`, `Release`)
  is not tried again when it fails. `TurnsEnd` leaves these out (`unended`), and holds
  through every other failed write.
* An Advanced run whose provider refuses a later step as a safety violation loses its
  work (`message.go:1081`, `safety_violation.go:19`): the set answer is saved without
  the run's tool calls, the turn goes on as done, and recording the answer clears the
  draft and the call rows (`refused` in `WorkIsKept`, which TLC finds violated without
  that exception).
* The reaper takes `pending` and `processing` only (`job.go:502`): a worker that dies
  after its reply leaves its job in `inference_complete`.
* `FailInFlightTurns` writes a status it decided on an earlier read
  (`chat_turn_gate.go:339`), over a job that ended in between, which the comment at
  line 330 excludes. `CompleteMeansReplied` bounds what it can do.
* `post` is to send a reply at most once (`service.go:311`). The outbound link is looked
  for and created in two steps and a pending one does not stop a second caller, so a
  requested post and the answer to a tag can both go out; and a post that failed after
  Discord took it is sent again (`service.go:359`), which `PostedOnce` excepts.
* A lookup of what the user did to a thread and the transaction that writes its copy
  are two steps (`remotesync_apply.go:135`): a message saved in between is taken over
  (`crossed`).
* A run's cleanup that crosses a reconcile pass leaves an active job without a trigger
  but with its fingerprint until it is edited or the leader changes (`crossed`;
  `scheduler/job.go:46` beside `manager.go:465`).
* Tool calls of an Advanced run's first step are on no draft (`job_agent_run.go:253`):
  after a crash the reaper does not find the job among those with a draft, and the
  calls stay on it (`noted` in `WorkIsKept`).
* A Stop handled elsewhere of a turn whose worker is dead leaves its draft to nobody
  (`orphan`). A row that turns stale between the reaper's two passes is failed without
  its draft (`aged`).
* Shutdown and reaper look at the job, not at the chat: a reply saved and not yet
  recorded gets a partial reply beside it (`unrecorded`).
* An edit that read the row before a fold's commit writes the old wording back under
  the fold's embedding (`memory.go:524`, `memory_merge.go:452`; `lost`).
* Undone in another order than newest first, folds leave wording, count and label of
  an intermediate state (`tangled`); a memory absorbed twice and undone oldest first
  stays retired (`AbsorbedTwice`); a deleted survivor makes its folds' undo fail.

## What is not modelled

* What providers, tools, memories and expressions compute: a turn's inference is one
  step that replies or fails.
* When a checkpoint is due, the text of contexts and summaries, and the history page
  of 50 messages (`Checkpoint` takes the window to fit it).
* Two more writers of a chat's summary: `RevertCheckpointSnapshot` restores an older
  summary and leaves the window, so that the messages between the two are in no context
  (`NothingHidden` does not hold across a revert; a user asked for it), and the sync,
  which writes only to threads nobody continued here (`ContinuedIsLeftAlone`) and is
  taken as over when the first turn starts. A rehydration whose process dies leaves the
  thread `pending` or `processing` for good: no reaper resets it, and every later turn
  of the thread waits its two minutes. What a rehydration does after it stored (mining
  memories) is left out.
* In `Scheduler`, times: a trigger may fire whenever it is set. The execution window is
  open, full or gone at will. Jobs are one at a time.
* In `Drafts`, the streamed text of Standard turns, usage records and transcripts.
* In `RemoteSync`, the archived list (walked the same way), personas, names, memories,
  and messages that commit late on the remote, for which the pull overlaps.
* In `MemoryMerges`, link groups, confidence and speakers (they follow the count and
  the provenance), the sandbox guard, legacy snapshots, imports and summary memories.
* In `Checkpoint`, a message that commits after a later one was stamped, and what a
  failed read or lookup left out, are excused: the code has nothing against either.
* Clock skew between instances, except as commit order in `ChatTurn`: a claim's age
  and a row's age are judged by one clock.
* In `RelayReplies`, a relay that shuts down in the middle of a turn, and the Slack
  and Buzz relays, which use the same queue and replies with stores of their own.
* In the Discord order of calls a release never comes before `Wait` (the link the
  hook needs is attached after it): the early-release branch of `RegisterWaiter` is
  there as in the code and is not reached.
* The components listed as not modelled in `PROJECT.json`, with their reasons.

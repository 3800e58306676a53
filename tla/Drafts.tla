-------------------------------- MODULE Drafts --------------------------------
(***************************************************************************)
(* What an Advanced turn leaves behind however it ends: its tool calls and *)
(* notes are saved on its job while it runs, and become its reply, or a    *)
(* partial reply when it does not finish.                                  *)
(*                                                                         *)
(* One turn: its job row, the draft on it, one tool-call row per call, and *)
(* the messages made for it.  Its worker, a Stop handled here or on another*)
(* instance, the shutdown of its instance and the reaper of a starting one *)
(* all end the turn, each in transactions of its own.  ChatTurn models the *)
(* gate and the statuses; here only what moves a draft is kept, and the    *)
(* phases after the reply are one write.                                   *)
(*                                                                         *)
(* A step makes at most one call, numbered like the step.  A message is    *)
(* numbered by its place in msgs.                                          *)
(***************************************************************************)
EXTENDS Integers, Sequences

CONSTANTS
  MaxSteps,        \* bound: steps of the run
  SlowHeartbeats,  \* TRUE: a live worker's row may look abandoned to the reaper
  Budget           \* bounds: stops, crashes, shutdowns and failed writes

ASSUME ConstantsAssumption ==
  /\ MaxSteps \in Nat \ {0}
  /\ SlowHeartbeats \in BOOLEAN
  /\ Budget \in [stops : Nat, crashes : Nat, shutdowns : Nat, faults : Nat]

VARIABLES
  kind,       \* "user": a chat_message turn; "ticket": a scheduled run's
  status,     \* the job's status
  draft,      \* draft_agent_run: the steps it records, or NoDraft
  result,     \* result_id: a message, or 0
  stale,      \* TRUE: updated_at is past the reaper's bound
  home,       \* each tool call's row: NoRow, OnJob, or the message it is on
  msgs,       \* the messages made for the turn: "reply" or "partial"
  pc,         \* where the worker is
  step,       \* the step it is on
  made,       \* the calls it has made
  cancelled,  \* its run context is cancelled
  outcome,    \* how its generation ended: "none", "done", "failed" or "cancelled"
  tries,      \* attempts at recording the reply
  shut,       \* where the shutdown's handling of this turn is
  reap,       \* where the reaper's pass is
  read,       \* what each open finalize transaction has read
  left,       \* what is left of Budget
  noted,      \* history: the steps of the last draft saved, or NoDraft
  torn,       \* history: what came between the turn and its messages
  late        \* history: the worker went on after another had set about ending
              \* its turn

row == <<status, draft, result, stale>>
chat == <<home, msgs>>
worker == <<pc, step, made, cancelled, outcome, tries>>
others == <<shut, reap>>
history == <<noted, torn>>
vars == <<kind, status, draft, result, stale, home, msgs, pc, step, made, cancelled,
          outcome, tries, shut, reap, read, left, noted, torn, late>>

NoDraft == -1
NoRow == -1
OnJob == 0
Calls == 1..MaxSteps
Blocking == {"pending", "processing"}
Terminal == {"complete", "cancelled", "failed"}
Status == Blocking \cup {"inference_complete"} \cup Terminal
Finalizers == {"worker", "shutdown", "reaper"}
NotRead == [open |-> FALSE, status |-> "pending", draft |-> NoDraft, result |-> 0,
            to |-> "failed"]
Ended == {"over", "dead"}
Labels == {"start", "step", "refused", "settle", "select", "finalize", "save", "chain", "persist",
           "clear", "drop", "unrecorded", "wipe", "post", "release", "end"} \cup Ended
WorkerLives == pc \notin Ended

\* hasRunningJob and the watcher: until the worker returns, or for a ticket
\* until its reply is saved.
Stoppable == WorkerLives /\ (kind = "ticket" =>
               pc \in {"step", "settle", "select", "finalize", "save"})

Init ==
  /\ kind \in {"user", "ticket"}
  /\ status = "pending"
  /\ draft = NoDraft
  /\ result = 0
  /\ stale = FALSE
  /\ home = [c \in Calls |-> NoRow]
  /\ msgs = <<>>
  /\ pc = "start"
  /\ step = 1
  /\ made = {}
  /\ cancelled = FALSE
  /\ outcome = "none"
  /\ tries = 0
  /\ shut = "none"
  /\ reap = "none"
  /\ read = [p \in Finalizers |-> NotRead]
  /\ left = Budget
  /\ noted = NoDraft
  /\ torn = {}
  /\ late = FALSE

-----------------------------------------------------------------------------
(* Writes of the job row; every one refreshes updated_at.                   *)

WriteRow(s, d, r) == status' = s /\ draft' = d /\ result' = r /\ stale' = FALSE

Spend(what) == left[what] > 0 /\ left' = [left EXCEPT ![what] = @ - 1]
NoFault == UNCHANGED <<left, torn>>
Fault == Spend("faults") /\ torn' = torn \cup {"fault"}
\* On the run context a write also fails once that is cancelled.
Writes == ~cancelled /\ NoFault
WriteFails == \/ cancelled /\ UNCHANGED left /\ torn' = torn \cup {"cut"}
              \/ ~cancelled /\ Fault

\* The rows no message took are deleted.
Dropped == [c \in Calls |-> IF home[c] = OnJob THEN NoRow ELSE home[c]]

-----------------------------------------------------------------------------
(* finalizeChatJobWithPartial: one transaction, read committed.  It reads   *)
(* the row, and writes by what it read.                                     *)

Begin(p, to) ==
  /\ ~read[p].open
  /\ read' = [read EXCEPT ![p] = [open |-> TRUE, status |-> status, draft |-> draft,
                                  result |-> result, to |-> to]]

\* consumeDraftAgentRunToMessageTx: a draft with no steps and no calls makes no
\* message; neither does a row that is already as it should be and has a result.
Consumes(r) ==
  /\ r.draft # NoDraft
  /\ r.status = r.to => r.result = 0
  /\ r.draft > 0 \/ \E c \in Calls : home[c] = OnJob

\* Mutant: without a partial the rows are moved to a message never made.
TakenByNext(r) ==
  [c \in Calls |-> IF home[c] = OnJob THEN Len(msgs) + 1 ELSE home[c]]

\* The partial takes the job's tool-call rows; the rows left over are dropped.
Taken(r) ==
  IF Consumes(r)
  THEN [c \in Calls |-> IF home[c] = OnJob THEN Len(msgs) + 1 ELSE home[c]]
  ELSE Dropped

Commit(p) ==
  LET r == read[p]
      id == IF Consumes(r) THEN Len(msgs) + 1 ELSE 0
  IN /\ r.open
     /\ msgs' = IF Consumes(r) THEN Append(msgs, "partial") ELSE msgs
     /\ home' = Taken(r)
     /\ IF r.status # r.to THEN WriteRow(r.to, NoDraft, id)
        ELSE IF r.draft # NoDraft
             THEN WriteRow(status, NoDraft, IF id > 0 THEN id ELSE result)
             ELSE UNCHANGED row
     /\ read' = [read EXCEPT ![p] = NotRead]

Abandon(p) == read[p].open /\ read' = [read EXCEPT ![p] = NotRead]

-----------------------------------------------------------------------------
(* The worker: the run.                                                     *)

Goto(l) == pc' = l

\* Its first write (a user turn's resets the draft as well).  A user turn fails
\* with it, trying to record that; a ticket goes on.
Start ==
  /\ pc = "start"
  /\ \/ /\ Writes
        /\ WriteRow("processing", IF kind = "user" THEN NoDraft ELSE draft, result)
        /\ Goto("step")
     \/ /\ WriteFails
        /\ UNCHANGED row
        /\ Goto(IF kind = "user" THEN "over" ELSE "step")
     \/ /\ kind = "user" /\ ~cancelled /\ Fault
        /\ WriteRow("failed", draft, result)
        /\ Goto("over")
  /\ UNCHANGED <<kind, chat, step, made, cancelled, outcome, tries, others, read, noted>>

\* A tool call finishes and is saved as a row of the job, on a context no Stop
\* reaches.  A call whose row could not be saved is only in memory.
Call ==
  /\ pc = "step"
  /\ ~cancelled
  /\ step \notin made
  /\ made' = made \cup {step}
  /\ \/ home' = [home EXCEPT ![step] = OnJob] /\ NoFault
     \/ Fault /\ UNCHANGED home
  /\ UNCHANGED <<kind, row, msgs, pc, step, cancelled, outcome, tries, others, read, noted>>

\* UpdateJobDraftAgentRun, whatever the row holds by now.
SaveDraft(n) ==
  \/ WriteRow(status, n, result) /\ noted' = n /\ NoFault
  \/ Fault /\ UNCHANGED <<row, noted>>

\* The step is over and the plan is not, or it did not fit the model's context and
\* the run was compacted: the run so far is saved, and goes on in a new step.
NextStep ==
  /\ pc = "step"
  /\ step < MaxSteps
  /\ \E n \in {step - 1, step} : SaveDraft(n)
  /\ step' = step + 1
  /\ UNCHANGED <<kind, chat, pc, made, cancelled, outcome, tries, others, read>>

\* The model's answer ends the run; this step is in no draft.
Answer ==
  /\ pc = "step"
  /\ ~cancelled
  /\ outcome' = "done"
  /\ Goto("save")
  /\ UNCHANGED <<kind, row, chat, step, made, cancelled, tries, others, read, left, history>>

\* A call of the model failed, or its context ended: the run so far is saved,
\* with or without anything written in this step.  For a user's turn the provider
\* may have refused it as a safety violation.
RunFails ==
  /\ pc = "step"
  /\ \E n \in {step - 1, step} : SaveDraft(n)
  /\ outcome' = IF cancelled THEN "cancelled" ELSE "failed"
  /\ Goto("settle") \/ (kind = "user" /\ Goto("refused"))
  /\ UNCHANGED <<kind, chat, step, made, cancelled, tries, others, read>>

\* handleSafetyViolation: a refused turn is answered with a set reply, which takes
\* none of the run's calls, and goes on as if the run had been done; it stays
\* failed where that reply cannot be saved.
AnswerRefusal ==
  /\ pc = "refused"
  /\ \/ /\ ~cancelled
        /\ msgs' = Append(msgs, "reply")
        /\ outcome' = "done"
        /\ Goto("persist")
        /\ UNCHANGED left /\ torn' = torn \cup {"refused"}
     \/ /\ (cancelled /\ NoFault) \/ (~cancelled /\ Fault)
        /\ Goto("settle")
        /\ UNCHANGED <<msgs, outcome>>
  /\ UNCHANGED <<kind, row, home, step, made, cancelled, tries, others, read, noted>>

\* A call that was saved as a draft is moved onto the reply; one with no row is
\* created.  A row another message took makes that insert a duplicate, which
\* aborts the transaction.
RowsClash == \E c \in made : home[c] > 0

\* CreateChatMessage.  The reply is there but its generation counts as failed
\* when none of the files it made could be attached.
SaveReply ==
  /\ pc = "save"
  /\ ~cancelled
  /\ ~RowsClash
  /\ msgs' = Append(msgs, "reply")
  /\ home' = [c \in Calls |-> IF c \in made THEN Len(msgs) + 1 ELSE home[c]]
  /\ \/ Goto(IF kind = "user" THEN "persist" ELSE "chain") /\ NoFault /\ UNCHANGED outcome
     \/ Spend("faults") /\ torn' = torn \cup {"fault", "unrecorded"}
        /\ outcome' = "failed" /\ Goto("settle")
  /\ UNCHANGED <<kind, row, step, made, cancelled, tries, others, read, noted>>

SaveReplyFails ==
  /\ pc = "save"
  /\ \/ (RowsClash \/ cancelled) /\ NoFault
     \/ ~RowsClash /\ ~cancelled /\ Fault
  /\ outcome' = IF cancelled THEN "cancelled" ELSE "failed"
  /\ Goto("settle")
  /\ UNCHANGED <<kind, row, chat, step, made, cancelled, tries, others, read, noted>>

-----------------------------------------------------------------------------
(* The worker: ending a run that did not finish.                            *)

\* How the run is taken to have ended: cancelled, once its context is.
Verdict == IF cancelled THEN "cancelled" ELSE outcome

\* A user turn: on a fresh context when cancelled, else on the run context.
SettleUser ==
  /\ pc = "settle"
  /\ kind = "user"
  /\ outcome' = Verdict
  /\ Begin("worker", Verdict)
  /\ Goto("finalize")
  /\ UNCHANGED <<kind, row, chat, step, made, cancelled, tries, others, left, history>>

\* finalizeEphemeralAdvancedDraft: only when the row has a draft.
SettleTicket ==
  /\ pc = "settle"
  /\ kind = "ticket"
  /\ outcome' = Verdict
  /\ Goto(IF draft = NoDraft THEN "end" ELSE "select")
  /\ UNCHANGED <<kind, row, chat, step, made, cancelled, tries, others, read, left, history>>

SelectTicket ==
  /\ pc = "select"
  /\ Begin("worker", outcome)
  /\ Goto("finalize")
  /\ UNCHANGED <<kind, row, chat, step, made, cancelled, outcome, tries, others, left, history>>

Finalize ==
  /\ pc = "finalize"
  /\ Commit("worker")
  /\ outcome' = IF kind = "user" THEN "ended" ELSE outcome
  /\ Goto(IF kind = "user" THEN "release" ELSE "end")
  /\ UNCHANGED <<kind, step, made, cancelled, tries, others, left, history>>

\* It fails, or a Stop cancels the run context under a failed run's: a user turn
\* falls back to setJobStatusFailed.
FinalizeFails ==
  /\ pc = "finalize"
  /\ Abandon("worker")
  /\ \/ Fault
     \/ /\ cancelled /\ outcome = "failed" /\ kind = "user"
        /\ UNCHANGED left /\ torn' = torn \cup {"cut"}
  /\ Goto(IF kind = "user" THEN "unrecorded" ELSE "end")
  /\ UNCHANGED <<kind, row, chat, step, made, cancelled, outcome, tries, others, noted>>

\* setJobStatusFailed runs on a fresh context after a cancelled run only.
FallbackWrites == (~cancelled \/ outcome = "cancelled") /\ NoFault
FallbackFails ==
  \/ cancelled /\ outcome # "cancelled" /\ UNCHANGED left /\ torn' = torn \cup {"cut"}
  \/ (~cancelled \/ outcome = "cancelled") /\ Fault

\* It writes the worker's copy of the row, which has no result ...
FailJob ==
  /\ pc = "unrecorded"
  /\ \/ FallbackWrites /\ WriteRow("failed", draft, 0) /\ Goto("wipe")
     \/ FallbackFails /\ UNCHANGED row /\ Goto("release")
  /\ UNCHANGED <<kind, chat, step, made, cancelled, outcome, tries, others, read, noted>>

\* ... and clears the draft, then its rows, best effort.
WipeDraft ==
  /\ pc = "wipe"
  /\ \/ FallbackWrites /\ WriteRow(status, NoDraft, result) /\ home' = Dropped
     \/ FallbackFails /\ UNCHANGED home /\ (UNCHANGED row \/ WriteRow(status, NoDraft, result))
  /\ Goto("release")
  /\ outcome' = "ended"
  /\ UNCHANGED <<kind, msgs, step, made, cancelled, tries, others, read, noted>>

-----------------------------------------------------------------------------
(* The worker: recording a saved reply.                                     *)

\* UpdateChatContinuity comes first for a scheduled run, and may fail it.
SaveChain ==
  /\ pc = "chain"
  /\ \/ NoFault /\ Goto("persist") /\ UNCHANGED outcome
     \/ Fault /\ outcome' = "failed" /\ Goto("end")
  /\ UNCHANGED <<kind, row, chat, step, made, cancelled, tries, others, read, noted>>

\* The reply's message: the last one this worker appended.
Reply == CHOOSE m \in DOMAIN msgs : msgs[m] = "reply"

\* persistInferencePhase: the row names the reply ...
Persist ==
  /\ pc = "persist"
  /\ Writes
  /\ WriteRow("inference_complete", draft, Reply)
  /\ Goto("clear")
  /\ UNCHANGED <<kind, chat, step, made, cancelled, outcome, tries, others, read, noted>>

\* ... ClearJobDraftDeltas clears the draft ...
Clear ==
  /\ pc = "clear"
  /\ Writes
  /\ WriteRow(status, NoDraft, result)
  /\ Goto("drop")
  /\ UNCHANGED <<kind, chat, step, made, cancelled, outcome, tries, others, read, noted>>

\* ... and then deletes the rows the reply did not take.
Drop ==
  /\ pc = "drop"
  /\ Writes
  /\ home' = Dropped
  /\ Goto(IF kind = "user" THEN "post" ELSE "end")
  /\ UNCHANGED <<kind, row, msgs, step, made, cancelled, outcome, tries, others, read, noted>>

\* Any of them fails: a user turn tries once more (advanceJobInferenceComplete)
\* and then fails its job; a ticket ends complete all the same.
RecordFails ==
  /\ pc \in {"persist", "clear", "drop"}
  /\ WriteFails
  /\ tries' = 1
  /\ Goto(IF kind = "ticket" THEN "end" ELSE IF tries = 0 THEN "persist" ELSE "unrecorded")
  /\ UNCHANGED <<kind, row, chat, step, made, cancelled, outcome, others, read, noted>>

\* The phases after the reply end in one write, from the worker's copy.
Post ==
  /\ pc = "post"
  /\ \/ Writes /\ WriteRow("complete", draft, Reply) /\ outcome' = "ended"
     \/ WriteFails /\ UNCHANGED <<row, outcome>>
  /\ Goto("release")
  /\ UNCHANGED <<kind, chat, step, made, cancelled, tries, others, read, noted>>

\* finishAbandonedTurnJob: nothing when the worker ended the job itself, nor over
\* a terminal row.
Release ==
  /\ pc = "release"
  /\ Goto("over")
  /\ IF outcome = "ended" \/ status \in Terminal
     THEN UNCHANGED row /\ NoFault
     ELSE \/ WriteRow(IF result # 0 \/ status = "inference_complete" THEN "complete" ELSE "failed",
                      draft, result) /\ NoFault
          \/ Fault /\ UNCHANGED row
  /\ UNCHANGED <<kind, chat, step, made, cancelled, outcome, tries, others, read, noted>>

\* A ticket's finish writes the run's outcome over whatever the row holds.
EndTicket ==
  /\ pc = "end"
  /\ \/ WriteRow(IF outcome = "done" THEN "complete" ELSE outcome, draft, result) /\ NoFault
     \/ Fault /\ UNCHANGED row
  /\ Goto("over")
  /\ UNCHANGED <<kind, chat, step, made, cancelled, outcome, tries, others, read, noted>>

-----------------------------------------------------------------------------
(* Stop.                                                                    *)

\* On the worker's own instance: its context is cancelled.
StopHere ==
  /\ Stoppable
  /\ ~cancelled
  /\ Spend("stops")
  /\ cancelled' = TRUE
  /\ UNCHANGED <<kind, row, chat, pc, step, made, outcome, tries, others, read, history>>

\* Mutant: the draft is cleared with the streamed text.
CancelledWithoutDraft == WriteRow("cancelled", NoDraft, result)

\* The draft is left for the worker that is still running, which finalizes it.
Cancelled == WriteRow("cancelled", draft, result)

\* MarkChatJobCancelled: on another instance, or with no worker here.
StopElsewhere ==
  /\ Spend("stops")
  /\ status \notin Terminal
  /\ Cancelled
  /\ torn' = IF WorkerLives THEN torn ELSE torn \cup {"orphan"}
  /\ UNCHANGED <<kind, chat, worker, others, read, noted>>

\* watchChatJobCancel.
Watch ==
  /\ Stoppable
  /\ status = "cancelled"
  /\ ~cancelled
  /\ cancelled' = TRUE
  /\ UNCHANGED <<kind, row, chat, pc, step, made, outcome, tries, others, read, left, history>>

-----------------------------------------------------------------------------
(* Shutdown, crash, reaper.                                                 *)

\* The turn is read, or its worker dies, with a saved reply its row does not name.
NotesUnrecorded == IF msgs # <<>> /\ result = 0 THEN {"unrecorded"} ELSE {}

\* A shutdown and a reaper have transactions open on the same row.
NotesRaced == IF \E p \in {"shutdown", "reaper"} : read[p].open THEN {"raced"} ELSE {}

\* FailInFlightTurns reads the row: a terminal one is left alone, one past its
\* reply is marked complete, any other failed.
BeginShutdown ==
  /\ WorkerLives
  /\ shut = "none"
  /\ Spend("shutdowns")
  /\ shut' = IF status \in Terminal THEN "none"
             ELSE IF status \in Blocking THEN "select" ELSE "complete"
  /\ torn' = torn \cup NotesUnrecorded
  /\ UNCHANGED <<kind, row, chat, worker, reap, read, noted>>

\* FinalizeAdvancedDraft looks for a draft first.
ShutdownSelect ==
  /\ shut = "select"
  /\ shut' = IF draft = NoDraft THEN "failed" ELSE "begin"
  /\ UNCHANGED <<kind, row, chat, worker, reap, read, left, history>>

ShutdownBegin ==
  /\ shut = "begin"
  /\ Begin("shutdown", "failed")
  /\ shut' = "finalize"
  /\ torn' = torn \cup NotesRaced
  /\ UNCHANGED <<kind, row, chat, worker, reap, left, noted>>

ShutdownFinalize ==
  /\ shut = "finalize"
  /\ \/ Commit("shutdown") /\ shut' = "done" /\ NoFault
     \/ Abandon("shutdown") /\ shut' = "failed" /\ Fault /\ UNCHANGED <<row, chat>>
  /\ UNCHANGED <<kind, worker, reap, noted>>

\* Without a draft, or when that failed: the status is written, over any other.
ShutdownMark ==
  /\ shut \in {"failed", "complete"}
  /\ WriteRow(shut, draft, result)
  /\ shut' = "done"
  /\ UNCHANGED <<kind, chat, worker, reap, read, left, history>>

\* The process dies, with its shutdown and the transactions it had open.
Crash ==
  /\ WorkerLives
  /\ IF shut = "none" THEN Spend("crashes") ELSE UNCHANGED left
  /\ Goto("dead")
  /\ shut' = "done"
  /\ read' = [read EXCEPT !["worker"] = NotRead, !["shutdown"] = NotRead]
  /\ torn' = torn \cup NotesUnrecorded \cup (IF status = "cancelled" THEN {"orphan"} ELSE {})
  /\ UNCHANGED <<kind, row, chat, step, made, cancelled, outcome, tries, reap, noted>>

\* Time passes without a write: 30 minutes for a row whose worker is gone.
Age ==
  /\ ~stale
  /\ status \notin Terminal
  /\ ~WorkerLives \/ SlowHeartbeats
  /\ stale' = TRUE
  /\ torn' = IF reap \in {"none", "done"} THEN torn ELSE torn \cup {"aged"}
  /\ UNCHANGED <<kind, status, draft, result, chat, worker, others, read, left, noted>>

\* Mutant: any unfinished job, one past its reply included.
AbandonedUnfinished == status \notin Terminal /\ stale /\ draft # NoDraft

\* FailInterruptedAdvancedJobs takes the abandoned jobs that hold a draft.
Abandoned == status \in Blocking /\ stale /\ draft # NoDraft

\* An instance starts and lists them ...
ReapList ==
  /\ reap = "none"
  /\ reap' = IF Abandoned THEN "select" ELSE "rest"
  /\ torn' = torn \cup NotesUnrecorded
  /\ UNCHANGED <<kind, row, chat, worker, shut, read, left, noted>>

\* ... finalizes each one that still does ...
ReapSelect ==
  /\ reap = "select"
  /\ reap' = IF draft = NoDraft THEN "rest" ELSE "begin"
  /\ UNCHANGED <<kind, row, chat, worker, shut, read, left, history>>

ReapBegin ==
  /\ reap = "begin"
  /\ Begin("reaper", "failed")
  /\ reap' = "finalize"
  /\ torn' = torn \cup NotesRaced
  /\ UNCHANGED <<kind, row, chat, worker, shut, left, noted>>

ReapFinalize ==
  /\ reap = "finalize"
  /\ \/ Commit("reaper") /\ reap' = "ended" /\ NoFault
     \/ Abandon("reaper") /\ reap' = "rest" /\ Fault /\ UNCHANGED <<row, chat>>
  /\ UNCHANGED <<kind, worker, shut, noted>>

\* ... and FailInterruptedJobs fails what is left.
ReapRest ==
  /\ reap = "rest"
  /\ IF status \in Blocking /\ stale
     THEN WriteRow("failed", draft, result) /\ reap' = "ended"
     ELSE UNCHANGED row /\ reap' = "done"
  /\ UNCHANGED <<kind, chat, worker, shut, read, left, history>>

\* A shutdown or a reaper is ending this turn, or has.
BeingEnded == shut # "none" \/ reap \notin {"none", "done"}

Turn == \/ Start \/ Call \/ NextStep \/ Answer \/ RunFails \/ AnswerRefusal
        \/ SaveReply \/ SaveReplyFails \/ SettleUser \/ SettleTicket \/ SelectTicket \/ Finalize \/ FinalizeFails
        \/ FailJob \/ WipeDraft \/ SaveChain \/ Persist \/ Clear \/ Drop \/ RecordFails
        \/ Post \/ Release \/ EndTicket
Outside == \/ StopHere \/ StopElsewhere \/ Watch \/ BeginShutdown \/ ShutdownSelect
           \/ ShutdownBegin \/ ShutdownFinalize \/ ShutdownMark \/ Crash \/ Age
           \/ ReapList \/ ReapSelect \/ ReapBegin \/ ReapFinalize \/ ReapRest
Next == \/ Turn /\ late' = (late \/ BeingEnded)
        \/ Outside /\ UNCHANGED late

Spec == Init /\ [][Next]_vars

-----------------------------------------------------------------------------
(* Properties.                                                              *)

Snapshot == [open : BOOLEAN, status : Status, draft : -1..MaxSteps, result : Nat,
             to : {"failed", "cancelled"}]

\* Type correctness.
TypeOK ==
  /\ kind \in {"user", "ticket"}
  /\ status \in Status
  /\ draft \in -1..MaxSteps
  /\ result \in 0..Len(msgs)
  /\ stale \in BOOLEAN
  /\ msgs \in Seq({"reply", "partial"})
  /\ home \in [Calls -> -1..Len(msgs)]
  /\ pc \in Labels
  /\ step \in Calls
  /\ made \subseteq Calls
  /\ cancelled \in BOOLEAN
  /\ outcome \in {"none", "done", "failed", "cancelled", "ended"}
  /\ tries \in {0, 1}
  /\ shut \in {"none", "select", "begin", "finalize", "failed", "complete", "done"}
  /\ reap \in {"none", "select", "begin", "finalize", "rest", "ended", "done"}
  /\ read \in [Finalizers -> Snapshot]
  /\ left \in [stops : Nat, crashes : Nat, shutdowns : Nat, faults : Nat]
  /\ noted \in -1..MaxSteps
  /\ torn \subseteq {"fault", "cut", "orphan", "unrecorded", "aged", "raced", "refused"}
  /\ late \in BOOLEAN

\* A turn is answered once: by its reply or by one partial reply, whatever fails
\* and wherever it is stopped, unless its worker went on while a shutdown or the
\* reaper ended it, or died (or failed to attach its files) with a saved reply its
\* job did not name yet: finalizeChatJobWithPartial looks at the job alone, never
\* for a reply already in the chat.
OneAnswer == Len(msgs) > 1 => late \/ torn \cap {"unrecorded", "raced"} # {}

\* Nothing is about to end the turn, and its job is over.
Settled ==
  /\ pc \in Ended
  /\ status \in Terminal
  /\ \A p \in Finalizers : ~read[p].open
  /\ shut \in {"none", "done"}
  /\ reap \in {"none", "ended", "done"}

\* A run that fails, is stopped or dies keeps its work: once a draft was saved,
\* every call it made is on a message of the chat when the turn is over, and so
\* are its notes.  What breaks it is a failed write, a Stop between a failure and
\* its partial reply, a Stop of a run whose worker is dead, a row that turns
\* stale between the reaper's two passes, and a run its provider refused: the set
\* reply stands for it, and the draft and the rows it left are cleared.
WorkIsKept ==
  Settled /\ noted # NoDraft =>
    \/ /\ \A c \in made : home[c] > 0
       /\ noted > 0 => msgs # <<>>
    \/ late \/ torn \cap {"fault", "cut", "orphan", "aged", "refused"} # {}
===============================================================================

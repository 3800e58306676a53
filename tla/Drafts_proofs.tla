---------------------------- MODULE Drafts_proofs ----------------------------
(***************************************************************************)
(* What an Advanced turn leaves behind, for any number of steps and any    *)
(* budget of stops, crashes, shutdowns and failed writes.                  *)
(*                                                                         *)
(* OneAnswer is not inductive.  Four writers may answer a turn, each by    *)
(* what it read of the job, which may have changed since.  A worker that   *)
(* takes no step once another has set about ending its turn (~late) speaks *)
(* first or not at all (NothingSaidEarly); a row that was read as ended    *)
(* stays so (StaysEnded); so whoever begins on a draft finds the turn      *)
(* unanswered (DraftUnanswered).                                           *)
(*                                                                         *)
(* WorkIsKept follows the work instead: until there is a message it is on  *)
(* the job, its notes in the draft and its calls in rows (WorkingIsOnJob,  *)
(* NotedIsOnJob), what a transaction read of it is still so (ReadIsDraft), *)
(* and nobody leaves while it waits there (DraftWaits).                    *)
(***************************************************************************)
EXTENDS Drafts, TLAPS

\* The bound of the steps is a number.
LEMMA Bound == MaxSteps \in Nat /\ MaxSteps > 0
  BY ConstantsAssumption


-----------------------------------------------------------------------------
(* Shape: types, and what a label says of the worker and its transactions.   *)

Early == {"start", "step", "refused", "save", "settle", "select", "finalize"}
Recording == {"chain", "persist", "clear", "drop", "post"}

\* An open transaction belongs to whoever is at that point.
OpenByLabel ==
  /\ read["worker"].open => pc = "finalize"
  /\ read["shutdown"].open => shut = "finalize"
  /\ read["reaper"].open => reap = "finalize"

\* A run that is being settled has ended badly, one being recorded well.
OutcomeByLabel ==
  /\ pc \in {"refused", "settle", "select", "finalize"} => outcome \in {"failed", "cancelled"}
  /\ pc \in Recording \cup {"save"} => outcome = "done"
  /\ pc = "chain" => kind = "ticket"
  /\ pc = "end" => kind = "ticket" /\ outcome \in {"done", "failed", "cancelled"}
  /\ pc = "start" => made = {} /\ noted = NoDraft

\* What is recorded was said.
ReplySaid == \E m \in DOMAIN msgs : msgs[m] = "reply"
RecordsReply == pc \in Recording => ReplySaid

\* What a transaction read was there.
ReadsAreOld ==
  \A p \in Finalizers : read[p].result \in 0..Len(msgs)

\* Only calls that were made have rows, and drafts that were noted.
RowsAreOfCalls ==
  /\ \A c \in Calls : home[c] # NoRow => c \in made
  /\ draft # NoDraft => noted # NoDraft
  /\ \A p \in Finalizers : read[p].draft # NoDraft => noted # NoDraft

Shape == TypeOK /\ OpenByLabel /\ OutcomeByLabel /\ RecordsReply /\ ReadsAreOld /\ RowsAreOfCalls

-----------------------------------------------------------------------------
(* One answer.                                                              *)

Unrecorded == {"fault", "unrecorded"} \subseteq torn

\* While the worker is at it nothing is said, unless somebody ended its turn.
NothingSaidEarly ==
  pc \in Early /\ msgs # <<>> => late \/ Unrecorded \/ shut = "done" \/ reap = "ended"

\* A row without an end has no result, ...
NoResultYet == status \in Blocking /\ ~late => result = 0

ResultIsLate == result # 0 /\ pc \in Early => late \/ shut = "done" \/ reap = "ended"

\* ... and stays ended once a transaction found it so.
StaysEnded ==
  \A p \in Finalizers : read[p].open /\ read[p].status \notin Blocking /\ ~late => status \notin Blocking

TwoAnswers == late \/ torn \cap {"unrecorded", "raced"} # {}

\* Whoever may make a partial reply of a draft finds no answer yet.
DraftUnanswered ==
  ~TwoAnswers =>
    /\ {shut, reap} \cap {"select", "begin", "finalize"} # {} /\ draft # NoDraft => msgs = <<>>
    /\ \A p \in {"shutdown", "reaper"} : read[p].open /\ read[p].draft # NoDraft => msgs = <<>>
    /\ ~read["shutdown"].open \/ ~read["reaper"].open

AnswerInv == NothingSaidEarly /\ NoResultYet /\ ResultIsLate /\ StaysEnded /\ DraftUnanswered /\ OneAnswer

-----------------------------------------------------------------------------
(* Kept work.                                                               *)

Lossy == late \/ torn \cap {"fault", "cut", "orphan", "aged", "refused"} # {}

\* The work so far is on the job: its notes in the draft, its calls in rows.
OnTheJob == draft = noted /\ \A c \in made : home[c] = OnJob

AnsweredHasCalls == msgs # <<>> => \A c \in made : home[c] > 0

WorkingIsOnJob ==
  msgs = <<>> /\ pc \in Early => OnTheJob \/ shut = "done" \/ reap = "ended"

\* Work that was noted waits on the job, or there was none.
NotedIsOnJob ==
  msgs = <<>> /\ noted # NoDraft =>
    IF draft # NoDraft THEN OnTheJob
    ELSE noted = 0 /\ made = {} /\ (pc \in Early => shut = "done" \/ reap = "ended")

ReadIsDraft ==
  \A p \in Finalizers : read[p].open /\ msgs = <<>> /\ draft # NoDraft => read[p].draft = draft

\* Nobody is done with a turn whose draft still waits, ...
DraftWaits ==
  msgs = <<>> /\ draft # NoDraft =>
    /\ pc \notin {"release", "end", "over"}
    /\ status \in Blocking \cup {"cancelled"}
    /\ pc = "dead" => status \in Blocking
    /\ shut \notin {"failed", "complete"}
    /\ reap = "rest" => ~stale \/ status \notin Blocking

EarlyStatus ==
  pc \in Early => status \in Blocking \cup {"cancelled"} \/ late \/ shut = "done" \/ reap = "ended"

NoFallback ==
  /\ pc \notin {"unrecorded", "wipe"}
  /\ pc \in Recording => msgs # <<>>

KeptInv ==
  /\ EarlyStatus
  /\ ~Lossy => /\ AnsweredHasCalls /\ WorkingIsOnJob /\ NotedIsOnJob /\ ReadIsDraft
               /\ DraftWaits /\ NoFallback

-----------------------------------------------------------------------------
(* Type correctness, in parts.                                              *)

RowTyped ==
  /\ status \in Status
  /\ draft \in -1..MaxSteps
  /\ stale \in BOOLEAN
  /\ noted \in -1..MaxSteps

ChatTyped ==
  /\ msgs \in Seq({"reply", "partial"})
  /\ home \in [Calls -> -1..Len(msgs)]
  /\ result \in 0..Len(msgs)

WorkerTyped ==
  /\ kind \in {"user", "ticket"}
  /\ pc \in Labels
  /\ step \in Calls
  /\ made \subseteq Calls
  /\ cancelled \in BOOLEAN
  /\ outcome \in {"none", "done", "failed", "cancelled", "ended"}
  /\ tries \in {0, 1}

OthersTyped ==
  /\ shut \in {"none", "select", "begin", "finalize", "failed", "complete", "done"}
  /\ reap \in {"none", "select", "begin", "finalize", "rest", "ended", "done"}
  /\ torn \subseteq {"fault", "cut", "orphan", "unrecorded", "aged", "raced", "refused"}

ReadTyped == read \in [Finalizers -> Snapshot]

LeftTyped == left \in [stops : Nat, crashes : Nat, shutdowns : Nat, faults : Nat]

\* The parts are the whole.  Type correctness is that of the parts.
LEMMA Parts ==
  TypeOK <=> RowTyped /\ ChatTyped /\ WorkerTyped /\ OthersTyped /\ ReadTyped /\ LeftTyped
            /\ late \in BOOLEAN
BY DEF TypeOK, RowTyped, ChatTyped, WorkerTyped, OthersTyped, ReadTyped, LeftTyped

\* At most one message is added.
MsgsStep == msgs' = msgs \/ \E m \in {"reply", "partial"} : msgs' = Append(msgs, m)


\* A draft is a number of steps, or NoDraft.
LEMMA DraftRange ==
  NoDraft \in -1..MaxSteps /\ \A s \in Calls : s - 1 \in -1..MaxSteps /\ s \in -1..MaxSteps
BY Bound DEF NoDraft, Calls

\* A transaction that commits leaves a partial reply, or none.
LEMMA CommitCases ==
  ASSUME NEW p \in Finalizers, Commit(p), ChatTyped, ReadTyped
  PROVE  /\ read[p] \in Snapshot /\ read[p].open
         /\ read' = [read EXCEPT ![p] = NotRead]
         /\ \/ Consumes(read[p]) /\ msgs' = Append(msgs, "partial")
               /\ home' = [c \in Calls |-> IF home[c] = OnJob THEN Len(msgs) + 1 ELSE home[c]]
            \/ ~Consumes(read[p]) /\ msgs' = msgs /\ home' = Dropped
         /\ \/ /\ read[p].status # read[p].to
               /\ status' = read[p].to /\ draft' = NoDraft /\ stale' = FALSE
               /\ result' = IF Consumes(read[p]) THEN Len(msgs) + 1 ELSE 0
            \/ /\ read[p].status = read[p].to /\ read[p].draft # NoDraft
               /\ status' = status /\ draft' = NoDraft /\ stale' = FALSE
               /\ result' = IF Consumes(read[p]) THEN Len(msgs) + 1 ELSE result
            \/ /\ read[p].status = read[p].to /\ read[p].draft = NoDraft
               /\ UNCHANGED row
<1>1. read[p] \in Snapshot
  BY DEF ReadTyped
<1>2. Len(msgs) + 1 > 0
  BY DEF ChatTyped
<1> QED
  BY <1>1, <1>2 DEF Commit, Taken, WriteRow

\* A commit keeps the row's types ...
LEMMA CommitRow ==
  ASSUME NEW p \in Finalizers, Commit(p), ChatTyped, ReadTyped, RowTyped,
         UNCHANGED noted
  PROVE  RowTyped'
<1>1. read[p] \in Snapshot
  BY DEF ReadTyped
<1>2. read[p].to \in Status
  BY <1>1 DEF Snapshot, Status, Terminal
<1>3. CASE status' = read[p].to /\ draft' = NoDraft /\ stale' = FALSE
  BY <1>2, <1>3, DraftRange DEF RowTyped
<1>4. CASE status' = status /\ draft' = NoDraft /\ stale' = FALSE
  BY <1>4, DraftRange DEF RowTyped
<1>5. CASE UNCHANGED row
  BY <1>5 DEF RowTyped, row
<1> QED
  BY <1>3, <1>4, <1>5, CommitCases

\* ... and the chat's.
LEMMA CommitChat ==
  ASSUME NEW p \in Finalizers, Commit(p), ChatTyped, ReadTyped
  PROVE  ChatTyped'
<1>1. CASE Consumes(read[p])
  <2>0. /\ msgs' = Append(msgs, "partial")
        /\ home' = [c \in Calls |-> IF home[c] = OnJob THEN Len(msgs) + 1 ELSE home[c]]
    BY <1>1, CommitCases
  <2>1. msgs' \in Seq({"reply", "partial"}) /\ Len(msgs') = Len(msgs) + 1
    BY <2>0 DEF ChatTyped
  <2>2. home' \in [Calls -> -1..Len(msgs')]
    BY <2>0, <2>1 DEF ChatTyped
  <2>3. result' \in {Len(msgs) + 1, result}
    BY <1>1, CommitCases DEF row
  <2> QED
    BY <2>1, <2>2, <2>3 DEF ChatTyped
<1>2. CASE ~Consumes(read[p])
  <2>1. msgs' = msgs /\ home' = Dropped /\ result' \in {0, result}
    BY <1>2, CommitCases DEF row
  <2>2. home' \in [Calls -> -1..Len(msgs')]
    BY <2>1 DEF ChatTyped, Dropped, NoRow
  <2> QED
    BY <2>1, <2>2 DEF ChatTyped
<1> QED
  BY <1>1, <1>2

\* A closed transaction is one ...
LEMMA NotReadTyped ==
  ASSUME ReadTyped, NEW p \in Finalizers
  PROVE  NotRead \in Snapshot /\ [read EXCEPT ![p] = NotRead] \in [Finalizers -> Snapshot]
<1>1. NotRead \in Snapshot
  BY DraftRange DEF NotRead, Snapshot, Status, Blocking
<1> QED
  BY <1>1 DEF ReadTyped

\* ... and so is one that begins.
LEMMA BeginTyped ==
  ASSUME NEW p \in Finalizers, NEW to \in {"failed", "cancelled"}, Begin(p, to),
         ReadTyped, RowTyped, ChatTyped
  PROVE  ReadTyped'
<1>1. [open |-> TRUE, status |-> status, draft |-> draft, result |-> result, to |-> to] \in Snapshot
  BY DEF Snapshot, RowTyped, ChatTyped
<1> QED
  BY <1>1 DEF ReadTyped, Begin

\* Those who finalize a draft.
LEMMA FinalizersAre == "worker" \in Finalizers /\ "shutdown" \in Finalizers /\ "reaper" \in Finalizers
  BY DEF Finalizers

\* The row, and the note of its last draft.
LEMMA StepRow ==
  ASSUME RowTyped, WorkerTyped, OutcomeByLabel, ReadTyped, ChatTyped, [Next]_vars
  PROVE  RowTyped'
<1> USE DraftRange DEF RowTyped, Blocking, Terminal, Status, WorkerTyped, OutcomeByLabel
<1>1. CASE UNCHANGED <<status, draft, stale, noted>>
  BY <1>1 DEF RowTyped
<1>2. ASSUME Call \/ Answer \/ AnswerRefusal \/ SaveReply \/ SaveReplyFails \/ SettleUser \/ SettleTicket \/
            SelectTicket \/ FinalizeFails \/ SaveChain \/ Drop \/ RecordFails \/ StopHere \/
            Watch \/ BeginShutdown \/ ShutdownSelect \/ ShutdownBegin \/ Crash \/ ReapList \/
            ReapSelect \/ ReapBegin \/ UNCHANGED vars
      PROVE  UNCHANGED <<status, draft, stale, noted>>
  BY <1>2 DEF Call, row, Answer, history, AnswerRefusal, SaveReply, SaveReplyFails, SettleUser, Begin,
     SettleTicket, SelectTicket, FinalizeFails, Abandon, SaveChain, Drop, RecordFails,
     StopHere, Watch, BeginShutdown, ShutdownSelect, ShutdownBegin, Crash, ReapList,
     ReapSelect, ReapBegin, vars
<1>3. ASSUME Start, late' = (late \/ BeingEnded) PROVE RowTyped'
  BY <1>3 DEF Start, Writes, WriteRow, Goto, WriteFails, row
<1>4. ASSUME NextStep, late' = (late \/ BeingEnded) PROVE RowTyped'
  BY <1>4 DEF NextStep, SaveDraft, WriteRow, row
<1>5. ASSUME RunFails, late' = (late \/ BeingEnded) PROVE RowTyped'
  BY <1>5 DEF RunFails, SaveDraft, WriteRow, row, Goto
<1>6. ASSUME Finalize, late' = (late \/ BeingEnded) PROVE RowTyped'
  <2>1. Commit("worker") /\ UNCHANGED noted
    BY <1>6 DEF Finalize, history
  <2> QED
    BY <2>1, CommitRow, FinalizersAre
<1>7. ASSUME FailJob, late' = (late \/ BeingEnded) PROVE RowTyped'
  BY <1>7 DEF FailJob, FallbackWrites, WriteRow, Goto, FallbackFails, row
<1>8. ASSUME WipeDraft, late' = (late \/ BeingEnded) PROVE RowTyped'
  BY <1>8 DEF WipeDraft, FallbackWrites, WriteRow, FallbackFails, row, Goto
<1>9. ASSUME Persist, late' = (late \/ BeingEnded) PROVE RowTyped'
  BY <1>9 DEF Persist, Writes, WriteRow, Goto
<1>10. ASSUME Clear, late' = (late \/ BeingEnded) PROVE RowTyped'
  BY <1>10 DEF Clear, Writes, WriteRow, Goto
<1>11. ASSUME Post, late' = (late \/ BeingEnded) PROVE RowTyped'
  BY <1>11 DEF Post, Writes, WriteRow, WriteFails, row, Goto
<1>12. ASSUME Release, late' = (late \/ BeingEnded) PROVE RowTyped'
  BY <1>12 DEF Release, Goto, row, WriteRow
<1>13. ASSUME EndTicket, late' = (late \/ BeingEnded) PROVE RowTyped'
  BY <1>13 DEF EndTicket, WriteRow, row, Goto
<1>14. ASSUME StopElsewhere, UNCHANGED late PROVE RowTyped'
  BY <1>14 DEF StopElsewhere, Cancelled, WriteRow, WorkerLives, worker
<1>15. ASSUME ShutdownFinalize, UNCHANGED late PROVE RowTyped'
  <2>1. CASE Commit("shutdown")
    BY <1>15, <2>1, CommitRow, FinalizersAre DEF ShutdownFinalize, NoFault
  <2>2. CASE UNCHANGED <<row, chat>>
    BY <1>15, <2>2 DEF ShutdownFinalize, row, chat, RowTyped, Fault
  <2> QED
    BY <1>15, <2>1, <2>2 DEF ShutdownFinalize
<1>16. ASSUME ShutdownMark, UNCHANGED late PROVE RowTyped'
  BY <1>16 DEF ShutdownMark, WriteRow, worker, history
<1>17. ASSUME Age, UNCHANGED late PROVE RowTyped'
  BY <1>17 DEF Age, WorkerLives, worker
<1>18. ASSUME ReapFinalize, UNCHANGED late PROVE RowTyped'
  <2>1. CASE Commit("reaper")
    BY <1>18, <2>1, CommitRow, FinalizersAre DEF ReapFinalize, NoFault
  <2>2. CASE UNCHANGED <<row, chat>>
    BY <1>18, <2>2 DEF ReapFinalize, row, chat, RowTyped, Fault
  <2> QED
    BY <1>18, <2>1, <2>2 DEF ReapFinalize
<1>19. ASSUME ReapRest, UNCHANGED late PROVE RowTyped'
  BY <1>19 DEF ReapRest, WriteRow, row, worker, history
<1> QED
  BY <1>1, <1>2, <1>3, <1>4, <1>5, <1>6, <1>7, <1>8, <1>9, <1>10, <1>11, <1>12, <1>13, <1>14,
     <1>15, <1>16, <1>17, <1>18, <1>19 DEF Next, Turn, Outside

\* The messages and the rows of calls.
LEMMA StepChat ==
  ASSUME ChatTyped, RecordsReply, ReadTyped, [Next]_vars
  PROVE  ChatTyped'
<1> USE Bound DEF ChatTyped, RecordsReply, ReplySaid, Recording, NoDraft, NoRow, OnJob, Calls
<1>1. CASE UNCHANGED <<msgs, home, result>>
  BY <1>1 DEF ChatTyped
<1>2. ASSUME Answer \/ SaveReplyFails \/ SettleUser \/ SettleTicket \/ SelectTicket \/
            FinalizeFails \/ SaveChain \/ RecordFails \/ StopHere \/ Watch \/ BeginShutdown \/
            ShutdownSelect \/ ShutdownBegin \/ Crash \/ Age \/ ReapList \/ ReapSelect \/
            ReapBegin \/ UNCHANGED vars
      PROVE  UNCHANGED <<msgs, home, result>>
  BY <1>2 DEF Answer, row, chat, SaveReplyFails, SettleUser, Begin, SettleTicket,
     SelectTicket, FinalizeFails, Abandon, SaveChain, RecordFails, StopHere, Watch,
     BeginShutdown, ShutdownSelect, ShutdownBegin, Crash, Age, ReapList, ReapSelect,
     ReapBegin, vars
<1>3. ASSUME Start, late' = (late \/ BeingEnded) PROVE ChatTyped'
  BY <1>3 DEF Start, WriteRow, Goto, row, chat
<1>4. ASSUME Call, late' = (late \/ BeingEnded) PROVE ChatTyped'
  <2>1. home' = [home EXCEPT ![step] = OnJob] \/ home' = home
    BY <1>4 DEF Call
  <2>2. home' \in [Calls -> -1..Len(msgs)]
    BY <2>1, SMTT(30)
  <2> QED
    BY <1>4, <2>2 DEF Call, row
<1>5. ASSUME NextStep, late' = (late \/ BeingEnded) PROVE ChatTyped'
  BY <1>5 DEF NextStep, SaveDraft, WriteRow, row, chat
<1>6. ASSUME RunFails, late' = (late \/ BeingEnded) PROVE ChatTyped'
  BY <1>6 DEF RunFails, SaveDraft, WriteRow, row, Goto, chat
<1>7. ASSUME AnswerRefusal, late' = (late \/ BeingEnded) PROVE ChatTyped'
  <2>1. UNCHANGED <<home, result>> /\ (msgs' = Append(msgs, "reply") \/ msgs' = msgs)
    BY <1>7 DEF AnswerRefusal, row
  <2>2. CASE msgs' = Append(msgs, "reply")
    BY <2>1, <2>2
  <2> QED
    BY <2>1, <2>2
<1>8. ASSUME SaveReply, late' = (late \/ BeingEnded) PROVE ChatTyped'
  BY <1>8 DEF SaveReply, RowsClash, Goto, row
<1>9. ASSUME Finalize, late' = (late \/ BeingEnded) PROVE ChatTyped'
  BY <1>9, CommitChat, FinalizersAre DEF Finalize
<1>10. ASSUME FailJob, late' = (late \/ BeingEnded) PROVE ChatTyped'
  BY <1>10 DEF FailJob, WriteRow, Goto, row, chat
<1>11. ASSUME WipeDraft, late' = (late \/ BeingEnded) PROVE ChatTyped'
  BY <1>11, SMTT(30) DEF WipeDraft, WriteRow, Dropped, row, Goto
<1>12. ASSUME Persist, late' = (late \/ BeingEnded) PROVE ChatTyped'
  BY <1>12 DEF Persist, WriteRow, Reply, Goto, chat
<1>13. ASSUME Clear, late' = (late \/ BeingEnded) PROVE ChatTyped'
  BY <1>13 DEF Clear, WriteRow, Goto, chat
<1>14. ASSUME Drop, late' = (late \/ BeingEnded) PROVE ChatTyped'
  BY <1>14 DEF Drop, Dropped, Goto, row
<1>15. ASSUME Post, late' = (late \/ BeingEnded) PROVE ChatTyped'
  BY <1>15 DEF Post, WriteRow, Reply, row, Goto, chat
<1>16. ASSUME Release, late' = (late \/ BeingEnded) PROVE ChatTyped'
  BY <1>16 DEF Release, Goto, row, WriteRow, chat
<1>17. ASSUME EndTicket, late' = (late \/ BeingEnded) PROVE ChatTyped'
  BY <1>17 DEF EndTicket, WriteRow, row, Goto, chat
<1>18. ASSUME StopElsewhere, UNCHANGED late PROVE ChatTyped'
  BY <1>18 DEF StopElsewhere, Cancelled, WriteRow, WorkerLives, chat, worker
<1>19. ASSUME ShutdownFinalize, UNCHANGED late PROVE ChatTyped'
  <2>1. CASE Commit("shutdown")
    BY <1>19, <2>1, CommitChat, FinalizersAre DEF ShutdownFinalize, NoFault
  <2>2. CASE UNCHANGED <<row, chat>>
    BY <1>19, <2>2 DEF ShutdownFinalize, row, chat, ChatTyped, Fault
  <2> QED
    BY <1>19, <2>1, <2>2 DEF ShutdownFinalize
<1>20. ASSUME ShutdownMark, UNCHANGED late PROVE ChatTyped'
  BY <1>20 DEF ShutdownMark, WriteRow, chat, worker
<1>21. ASSUME ReapFinalize, UNCHANGED late PROVE ChatTyped'
  <2>1. CASE Commit("reaper")
    BY <1>21, <2>1, CommitChat, FinalizersAre DEF ReapFinalize, NoFault
  <2>2. CASE UNCHANGED <<row, chat>>
    BY <1>21, <2>2 DEF ReapFinalize, row, chat, ChatTyped, Fault
  <2> QED
    BY <1>21, <2>1, <2>2 DEF ReapFinalize
<1>22. ASSUME ReapRest, UNCHANGED late PROVE ChatTyped'
  BY <1>22 DEF ReapRest, WriteRow, row, chat, worker
<1> QED
  BY <1>1, <1>2, <1>3, <1>4, <1>5, <1>6, <1>7, <1>8, <1>9, <1>10, <1>11, <1>12, <1>13, <1>14,
     <1>15, <1>16, <1>17, <1>18, <1>19, <1>20, <1>21, <1>22 DEF Next, Turn, Outside

\* The worker.
LEMMA StepWorker ==
  ASSUME WorkerTyped, [Next]_vars
  PROVE  WorkerTyped'
<1> USE Bound DEF WorkerTyped, Calls, Labels, Ended
<1>1. CASE UNCHANGED <<kind, pc, step, made, cancelled, outcome, tries>>
  BY <1>1 DEF WorkerTyped
<1>2. ASSUME StopElsewhere \/ BeginShutdown \/ ShutdownSelect \/ ShutdownBegin \/
            ShutdownFinalize \/ ShutdownMark \/ Age \/ ReapList \/ ReapSelect \/ ReapBegin \/
            ReapFinalize \/ ReapRest \/ UNCHANGED vars
      PROVE  UNCHANGED <<kind, pc, step, made, cancelled, outcome, tries>>
  BY <1>2 DEF StopElsewhere, worker, BeginShutdown, ShutdownSelect, ShutdownBegin,
     ShutdownFinalize, ShutdownMark, Age, ReapList, ReapSelect, ReapBegin, ReapFinalize,
     ReapRest, vars
<1>3. ASSUME Start, late' = (late \/ BeingEnded) PROVE WorkerTyped'
  BY <1>3 DEF Start, Writes, Goto, WriteFails
<1>4. ASSUME Call, late' = (late \/ BeingEnded) PROVE WorkerTyped'
  BY <1>4 DEF Call
<1>5. ASSUME NextStep, late' = (late \/ BeingEnded) PROVE WorkerTyped'
  BY <1>5 DEF NextStep
<1>6. ASSUME Answer, late' = (late \/ BeingEnded) PROVE WorkerTyped'
  BY <1>6 DEF Answer, Goto
<1>7. ASSUME RunFails, late' = (late \/ BeingEnded) PROVE WorkerTyped'
  BY <1>7 DEF RunFails, Goto
<1>8. ASSUME AnswerRefusal, late' = (late \/ BeingEnded) PROVE WorkerTyped'
  BY <1>8 DEF AnswerRefusal, NoFault, Fault, Spend, Goto, row, others, BeingEnded
<1>9. ASSUME SaveReply, late' = (late \/ BeingEnded) PROVE WorkerTyped'
  BY <1>9 DEF SaveReply, RowsClash, Goto
<1>10. ASSUME SaveReplyFails, late' = (late \/ BeingEnded) PROVE WorkerTyped'
  BY <1>10 DEF SaveReplyFails, RowsClash, Goto
<1>11. ASSUME SettleUser, late' = (late \/ BeingEnded) PROVE WorkerTyped'
  BY <1>11 DEF SettleUser, Verdict, worker, Goto
<1>12. ASSUME SettleTicket, late' = (late \/ BeingEnded) PROVE WorkerTyped'
  BY <1>12 DEF SettleTicket, Verdict, Goto
<1>13. ASSUME SelectTicket, late' = (late \/ BeingEnded) PROVE WorkerTyped'
  BY <1>13 DEF SelectTicket, worker, Goto
<1>14. ASSUME Finalize, late' = (late \/ BeingEnded) PROVE WorkerTyped'
  BY <1>14 DEF Finalize, NotRead, worker, Goto
<1>15. ASSUME FinalizeFails, late' = (late \/ BeingEnded) PROVE WorkerTyped'
  BY <1>15 DEF FinalizeFails, NotRead, worker, Goto
<1>16. ASSUME FailJob, late' = (late \/ BeingEnded) PROVE WorkerTyped'
  BY <1>16 DEF FailJob, FallbackWrites, Goto, FallbackFails
<1>17. ASSUME WipeDraft, late' = (late \/ BeingEnded) PROVE WorkerTyped'
  BY <1>17 DEF WipeDraft, FallbackWrites, FallbackFails, Goto
<1>18. ASSUME SaveChain, late' = (late \/ BeingEnded) PROVE WorkerTyped'
  BY <1>18 DEF SaveChain, Goto
<1>19. ASSUME Persist, late' = (late \/ BeingEnded) PROVE WorkerTyped'
  BY <1>19 DEF Persist, Writes, Goto
<1>20. ASSUME Clear, late' = (late \/ BeingEnded) PROVE WorkerTyped'
  BY <1>20 DEF Clear, Writes, Goto
<1>21. ASSUME Drop, late' = (late \/ BeingEnded) PROVE WorkerTyped'
  BY <1>21 DEF Drop, Writes, Goto
<1>22. ASSUME RecordFails, late' = (late \/ BeingEnded) PROVE WorkerTyped'
  BY <1>22 DEF RecordFails, WriteFails, Goto
<1>23. ASSUME Post, late' = (late \/ BeingEnded) PROVE WorkerTyped'
  BY <1>23 DEF Post, Writes, WriteFails, Goto
<1>24. ASSUME Release, late' = (late \/ BeingEnded) PROVE WorkerTyped'
  BY <1>24 DEF Release, Goto
<1>25. ASSUME EndTicket, late' = (late \/ BeingEnded) PROVE WorkerTyped'
  BY <1>25 DEF EndTicket, Goto
<1>26. ASSUME StopHere, UNCHANGED late PROVE WorkerTyped'
  BY <1>26 DEF StopHere, Stoppable, WorkerLives
<1>27. ASSUME Watch, UNCHANGED late PROVE WorkerTyped'
  BY <1>27 DEF Watch, Stoppable, WorkerLives
<1>28. ASSUME Crash, UNCHANGED late PROVE WorkerTyped'
  BY <1>28 DEF Crash, WorkerLives, Goto, worker, NotRead
<1> QED
  BY <1>1, <1>2, <1>3, <1>4, <1>5, <1>6, <1>7, <1>8, <1>9, <1>10, <1>11, <1>12, <1>13, <1>14,
     <1>15, <1>16, <1>17, <1>18, <1>19, <1>20, <1>21, <1>22, <1>23, <1>24, <1>25, <1>26, <1>27,
     <1>28 DEF Next, Turn, Outside

\* The shutdown, the reaper and what came between.
LEMMA StepOthers ==
  ASSUME OthersTyped, [Next]_vars
  PROVE  OthersTyped'
<1> USE DEF OthersTyped
<1>1. CASE UNCHANGED <<shut, reap, torn>>
  BY <1>1 DEF OthersTyped
<1>2. ASSUME Answer \/ SettleUser \/ SettleTicket \/ SelectTicket \/ Finalize \/ Persist \/
            Clear \/ Drop \/ StopHere \/ Watch \/ UNCHANGED vars
      PROVE  UNCHANGED <<shut, reap, torn>>
  BY <1>2 DEF Answer, others, history, SettleUser, SettleTicket, SelectTicket, Finalize,
     Persist, Writes, NoFault, Clear, Drop, StopHere, Watch, vars
<1>3. ASSUME Start, late' = (late \/ BeingEnded) PROVE OthersTyped'
  BY <1>3 DEF Start, Writes, NoFault, WriteFails, Fault, others
<1>4. ASSUME Call, late' = (late \/ BeingEnded) PROVE OthersTyped'
  BY <1>4 DEF Call, NoFault, Fault, others
<1>5. ASSUME NextStep, late' = (late \/ BeingEnded) PROVE OthersTyped'
  BY <1>5 DEF NextStep, SaveDraft, NoFault, Fault, others
<1>6. ASSUME RunFails, late' = (late \/ BeingEnded) PROVE OthersTyped'
  BY <1>6 DEF RunFails, SaveDraft, NoFault, Fault, others
<1>7. ASSUME AnswerRefusal, late' = (late \/ BeingEnded) PROVE OthersTyped'
  BY <1>7 DEF AnswerRefusal, NoFault, Fault, Spend, Goto, row, others, BeingEnded
<1>8. ASSUME SaveReply, late' = (late \/ BeingEnded) PROVE OthersTyped'
  BY <1>8 DEF SaveReply, NoFault, others
<1>9. ASSUME SaveReplyFails, late' = (late \/ BeingEnded) PROVE OthersTyped'
  BY <1>9 DEF SaveReplyFails, NoFault, Fault, others
<1>10. ASSUME FinalizeFails, late' = (late \/ BeingEnded) PROVE OthersTyped'
  BY <1>10 DEF FinalizeFails, NotRead, Fault, others
<1>11. ASSUME FailJob, late' = (late \/ BeingEnded) PROVE OthersTyped'
  BY <1>11 DEF FailJob, FallbackWrites, NoFault, FallbackFails, Fault, others
<1>12. ASSUME WipeDraft, late' = (late \/ BeingEnded) PROVE OthersTyped'
  BY <1>12 DEF WipeDraft, FallbackWrites, NoFault, FallbackFails, Fault, others
<1>13. ASSUME SaveChain, late' = (late \/ BeingEnded) PROVE OthersTyped'
  BY <1>13 DEF SaveChain, NoFault, Fault, others
<1>14. ASSUME RecordFails, late' = (late \/ BeingEnded) PROVE OthersTyped'
  BY <1>14 DEF RecordFails, WriteFails, Fault, others
<1>15. ASSUME Post, late' = (late \/ BeingEnded) PROVE OthersTyped'
  BY <1>15 DEF Post, Writes, NoFault, WriteFails, Fault, others
<1>16. ASSUME Release, late' = (late \/ BeingEnded) PROVE OthersTyped'
  BY <1>16 DEF Release, NoFault, Fault, others
<1>17. ASSUME EndTicket, late' = (late \/ BeingEnded) PROVE OthersTyped'
  BY <1>17 DEF EndTicket, NoFault, Fault, others
<1>18. ASSUME StopElsewhere, UNCHANGED late PROVE OthersTyped'
  BY <1>18 DEF StopElsewhere, others
<1>19. ASSUME BeginShutdown, UNCHANGED late PROVE OthersTyped'
  BY <1>19 DEF BeginShutdown, WorkerLives, Spend, NotesUnrecorded, row, chat, worker
<1>20. ASSUME ShutdownSelect, UNCHANGED late PROVE OthersTyped'
  BY <1>20 DEF ShutdownSelect, history
<1>21. ASSUME ShutdownBegin, UNCHANGED late PROVE OthersTyped'
  BY <1>21 DEF ShutdownBegin, Begin, NotesRaced, row, chat, worker
<1>22. ASSUME ShutdownFinalize, UNCHANGED late PROVE OthersTyped'
  BY <1>22 DEF ShutdownFinalize, NotRead, NoFault, Fault
<1>23. ASSUME ShutdownMark, UNCHANGED late PROVE OthersTyped'
  BY <1>23 DEF ShutdownMark, history
<1>24. ASSUME Crash, UNCHANGED late PROVE OthersTyped'
  BY <1>24 DEF Crash, WorkerLives, Spend, Goto, worker, NotRead, NotesUnrecorded, row, chat
<1>25. ASSUME Age, UNCHANGED late PROVE OthersTyped'
  BY <1>25 DEF Age, others
<1>26. ASSUME ReapList, UNCHANGED late PROVE OthersTyped'
  BY <1>26 DEF ReapList, Abandoned, NotesUnrecorded, row, chat, worker
<1>27. ASSUME ReapSelect, UNCHANGED late PROVE OthersTyped'
  BY <1>27 DEF ReapSelect, history
<1>28. ASSUME ReapBegin, UNCHANGED late PROVE OthersTyped'
  BY <1>28 DEF ReapBegin, Begin, NotesRaced, row, chat, worker
<1>29. ASSUME ReapFinalize, UNCHANGED late PROVE OthersTyped'
  BY <1>29 DEF ReapFinalize, NotRead, NoFault, Fault
<1>30. ASSUME ReapRest, UNCHANGED late PROVE OthersTyped'
  BY <1>30 DEF ReapRest, history
<1> QED
  BY <1>1, <1>2, <1>3, <1>4, <1>5, <1>6, <1>7, <1>8, <1>9, <1>10, <1>11, <1>12, <1>13, <1>14,
     <1>15, <1>16, <1>17, <1>18, <1>19, <1>20, <1>21, <1>22, <1>23, <1>24, <1>25, <1>26, <1>27,
     <1>28, <1>29, <1>30 DEF Next, Turn, Outside

\* What the transactions read.
LEMMA StepRead ==
  ASSUME ReadTyped, RowTyped, ChatTyped, OutcomeByLabel, [Next]_vars
  PROVE  ReadTyped'
<1> USE DEF ReadTyped
<1>1. CASE UNCHANGED <<read>>
  BY <1>1 DEF ReadTyped
<1>2. ASSUME Start \/ Call \/ NextStep \/ Answer \/ RunFails \/ AnswerRefusal \/ SaveReply \/ SaveReplyFails \/
            SettleTicket \/ FailJob \/ WipeDraft \/ SaveChain \/ Persist \/ Clear \/ Drop \/
            RecordFails \/ Post \/ Release \/ EndTicket \/ StopHere \/ StopElsewhere \/ Watch
            \/ BeginShutdown \/ ShutdownSelect \/ ShutdownMark \/ Age \/ ReapList \/
            ReapSelect \/ ReapRest \/ UNCHANGED vars
      PROVE  UNCHANGED <<read>>
  BY <1>2 DEF Start, Call, NextStep, Answer, RunFails, AnswerRefusal, SaveReply, SaveReplyFails,
     SettleTicket, FailJob, WipeDraft, SaveChain, Persist, Clear, Drop, RecordFails, Post,
     Release, EndTicket, StopHere, StopElsewhere, Watch, BeginShutdown, ShutdownSelect,
     ShutdownMark, Age, ReapList, ReapSelect, ReapRest, vars
<1>3. ASSUME SettleUser, late' = (late \/ BeingEnded) PROVE ReadTyped'
  <2>1. Verdict \in {"failed", "cancelled"}
    BY <1>3 DEF SettleUser, Verdict, OutcomeByLabel
  <2> QED
    BY <1>3, <2>1, BeginTyped, FinalizersAre DEF SettleUser
<1>4. ASSUME SelectTicket, late' = (late \/ BeingEnded) PROVE ReadTyped'
  BY <1>4, BeginTyped, FinalizersAre DEF SelectTicket, OutcomeByLabel
<1>5. ASSUME Finalize, late' = (late \/ BeingEnded) PROVE ReadTyped'
  BY <1>5, NotReadTyped, FinalizersAre DEF Finalize, Commit, ReadTyped
<1>6. ASSUME FinalizeFails, late' = (late \/ BeingEnded) PROVE ReadTyped'
  BY <1>6, NotReadTyped, FinalizersAre DEF FinalizeFails, Abandon, ReadTyped
<1>7. ASSUME ShutdownBegin, UNCHANGED late PROVE ReadTyped'
  BY <1>7, BeginTyped, FinalizersAre DEF ShutdownBegin
<1>8. ASSUME ShutdownFinalize, UNCHANGED late PROVE ReadTyped'
  BY <1>8, NotReadTyped, FinalizersAre DEF ShutdownFinalize, Commit, Abandon, ReadTyped
<1>9. ASSUME Crash, UNCHANGED late PROVE ReadTyped'
  BY <1>9, NotReadTyped, FinalizersAre DEF Crash, ReadTyped
<1>10. ASSUME ReapBegin, UNCHANGED late PROVE ReadTyped'
  BY <1>10, BeginTyped, FinalizersAre DEF ReapBegin
<1>11. ASSUME ReapFinalize, UNCHANGED late PROVE ReadTyped'
  BY <1>11, NotReadTyped, FinalizersAre DEF ReapFinalize, Commit, Abandon, ReadTyped
<1> QED
  BY <1>1, <1>2, <1>3, <1>4, <1>5, <1>6, <1>7, <1>8, <1>9, <1>10, <1>11 DEF Next, Turn,
     Outside

\* The budget.
LEMMA StepLeft ==
  ASSUME LeftTyped, [Next]_vars
  PROVE  LeftTyped'
<1> USE DEF LeftTyped
<1>1. CASE UNCHANGED <<left>>
  BY <1>1 DEF LeftTyped
<1>2. ASSUME Answer \/ SettleUser \/ SettleTicket \/ SelectTicket \/ Finalize \/ Persist \/
            Clear \/ Drop \/ Watch \/ ShutdownSelect \/ ShutdownBegin \/ ShutdownMark \/ Age
            \/ ReapList \/ ReapSelect \/ ReapBegin \/ ReapRest \/ UNCHANGED vars
      PROVE  UNCHANGED <<left>>
  BY <1>2 DEF Answer, SettleUser, SettleTicket, SelectTicket, Finalize, Persist, Writes,
     NoFault, Clear, Drop, Watch, ShutdownSelect, ShutdownBegin, ShutdownMark, Age, ReapList,
     ReapSelect, ReapBegin, ReapRest, vars
<1>3. ASSUME Start, late' = (late \/ BeingEnded) PROVE LeftTyped'
  BY <1>3 DEF Start, Writes, NoFault, WriteFails, Fault, Spend
<1>4. ASSUME Call, late' = (late \/ BeingEnded) PROVE LeftTyped'
  BY <1>4 DEF Call, NoFault, Fault, Spend
<1>5. ASSUME NextStep, late' = (late \/ BeingEnded) PROVE LeftTyped'
  BY <1>5 DEF NextStep, SaveDraft, NoFault, Fault, Spend
<1>6. ASSUME RunFails, late' = (late \/ BeingEnded) PROVE LeftTyped'
  BY <1>6 DEF RunFails, SaveDraft, NoFault, Fault, Spend
<1>7. ASSUME AnswerRefusal, late' = (late \/ BeingEnded) PROVE LeftTyped'
  BY <1>7 DEF AnswerRefusal, NoFault, Fault, Spend, Goto, row, others, BeingEnded
<1>8. ASSUME SaveReply, late' = (late \/ BeingEnded) PROVE LeftTyped'
  BY <1>8 DEF SaveReply, NoFault, Spend
<1>9. ASSUME SaveReplyFails, late' = (late \/ BeingEnded) PROVE LeftTyped'
  BY <1>9 DEF SaveReplyFails, NoFault, Fault, Spend
<1>10. ASSUME FinalizeFails, late' = (late \/ BeingEnded) PROVE LeftTyped'
  BY <1>10 DEF FinalizeFails, NotRead, Fault, Spend
<1>11. ASSUME FailJob, late' = (late \/ BeingEnded) PROVE LeftTyped'
  BY <1>11 DEF FailJob, FallbackWrites, NoFault, FallbackFails, Fault, Spend
<1>12. ASSUME WipeDraft, late' = (late \/ BeingEnded) PROVE LeftTyped'
  BY <1>12 DEF WipeDraft, FallbackWrites, NoFault, FallbackFails, Fault, Spend
<1>13. ASSUME SaveChain, late' = (late \/ BeingEnded) PROVE LeftTyped'
  BY <1>13 DEF SaveChain, NoFault, Fault, Spend
<1>14. ASSUME RecordFails, late' = (late \/ BeingEnded) PROVE LeftTyped'
  BY <1>14 DEF RecordFails, WriteFails, Fault, Spend
<1>15. ASSUME Post, late' = (late \/ BeingEnded) PROVE LeftTyped'
  BY <1>15 DEF Post, Writes, NoFault, WriteFails, Fault, Spend
<1>16. ASSUME Release, late' = (late \/ BeingEnded) PROVE LeftTyped'
  BY <1>16 DEF Release, NoFault, Fault, Spend
<1>17. ASSUME EndTicket, late' = (late \/ BeingEnded) PROVE LeftTyped'
  BY <1>17 DEF EndTicket, NoFault, Fault, Spend
<1>18. ASSUME StopHere, UNCHANGED late PROVE LeftTyped'
  BY <1>18 DEF StopHere, Spend
<1>19. ASSUME StopElsewhere, UNCHANGED late PROVE LeftTyped'
  BY <1>19 DEF StopElsewhere, Spend
<1>20. ASSUME BeginShutdown, UNCHANGED late PROVE LeftTyped'
  BY <1>20 DEF BeginShutdown, Spend
<1>21. ASSUME ShutdownFinalize, UNCHANGED late PROVE LeftTyped'
  BY <1>21 DEF ShutdownFinalize, NotRead, NoFault, Fault, Spend
<1>22. ASSUME Crash, UNCHANGED late PROVE LeftTyped'
  BY <1>22 DEF Crash, Spend, NotRead
<1>23. ASSUME ReapFinalize, UNCHANGED late PROVE LeftTyped'
  BY <1>23 DEF ReapFinalize, NotRead, NoFault, Fault, Spend
<1> QED
  BY <1>1, <1>2, <1>3, <1>4, <1>5, <1>6, <1>7, <1>8, <1>9, <1>10, <1>11, <1>12, <1>13, <1>14,
     <1>15, <1>16, <1>17, <1>18, <1>19, <1>20, <1>21, <1>22, <1>23 DEF Next, Turn, Outside


\* A worker that was late stays late.
LEMMA LateGrows ==
  ASSUME late \in BOOLEAN, [Next]_vars
  PROVE  late' \in BOOLEAN /\ (late => late')
<1>1. BeingEnded \in BOOLEAN
  BY DEF BeingEnded
<1> QED
  BY <1>1 DEF Next, vars

\* What came between the turn and its messages is not taken back.
LEMMA TornGrows ==
  ASSUME TRUE, [Next]_vars
  PROVE  torn \subseteq torn'
<1>1. CASE UNCHANGED <<torn>>
  BY <1>1
<1>2. ASSUME Answer \/ SettleUser \/ SettleTicket \/ SelectTicket \/ Finalize \/ Persist \/
            Clear \/ Drop \/ StopHere \/ Watch \/ ShutdownSelect \/ ShutdownMark \/ ReapSelect
            \/ ReapRest \/ UNCHANGED vars
      PROVE  UNCHANGED <<torn>>
  BY <1>2 DEF Answer, history, SettleUser, SettleTicket, SelectTicket, Finalize, Persist,
     Writes, NoFault, Clear, Drop, StopHere, Watch, ShutdownSelect, ShutdownMark, ReapSelect,
     ReapRest, vars
<1>3. ASSUME Start, late' = (late \/ BeingEnded) PROVE torn \subseteq torn'
  BY <1>3 DEF Start, Writes, NoFault, WriteFails, Fault
<1>4. ASSUME Call, late' = (late \/ BeingEnded) PROVE torn \subseteq torn'
  BY <1>4 DEF Call, NoFault, Fault
<1>5. ASSUME NextStep, late' = (late \/ BeingEnded) PROVE torn \subseteq torn'
  BY <1>5 DEF NextStep, SaveDraft, NoFault, Fault
<1>6. ASSUME RunFails, late' = (late \/ BeingEnded) PROVE torn \subseteq torn'
  BY <1>6 DEF RunFails, SaveDraft, NoFault, Fault
<1>7. ASSUME AnswerRefusal, late' = (late \/ BeingEnded) PROVE torn \subseteq torn'
  BY <1>7 DEF AnswerRefusal, NoFault, Fault, Spend, Goto, row, others, BeingEnded
<1>8. ASSUME SaveReply, late' = (late \/ BeingEnded) PROVE torn \subseteq torn'
  BY <1>8 DEF SaveReply, NoFault
<1>9. ASSUME SaveReplyFails, late' = (late \/ BeingEnded) PROVE torn \subseteq torn'
  BY <1>9 DEF SaveReplyFails, NoFault, Fault
<1>10. ASSUME FinalizeFails, late' = (late \/ BeingEnded) PROVE torn \subseteq torn'
  BY <1>10 DEF FinalizeFails, NotRead, Fault
<1>11. ASSUME FailJob, late' = (late \/ BeingEnded) PROVE torn \subseteq torn'
  BY <1>11 DEF FailJob, FallbackWrites, NoFault, FallbackFails, Fault
<1>12. ASSUME WipeDraft, late' = (late \/ BeingEnded) PROVE torn \subseteq torn'
  BY <1>12 DEF WipeDraft, FallbackWrites, NoFault, FallbackFails, Fault
<1>13. ASSUME SaveChain, late' = (late \/ BeingEnded) PROVE torn \subseteq torn'
  BY <1>13 DEF SaveChain, NoFault, Fault
<1>14. ASSUME RecordFails, late' = (late \/ BeingEnded) PROVE torn \subseteq torn'
  BY <1>14 DEF RecordFails, WriteFails, Fault
<1>15. ASSUME Post, late' = (late \/ BeingEnded) PROVE torn \subseteq torn'
  BY <1>15 DEF Post, Writes, NoFault, WriteFails, Fault
<1>16. ASSUME Release, late' = (late \/ BeingEnded) PROVE torn \subseteq torn'
  BY <1>16 DEF Release, NoFault, Fault
<1>17. ASSUME EndTicket, late' = (late \/ BeingEnded) PROVE torn \subseteq torn'
  BY <1>17 DEF EndTicket, NoFault, Fault
<1>18. ASSUME StopElsewhere, UNCHANGED late PROVE torn \subseteq torn'
  BY <1>18 DEF StopElsewhere
<1>19. ASSUME BeginShutdown, UNCHANGED late PROVE torn \subseteq torn'
  BY <1>19 DEF BeginShutdown, WorkerLives, Spend, NotesUnrecorded, row, chat, worker
<1>20. ASSUME ShutdownBegin, UNCHANGED late PROVE torn \subseteq torn'
  BY <1>20 DEF ShutdownBegin, Begin, NotesRaced, row, chat, worker
<1>21. ASSUME ShutdownFinalize, UNCHANGED late PROVE torn \subseteq torn'
  BY <1>21 DEF ShutdownFinalize, NotRead, NoFault, Fault
<1>22. ASSUME Crash, UNCHANGED late PROVE torn \subseteq torn'
  BY <1>22 DEF Crash, WorkerLives, Spend, Goto, worker, NotRead, NotesUnrecorded, row, chat
<1>23. ASSUME Age, UNCHANGED late PROVE torn \subseteq torn'
  BY <1>23 DEF Age
<1>24. ASSUME ReapList, UNCHANGED late PROVE torn \subseteq torn'
  BY <1>24 DEF ReapList, Abandoned, NotesUnrecorded, row, chat, worker
<1>25. ASSUME ReapBegin, UNCHANGED late PROVE torn \subseteq torn'
  BY <1>25 DEF ReapBegin, Begin, NotesRaced, row, chat, worker
<1>26. ASSUME ReapFinalize, UNCHANGED late PROVE torn \subseteq torn'
  BY <1>26 DEF ReapFinalize, NotRead, NoFault, Fault
<1> QED
  BY <1>1, <1>2, <1>3, <1>4, <1>5, <1>6, <1>7, <1>8, <1>9, <1>10, <1>11, <1>12, <1>13, <1>14,
     <1>15, <1>16, <1>17, <1>18, <1>19, <1>20, <1>21, <1>22, <1>23, <1>24, <1>25, <1>26 DEF Next,
     Turn, Outside

\* A step leaves at most one message.
LEMMA MsgsGrow ==
  ASSUME ChatTyped, ReadTyped, [Next]_vars
  PROVE  MsgsStep
<1> USE DEF MsgsStep
<1>1. CASE UNCHANGED <<msgs>>
  BY <1>1 DEF MsgsStep
<1>2. ASSUME Start \/ Call \/ NextStep \/ Answer \/ RunFails \/ SaveReplyFails \/ SettleUser
            \/ SettleTicket \/ SelectTicket \/ FinalizeFails \/ FailJob \/ WipeDraft \/
            SaveChain \/ Persist \/ Clear \/ Drop \/ RecordFails \/ Post \/ Release \/
            EndTicket \/ StopHere \/ StopElsewhere \/ Watch \/ BeginShutdown \/ ShutdownSelect
            \/ ShutdownBegin \/ ShutdownMark \/ Crash \/ Age \/ ReapList \/ ReapSelect \/
            ReapBegin \/ ReapRest \/ UNCHANGED vars
      PROVE  UNCHANGED <<msgs>>
  BY <1>2 DEF Start, chat, Call, NextStep, Answer, RunFails, SaveReplyFails, SettleUser,
     SettleTicket, SelectTicket, FinalizeFails, FailJob, WipeDraft, SaveChain, Persist, Clear,
     Drop, RecordFails, Post, Release, EndTicket, StopHere, StopElsewhere, Watch,
     BeginShutdown, ShutdownSelect, ShutdownBegin, ShutdownMark, Crash, Age, ReapList,
     ReapSelect, ReapBegin, ReapRest, vars
<1>3. ASSUME AnswerRefusal, late' = (late \/ BeingEnded) PROVE MsgsStep
  BY <1>3 DEF AnswerRefusal, NoFault, Fault, Spend, Goto, row, others, BeingEnded
<1>4. ASSUME SaveReply, late' = (late \/ BeingEnded) PROVE MsgsStep
  BY <1>4 DEF SaveReply
<1>5. ASSUME Finalize, late' = (late \/ BeingEnded) PROVE MsgsStep
  BY <1>5, CommitCases, FinalizersAre DEF Finalize, chat
<1>6. ASSUME ShutdownFinalize, UNCHANGED late PROVE MsgsStep
  BY <1>6, CommitCases, FinalizersAre DEF ShutdownFinalize, chat
<1>7. ASSUME ReapFinalize, UNCHANGED late PROVE MsgsStep
  BY <1>7, CommitCases, FinalizersAre DEF ReapFinalize, chat
<1> QED
  BY <1>1, <1>2, <1>3, <1>4, <1>5, <1>6, <1>7 DEF Next, Turn, Outside


\* What was said stays said.
LEMMA SaidStaysSaid ==
  ASSUME ChatTyped, MsgsStep
  PROVE  /\ ReplySaid => ReplySaid'
         /\ msgs' # msgs => Len(msgs') = Len(msgs) + 1
         /\ Len(msgs') >= Len(msgs) /\ Len(msgs) \in Nat /\ Len(msgs') \in Nat
         /\ msgs # <<>> => msgs' # <<>>
         /\ msgs' # msgs /\ Len(msgs') > 1 => msgs # <<>>
BY DEF ChatTyped, MsgsStep, ReplySaid
\* A transaction is open only where its owner is.
LEMMA StepOpen ==
  ASSUME OpenByLabel, ReadTyped, [Next]_vars
  PROVE  OpenByLabel'
<1> USE DEF OpenByLabel, ReadTyped, Snapshot, Finalizers, NotRead
<1>1. CASE UNCHANGED <<read, pc, shut, reap>>
  BY <1>1 DEF OpenByLabel
<1>2. ASSUME Call \/ NextStep \/ StopHere \/ StopElsewhere \/ Watch \/ Age \/ UNCHANGED vars
      PROVE  UNCHANGED <<read, pc, shut, reap>>
  BY <1>2 DEF Call, others, NextStep, StopHere, StopElsewhere, worker, Watch, Age, vars
<1>3. ASSUME Start, late' = (late \/ BeingEnded) PROVE OpenByLabel'
  BY <1>3 DEF Start, Writes, WriteRow, Goto, WriteFails, row, others
<1>4. ASSUME Answer, late' = (late \/ BeingEnded) PROVE OpenByLabel'
  BY <1>4 DEF Answer, Goto, row, others
<1>5. ASSUME RunFails, late' = (late \/ BeingEnded) PROVE OpenByLabel'
  BY <1>5 DEF RunFails, SaveDraft, WriteRow, row, Goto, others
<1>6. ASSUME AnswerRefusal, late' = (late \/ BeingEnded) PROVE OpenByLabel'
  BY <1>6 DEF AnswerRefusal, NoFault, Fault, Spend, Goto, row, others, BeingEnded
<1>7. ASSUME SaveReply, late' = (late \/ BeingEnded) PROVE OpenByLabel'
  BY <1>7 DEF SaveReply, Goto, row, others
<1>8. ASSUME SaveReplyFails, late' = (late \/ BeingEnded) PROVE OpenByLabel'
  BY <1>8 DEF SaveReplyFails, Goto, row, others
<1>9. ASSUME SettleUser, late' = (late \/ BeingEnded) PROVE OpenByLabel'
  BY <1>9 DEF SettleUser, Verdict, Begin, worker, Goto, row, others
<1>10. ASSUME SettleTicket, late' = (late \/ BeingEnded) PROVE OpenByLabel'
  BY <1>10 DEF SettleTicket, Verdict, Goto, row, others
<1>11. ASSUME SelectTicket, late' = (late \/ BeingEnded) PROVE OpenByLabel'
  BY <1>11 DEF SelectTicket, Begin, worker, Goto, row, others
<1>12. ASSUME Finalize, late' = (late \/ BeingEnded) PROVE OpenByLabel'
  BY <1>12 DEF Finalize, Commit, Consumes, Taken, WriteRow, row, NotRead, worker, Goto, others
<1>13. ASSUME FinalizeFails, late' = (late \/ BeingEnded) PROVE OpenByLabel'
  BY <1>13 DEF FinalizeFails, Abandon, NotRead, worker, Goto, row, others
<1>14. ASSUME FailJob, late' = (late \/ BeingEnded) PROVE OpenByLabel'
  BY <1>14 DEF FailJob, FallbackWrites, WriteRow, Goto, FallbackFails, row, others
<1>15. ASSUME WipeDraft, late' = (late \/ BeingEnded) PROVE OpenByLabel'
  BY <1>15 DEF WipeDraft, FallbackWrites, WriteRow, FallbackFails, row, Goto, others
<1>16. ASSUME SaveChain, late' = (late \/ BeingEnded) PROVE OpenByLabel'
  BY <1>16 DEF SaveChain, Goto, row, others
<1>17. ASSUME Persist, late' = (late \/ BeingEnded) PROVE OpenByLabel'
  BY <1>17 DEF Persist, Writes, WriteRow, Goto, others
<1>18. ASSUME Clear, late' = (late \/ BeingEnded) PROVE OpenByLabel'
  BY <1>18 DEF Clear, Writes, WriteRow, Goto, others
<1>19. ASSUME Drop, late' = (late \/ BeingEnded) PROVE OpenByLabel'
  BY <1>19 DEF Drop, Writes, Goto, row, others
<1>20. ASSUME RecordFails, late' = (late \/ BeingEnded) PROVE OpenByLabel'
  BY <1>20 DEF RecordFails, WriteFails, Goto, row, others
<1>21. ASSUME Post, late' = (late \/ BeingEnded) PROVE OpenByLabel'
  BY <1>21 DEF Post, Writes, WriteRow, WriteFails, row, Goto, others
<1>22. ASSUME Release, late' = (late \/ BeingEnded) PROVE OpenByLabel'
  BY <1>22 DEF Release, Goto, row, WriteRow, others
<1>23. ASSUME EndTicket, late' = (late \/ BeingEnded) PROVE OpenByLabel'
  BY <1>23 DEF EndTicket, WriteRow, row, Goto, others
<1>24. ASSUME BeginShutdown, UNCHANGED late PROVE OpenByLabel'
  BY <1>24 DEF BeginShutdown, WorkerLives, NotesUnrecorded, row, worker
<1>25. ASSUME ShutdownSelect, UNCHANGED late PROVE OpenByLabel'
  BY <1>25 DEF ShutdownSelect, row, worker
<1>26. ASSUME ShutdownBegin, UNCHANGED late PROVE OpenByLabel'
  BY <1>26 DEF ShutdownBegin, Begin, NotesRaced, row, worker
<1>27. ASSUME ShutdownFinalize, UNCHANGED late PROVE OpenByLabel'
  BY <1>27 DEF ShutdownFinalize, Commit, Consumes, Taken, WriteRow, row, NotRead, Abandon,
     worker
<1>28. ASSUME ShutdownMark, UNCHANGED late PROVE OpenByLabel'
  BY <1>28 DEF ShutdownMark, WriteRow, worker
<1>29. ASSUME Crash, UNCHANGED late PROVE OpenByLabel'
  BY <1>29 DEF Crash, WorkerLives, Goto, worker, NotRead, NotesUnrecorded, row
<1>30. ASSUME ReapList, UNCHANGED late PROVE OpenByLabel'
  BY <1>30 DEF ReapList, Abandoned, NotesUnrecorded, row, worker
<1>31. ASSUME ReapSelect, UNCHANGED late PROVE OpenByLabel'
  BY <1>31 DEF ReapSelect, row, worker
<1>32. ASSUME ReapBegin, UNCHANGED late PROVE OpenByLabel'
  BY <1>32 DEF ReapBegin, Begin, NotesRaced, row, worker
<1>33. ASSUME ReapFinalize, UNCHANGED late PROVE OpenByLabel'
  BY <1>33 DEF ReapFinalize, Commit, Consumes, Taken, WriteRow, row, NotRead, Abandon, worker
<1>34. ASSUME ReapRest, UNCHANGED late PROVE OpenByLabel'
  BY <1>34 DEF ReapRest, WriteRow, row, worker
<1> QED
  BY <1>1, <1>2, <1>3, <1>4, <1>5, <1>6, <1>7, <1>8, <1>9, <1>10, <1>11, <1>12, <1>13, <1>14,
     <1>15, <1>16, <1>17, <1>18, <1>19, <1>20, <1>21, <1>22, <1>23, <1>24, <1>25, <1>26, <1>27,
     <1>28, <1>29, <1>30, <1>31, <1>32, <1>33, <1>34 DEF Next, Turn, Outside

\* Labels and outcomes go together.
LEMMA StepOutcome ==
  ASSUME OutcomeByLabel, WorkerTyped, [Next]_vars
  PROVE  OutcomeByLabel'
<1> USE DEF OutcomeByLabel, WorkerTyped, Recording, Labels, Ended
<1>1. CASE UNCHANGED <<pc, outcome, kind, made, noted>>
  BY <1>1 DEF OutcomeByLabel
<1>2. ASSUME StopHere \/ StopElsewhere \/ Watch \/ BeginShutdown \/ ShutdownSelect \/
            ShutdownBegin \/ ShutdownFinalize \/ ShutdownMark \/ Age \/ ReapList \/ ReapSelect
            \/ ReapBegin \/ ReapFinalize \/ ReapRest \/ UNCHANGED vars
      PROVE  UNCHANGED <<pc, outcome, kind, made, noted>>
  BY <1>2 DEF StopHere, history, StopElsewhere, worker, Watch, BeginShutdown, ShutdownSelect,
     ShutdownBegin, ShutdownFinalize, ShutdownMark, Age, ReapList, ReapSelect, ReapBegin,
     ReapFinalize, ReapRest, vars
<1>3. ASSUME Start, late' = (late \/ BeingEnded) PROVE OutcomeByLabel'
  BY <1>3 DEF Start, Writes, Goto, WriteFails
<1>4. ASSUME Call, late' = (late \/ BeingEnded) PROVE OutcomeByLabel'
  BY <1>4 DEF Call
<1>5. ASSUME NextStep, late' = (late \/ BeingEnded) PROVE OutcomeByLabel'
  BY <1>5 DEF NextStep, SaveDraft
<1>6. ASSUME Answer, late' = (late \/ BeingEnded) PROVE OutcomeByLabel'
  BY <1>6 DEF Answer, Goto, history
<1>7. ASSUME RunFails, late' = (late \/ BeingEnded) PROVE OutcomeByLabel'
  BY <1>7 DEF RunFails, SaveDraft, Goto
<1>8. ASSUME AnswerRefusal, late' = (late \/ BeingEnded) PROVE OutcomeByLabel'
  BY <1>8 DEF AnswerRefusal, NoFault, Fault, Spend, Goto, row, others, BeingEnded
<1>9. ASSUME SaveReply, late' = (late \/ BeingEnded) PROVE OutcomeByLabel'
  BY <1>9 DEF SaveReply, RowsClash, Goto
<1>10. ASSUME SaveReplyFails, late' = (late \/ BeingEnded) PROVE OutcomeByLabel'
  BY <1>10 DEF SaveReplyFails, RowsClash, Goto
<1>11. ASSUME SettleUser, late' = (late \/ BeingEnded) PROVE OutcomeByLabel'
  BY <1>11 DEF SettleUser, Verdict, worker, Goto, history
<1>12. ASSUME SettleTicket, late' = (late \/ BeingEnded) PROVE OutcomeByLabel'
  BY <1>12 DEF SettleTicket, Verdict, Goto, history
<1>13. ASSUME SelectTicket, late' = (late \/ BeingEnded) PROVE OutcomeByLabel'
  BY <1>13 DEF SelectTicket, worker, Goto, history
<1>14. ASSUME Finalize, late' = (late \/ BeingEnded) PROVE OutcomeByLabel'
  BY <1>14 DEF Finalize, NotRead, worker, Goto, history
<1>15. ASSUME FinalizeFails, late' = (late \/ BeingEnded) PROVE OutcomeByLabel'
  BY <1>15 DEF FinalizeFails, NotRead, worker, Goto
<1>16. ASSUME FailJob, late' = (late \/ BeingEnded) PROVE OutcomeByLabel'
  BY <1>16 DEF FailJob, FallbackWrites, Goto, FallbackFails
<1>17. ASSUME WipeDraft, late' = (late \/ BeingEnded) PROVE OutcomeByLabel'
  BY <1>17 DEF WipeDraft, FallbackWrites, FallbackFails, Goto
<1>18. ASSUME SaveChain, late' = (late \/ BeingEnded) PROVE OutcomeByLabel'
  BY <1>18 DEF SaveChain, Goto
<1>19. ASSUME Persist, late' = (late \/ BeingEnded) PROVE OutcomeByLabel'
  BY <1>19 DEF Persist, Writes, Goto
<1>20. ASSUME Clear, late' = (late \/ BeingEnded) PROVE OutcomeByLabel'
  BY <1>20 DEF Clear, Writes, Goto
<1>21. ASSUME Drop, late' = (late \/ BeingEnded) PROVE OutcomeByLabel'
  BY <1>21 DEF Drop, Writes, Goto
<1>22. ASSUME RecordFails, late' = (late \/ BeingEnded) PROVE OutcomeByLabel'
  BY <1>22 DEF RecordFails, WriteFails, Goto
<1>23. ASSUME Post, late' = (late \/ BeingEnded) PROVE OutcomeByLabel'
  BY <1>23 DEF Post, Writes, WriteFails, Goto
<1>24. ASSUME Release, late' = (late \/ BeingEnded) PROVE OutcomeByLabel'
  BY <1>24 DEF Release, Goto
<1>25. ASSUME EndTicket, late' = (late \/ BeingEnded) PROVE OutcomeByLabel'
  BY <1>25 DEF EndTicket, Goto
<1>26. ASSUME Crash, UNCHANGED late PROVE OutcomeByLabel'
  BY <1>26 DEF Crash, WorkerLives, Goto, worker, NotRead
<1> QED
  BY <1>1, <1>2, <1>3, <1>4, <1>5, <1>6, <1>7, <1>8, <1>9, <1>10, <1>11, <1>12, <1>13, <1>14,
     <1>15, <1>16, <1>17, <1>18, <1>19, <1>20, <1>21, <1>22, <1>23, <1>24, <1>25, <1>26 DEF Next,
     Turn, Outside

\* Only a saved reply is recorded.
LEMMA StepSaid ==
  ASSUME RecordsReply, ChatTyped, WorkerTyped, ReplySaid => ReplySaid', [Next]_vars
  PROVE  RecordsReply'
<1> USE DEF RecordsReply, Recording, Ended
<1>1. CASE UNCHANGED <<pc>>
  BY <1>1 DEF RecordsReply
<1>2. ASSUME Call \/ NextStep \/ StopHere \/ StopElsewhere \/ Watch \/ BeginShutdown \/
            ShutdownSelect \/ ShutdownBegin \/ ShutdownFinalize \/ ShutdownMark \/ Age \/
            ReapList \/ ReapSelect \/ ReapBegin \/ ReapFinalize \/ ReapRest \/ UNCHANGED vars
      PROVE  UNCHANGED <<pc>>
  BY <1>2 DEF Call, NextStep, StopHere, StopElsewhere, worker, Watch, BeginShutdown,
     ShutdownSelect, ShutdownBegin, ShutdownFinalize, ShutdownMark, Age, ReapList, ReapSelect,
     ReapBegin, ReapFinalize, ReapRest, vars
<1>3. ASSUME Start, late' = (late \/ BeingEnded) PROVE RecordsReply'
  BY <1>3 DEF Start, Goto
<1>4. ASSUME Answer, late' = (late \/ BeingEnded) PROVE RecordsReply'
  BY <1>4 DEF Answer, Goto
<1>5. ASSUME RunFails, late' = (late \/ BeingEnded) PROVE RecordsReply'
  BY <1>5 DEF RunFails, Goto
<1>6. ASSUME AnswerRefusal, late' = (late \/ BeingEnded) PROVE RecordsReply'
  <2>1. CASE msgs' = Append(msgs, "reply")
    <3>1. msgs'[Len(msgs) + 1] = "reply" /\ Len(msgs) + 1 \in DOMAIN msgs'
      BY <2>1 DEF ChatTyped
    <3> QED
      BY <3>1 DEF RecordsReply, ReplySaid
  <2>2. CASE pc' = "settle"
    BY <2>2 DEF RecordsReply
  <2> QED
    BY <1>6, <2>1, <2>2 DEF AnswerRefusal, Goto
<1>7. ASSUME SaveReply, late' = (late \/ BeingEnded) PROVE RecordsReply'
  <2>1. msgs' = Append(msgs, "reply")
    BY <1>7 DEF SaveReply
  <2>2. msgs'[Len(msgs) + 1] = "reply" /\ Len(msgs) + 1 \in DOMAIN msgs'
    BY <2>1 DEF ChatTyped
  <2> QED
    BY <2>2 DEF RecordsReply, ReplySaid
<1>8. ASSUME SaveReplyFails, late' = (late \/ BeingEnded) PROVE RecordsReply'
  BY <1>8 DEF SaveReplyFails, Goto
<1>9. ASSUME SettleUser, late' = (late \/ BeingEnded) PROVE RecordsReply'
  BY <1>9 DEF SettleUser, worker, Goto
<1>10. ASSUME SettleTicket, late' = (late \/ BeingEnded) PROVE RecordsReply'
  BY <1>10 DEF SettleTicket, Goto
<1>11. ASSUME SelectTicket, late' = (late \/ BeingEnded) PROVE RecordsReply'
  BY <1>11 DEF SelectTicket, worker, Goto
<1>12. ASSUME Finalize, late' = (late \/ BeingEnded) PROVE RecordsReply'
  BY <1>12 DEF Finalize, NotRead, worker, Goto
<1>13. ASSUME FinalizeFails, late' = (late \/ BeingEnded) PROVE RecordsReply'
  BY <1>13 DEF FinalizeFails, NotRead, worker, Goto
<1>14. ASSUME FailJob, late' = (late \/ BeingEnded) PROVE RecordsReply'
  BY <1>14 DEF FailJob, Goto
<1>15. ASSUME WipeDraft, late' = (late \/ BeingEnded) PROVE RecordsReply'
  BY <1>15 DEF WipeDraft, Goto
<1>16. ASSUME SaveChain, late' = (late \/ BeingEnded) PROVE RecordsReply'
  BY <1>16 DEF SaveChain, Goto
<1>17. ASSUME Persist, late' = (late \/ BeingEnded) PROVE RecordsReply'
  BY <1>17 DEF Persist, Goto
<1>18. ASSUME Clear, late' = (late \/ BeingEnded) PROVE RecordsReply'
  BY <1>18 DEF Clear, Goto
<1>19. ASSUME Drop, late' = (late \/ BeingEnded) PROVE RecordsReply'
  BY <1>19 DEF Drop, Goto
<1>20. ASSUME RecordFails, late' = (late \/ BeingEnded) PROVE RecordsReply'
  BY <1>20 DEF RecordFails, Goto
<1>21. ASSUME Post, late' = (late \/ BeingEnded) PROVE RecordsReply'
  BY <1>21 DEF Post, Goto
<1>22. ASSUME Release, late' = (late \/ BeingEnded) PROVE RecordsReply'
  BY <1>22 DEF Release, Goto
<1>23. ASSUME EndTicket, late' = (late \/ BeingEnded) PROVE RecordsReply'
  BY <1>23 DEF EndTicket, Goto
<1>24. ASSUME Crash, UNCHANGED late PROVE RecordsReply'
  BY <1>24 DEF Crash, WorkerLives, Goto, worker, NotRead
<1> QED
  BY <1>1, <1>2, <1>3, <1>4, <1>5, <1>6, <1>7, <1>8, <1>9, <1>10, <1>11, <1>12, <1>13, <1>14,
     <1>15, <1>16, <1>17, <1>18, <1>19, <1>20, <1>21, <1>22, <1>23, <1>24 DEF Next, Turn, Outside

\* What was read is not ahead of the chat.
LEMMA StepReadsOld ==
  ASSUME ReadsAreOld, ReadTyped, ChatTyped, Len(msgs) \in Nat, Len(msgs') >= Len(msgs),
         Len(msgs') \in Nat, [Next]_vars
  PROVE  ReadsAreOld'
<1> USE DEF ReadsAreOld, ReadTyped, ChatTyped, NotRead, Finalizers
<1>1. CASE UNCHANGED <<read>>
  BY <1>1 DEF ReadsAreOld
<1>2. ASSUME Start \/ Call \/ NextStep \/ Answer \/ RunFails \/ AnswerRefusal \/ SaveReply \/ SaveReplyFails \/
            SettleTicket \/ FailJob \/ WipeDraft \/ SaveChain \/ Persist \/ Clear \/ Drop \/
            RecordFails \/ Post \/ Release \/ EndTicket \/ StopHere \/ StopElsewhere \/ Watch
            \/ BeginShutdown \/ ShutdownSelect \/ ShutdownMark \/ Age \/ ReapList \/
            ReapSelect \/ ReapRest \/ UNCHANGED vars
      PROVE  UNCHANGED <<read>>
  BY <1>2 DEF Start, Call, NextStep, Answer, RunFails, AnswerRefusal, SaveReply, SaveReplyFails,
     SettleTicket, FailJob, WipeDraft, SaveChain, Persist, Clear, Drop, RecordFails, Post,
     Release, EndTicket, StopHere, StopElsewhere, Watch, BeginShutdown, ShutdownSelect,
     ShutdownMark, Age, ReapList, ReapSelect, ReapRest, vars
<1>3. ASSUME SettleUser, late' = (late \/ BeingEnded) PROVE ReadsAreOld'
  BY <1>3 DEF SettleUser, Begin, row, chat
<1>4. ASSUME SelectTicket, late' = (late \/ BeingEnded) PROVE ReadsAreOld'
  BY <1>4 DEF SelectTicket, Begin, row, chat
<1>5. ASSUME Finalize, late' = (late \/ BeingEnded) PROVE ReadsAreOld'
  BY <1>5 DEF Finalize, Commit, Consumes, Taken, Dropped, WriteRow, row, NotRead
<1>6. ASSUME FinalizeFails, late' = (late \/ BeingEnded) PROVE ReadsAreOld'
  BY <1>6 DEF FinalizeFails, Abandon, NotRead, row, chat
<1>7. ASSUME ShutdownBegin, UNCHANGED late PROVE ReadsAreOld'
  BY <1>7 DEF ShutdownBegin, Begin, NotesRaced, row, chat
<1>8. ASSUME ShutdownFinalize, UNCHANGED late PROVE ReadsAreOld'
  BY <1>8 DEF ShutdownFinalize, Commit, Consumes, Taken, Dropped, WriteRow, row, NotRead,
     Abandon, chat
<1>9. ASSUME Crash, UNCHANGED late PROVE ReadsAreOld'
  BY <1>9 DEF Crash, NotRead, NotesUnrecorded, row, chat
<1>10. ASSUME ReapBegin, UNCHANGED late PROVE ReadsAreOld'
  BY <1>10 DEF ReapBegin, Begin, NotesRaced, row, chat
<1>11. ASSUME ReapFinalize, UNCHANGED late PROVE ReadsAreOld'
  BY <1>11 DEF ReapFinalize, Commit, Consumes, Taken, Dropped, WriteRow, row, NotRead,
     Abandon, chat
<1> QED
  BY <1>1, <1>2, <1>3, <1>4, <1>5, <1>6, <1>7, <1>8, <1>9, <1>10, <1>11 DEF Next, Turn,
     Outside

\* Rows are of calls that were made, drafts are ones that were noted.
LEMMA StepRows ==
  ASSUME RowsAreOfCalls, ChatTyped, RowTyped, WorkerTyped, ReadTyped, [Next]_vars
  PROVE  RowsAreOfCalls'
<1> USE Bound DEF RowsAreOfCalls, NoRow, OnJob, NoDraft, NotRead, Calls, ReadTyped,
        Finalizers, WorkerTyped
<1>1. CASE UNCHANGED <<home, made, draft, noted, read>>
  BY <1>1 DEF RowsAreOfCalls
<1>2. ASSUME Answer \/ SaveReplyFails \/ SettleTicket \/ SaveChain \/ RecordFails \/ StopHere
            \/ Watch \/ BeginShutdown \/ ShutdownSelect \/ Age \/ ReapList \/ ReapSelect \/
            UNCHANGED vars
      PROVE  UNCHANGED <<home, made, draft, noted, read>>
  BY <1>2 DEF Answer, row, chat, history, SaveReplyFails, SettleTicket, SaveChain,
     RecordFails, StopHere, Watch, BeginShutdown, worker, ShutdownSelect, Age, ReapList,
     ReapSelect, vars
<1>3. ASSUME Start, late' = (late \/ BeingEnded) PROVE RowsAreOfCalls'
  BY <1>3 DEF Start, Writes, WriteRow, Goto, WriteFails, row, chat
<1>4. ASSUME Call, late' = (late \/ BeingEnded) PROVE RowsAreOfCalls'
  <2>1. \A c \in Calls \ {step} : home'[c] = home[c]
    BY <1>4 DEF Call, ChatTyped
  <2> QED
    BY <1>4, <2>1 DEF Call, row
<1>5. ASSUME NextStep, late' = (late \/ BeingEnded) PROVE RowsAreOfCalls'
  BY <1>5 DEF NextStep, SaveDraft, WriteRow, row, chat
<1>6. ASSUME RunFails, late' = (late \/ BeingEnded) PROVE RowsAreOfCalls'
  BY <1>6 DEF RunFails, SaveDraft, WriteRow, row, Goto, chat
<1>7. ASSUME AnswerRefusal, late' = (late \/ BeingEnded) PROVE RowsAreOfCalls'
  BY <1>7 DEF AnswerRefusal, NoFault, Fault, Spend, Goto, row, others, BeingEnded
<1>8. ASSUME SaveReply, late' = (late \/ BeingEnded) PROVE RowsAreOfCalls'
  BY <1>8 DEF SaveReply, RowsClash, Goto, row
<1>9. ASSUME SettleUser, late' = (late \/ BeingEnded) PROVE RowsAreOfCalls'
  BY <1>9 DEF SettleUser, Verdict, Begin, worker, Goto, row, chat, history
<1>10. ASSUME SelectTicket, late' = (late \/ BeingEnded) PROVE RowsAreOfCalls'
  BY <1>10 DEF SelectTicket, Begin, worker, Goto, row, chat, history
<1>11. ASSUME Finalize, late' = (late \/ BeingEnded) PROVE RowsAreOfCalls'
  BY <1>11 DEF Finalize, Commit, Consumes, Taken, Dropped, WriteRow, row, NotRead, worker,
     Goto, history
<1>12. ASSUME FinalizeFails, late' = (late \/ BeingEnded) PROVE RowsAreOfCalls'
  BY <1>12 DEF FinalizeFails, Abandon, NotRead, worker, Goto, row, chat
<1>13. ASSUME FailJob, late' = (late \/ BeingEnded) PROVE RowsAreOfCalls'
  BY <1>13 DEF FailJob, FallbackWrites, WriteRow, Goto, FallbackFails, row, chat
<1>14. ASSUME WipeDraft, late' = (late \/ BeingEnded) PROVE RowsAreOfCalls'
  BY <1>14 DEF WipeDraft, FallbackWrites, WriteRow, Dropped, FallbackFails, row, Goto
<1>15. ASSUME Persist, late' = (late \/ BeingEnded) PROVE RowsAreOfCalls'
  BY <1>15 DEF Persist, Writes, WriteRow, Goto, chat
<1>16. ASSUME Clear, late' = (late \/ BeingEnded) PROVE RowsAreOfCalls'
  BY <1>16 DEF Clear, Writes, WriteRow, Goto, chat
<1>17. ASSUME Drop, late' = (late \/ BeingEnded) PROVE RowsAreOfCalls'
  BY <1>17 DEF Drop, Writes, Dropped, Goto, row
<1>18. ASSUME Post, late' = (late \/ BeingEnded) PROVE RowsAreOfCalls'
  BY <1>18 DEF Post, Writes, WriteRow, WriteFails, row, Goto, chat
<1>19. ASSUME Release, late' = (late \/ BeingEnded) PROVE RowsAreOfCalls'
  BY <1>19 DEF Release, Goto, row, WriteRow, chat
<1>20. ASSUME EndTicket, late' = (late \/ BeingEnded) PROVE RowsAreOfCalls'
  BY <1>20 DEF EndTicket, WriteRow, row, Goto, chat
<1>21. ASSUME StopElsewhere, UNCHANGED late PROVE RowsAreOfCalls'
  BY <1>21 DEF StopElsewhere, Cancelled, WriteRow, WorkerLives, chat, worker
<1>22. ASSUME ShutdownBegin, UNCHANGED late PROVE RowsAreOfCalls'
  BY <1>22 DEF ShutdownBegin, Begin, NotesRaced, row, chat, worker
<1>23. ASSUME ShutdownFinalize, UNCHANGED late PROVE RowsAreOfCalls'
  BY <1>23 DEF ShutdownFinalize, Commit, Consumes, Taken, Dropped, WriteRow, row, NotRead,
     Abandon, chat, worker
<1>24. ASSUME ShutdownMark, UNCHANGED late PROVE RowsAreOfCalls'
  BY <1>24 DEF ShutdownMark, WriteRow, chat, worker, history
<1>25. ASSUME Crash, UNCHANGED late PROVE RowsAreOfCalls'
  BY <1>25 DEF Crash, WorkerLives, Goto, worker, NotRead, NotesUnrecorded, row, chat
<1>26. ASSUME ReapBegin, UNCHANGED late PROVE RowsAreOfCalls'
  BY <1>26 DEF ReapBegin, Begin, NotesRaced, row, chat, worker
<1>27. ASSUME ReapFinalize, UNCHANGED late PROVE RowsAreOfCalls'
  BY <1>27 DEF ReapFinalize, Commit, Consumes, Taken, Dropped, WriteRow, row, NotRead,
     Abandon, chat, worker
<1>28. ASSUME ReapRest, UNCHANGED late PROVE RowsAreOfCalls'
  BY <1>28 DEF ReapRest, WriteRow, row, chat, worker, history
<1> QED
  BY <1>1, <1>2, <1>3, <1>4, <1>5, <1>6, <1>7, <1>8, <1>9, <1>10, <1>11, <1>12, <1>13, <1>14,
     <1>15, <1>16, <1>17, <1>18, <1>19, <1>20, <1>21, <1>22, <1>23, <1>24, <1>25, <1>26, <1>27,
     <1>28 DEF Next, Turn, Outside


-----------------------------------------------------------------------------
\* Every step keeps the shape.
LEMMA StepShape ==
  ASSUME Shape, [Next]_vars
  PROVE  Shape'
<1>1. /\ RowTyped /\ ChatTyped /\ WorkerTyped /\ OthersTyped /\ ReadTyped /\ LeftTyped
      /\ late \in BOOLEAN /\ OpenByLabel /\ OutcomeByLabel /\ RecordsReply /\ ReadsAreOld /\ RowsAreOfCalls
  BY Parts DEF Shape
<1>2. /\ RowTyped' /\ ChatTyped' /\ WorkerTyped' /\ OthersTyped' /\ ReadTyped' /\ LeftTyped'
      /\ late' \in BOOLEAN
  BY <1>1, StepRow, StepChat, StepWorker, StepOthers, StepRead, StepLeft, LateGrows
<1>3. MsgsStep
  BY <1>1, MsgsGrow
<1>4. OpenByLabel' /\ OutcomeByLabel' /\ RowsAreOfCalls'
  BY <1>1, StepOpen, StepOutcome, StepRows
<1>5. RecordsReply' /\ ReadsAreOld'
  BY <1>1, <1>3, SaidStaysSaid, StepSaid, StepReadsOld
<1>6. TypeOK'
  BY <1>2 DEF TypeOK, RowTyped, ChatTyped, WorkerTyped, OthersTyped, ReadTyped, LeftTyped
<1> QED
  BY <1>4, <1>5, <1>6 DEF Shape

\* It holds at first.
LEMMA InitShape == Init => Shape
<1> SUFFICES ASSUME Init PROVE Shape
  OBVIOUS
<1> USE DEF Init, NoDraft, NoRow
<1>1. RowTyped /\ OthersTyped
  BY DraftRange DEF RowTyped, Status, Blocking, OthersTyped
<1>11. 1 \in Calls
  BY Bound DEF Calls
<1>12. WorkerTyped
  BY <1>11 DEF WorkerTyped, Labels
<1>2. ChatTyped
  BY DEF ChatTyped
<1>3. ReadTyped
  BY DraftRange DEF ReadTyped, NotRead, Snapshot, Status, Blocking
<1>4. LeftTyped
  BY ConstantsAssumption DEF LeftTyped
<1>5. OpenByLabel /\ OutcomeByLabel /\ RecordsReply /\ ReadsAreOld /\ RowsAreOfCalls
  BY DEF OpenByLabel, OutcomeByLabel, RecordsReply, Recording, ReadsAreOld, RowsAreOfCalls, NotRead, Finalizers
<1> QED
  BY <1>1, <1>12, <1>2, <1>3, <1>4, <1>5, Parts DEF Shape

\* Types, with the labels, outcomes and readings they rest on.
THEOREM TypeCorrect == Spec => []TypeOK
<1>1. Shape /\ UNCHANGED vars => Shape'
  BY StepShape
<1> QED
  BY InitShape, StepShape, PTL DEF Spec, Shape
\* The worker that is not late speaks first.
LEMMA StepNothing ==
  ASSUME late => late', torn \subseteq torn', NothingSaidEarly, [Next]_vars
  PROVE  NothingSaidEarly'
<1> USE DEF NothingSaidEarly, Early, Recording, Ended, Unrecorded
<1>1. CASE UNCHANGED <<pc, msgs, shut, reap>>
  BY <1>1 DEF NothingSaidEarly
<1>2. ASSUME Call \/ NextStep \/ StopHere \/ StopElsewhere \/ Watch \/ Age \/ UNCHANGED vars
      PROVE  UNCHANGED <<pc, msgs, shut, reap>>
  BY <1>2 DEF Call, others, NextStep, chat, StopHere, StopElsewhere, worker, Watch, Age, vars
<1>3. ASSUME Start, late' = (late \/ BeingEnded) PROVE NothingSaidEarly'
  BY <1>3 DEF Start, Writes, NoFault, Goto, WriteFails, Fault, chat, others, BeingEnded
<1>4. ASSUME Answer, late' = (late \/ BeingEnded) PROVE NothingSaidEarly'
  BY <1>4 DEF Answer, Goto, chat, others, history, BeingEnded
<1>5. ASSUME RunFails, late' = (late \/ BeingEnded) PROVE NothingSaidEarly'
  BY <1>5 DEF RunFails, SaveDraft, NoFault, Fault, Goto, chat, others, BeingEnded
<1>6. ASSUME AnswerRefusal, late' = (late \/ BeingEnded) PROVE NothingSaidEarly'
  BY <1>6 DEF AnswerRefusal, NoFault, Fault, Spend, Goto, row, others, BeingEnded
<1>7. ASSUME SaveReply, late' = (late \/ BeingEnded) PROVE NothingSaidEarly'
  BY <1>7 DEF SaveReply, Goto, NoFault, others, BeingEnded
<1>8. ASSUME SaveReplyFails, late' = (late \/ BeingEnded) PROVE NothingSaidEarly'
  BY <1>8 DEF SaveReplyFails, NoFault, Fault, Goto, chat, others, BeingEnded
<1>9. ASSUME SettleUser, late' = (late \/ BeingEnded) PROVE NothingSaidEarly'
  BY <1>9 DEF SettleUser, worker, Goto, chat, others, history, BeingEnded
<1>10. ASSUME SettleTicket, late' = (late \/ BeingEnded) PROVE NothingSaidEarly'
  BY <1>10 DEF SettleTicket, Goto, chat, others, history, BeingEnded
<1>11. ASSUME SelectTicket, late' = (late \/ BeingEnded) PROVE NothingSaidEarly'
  BY <1>11 DEF SelectTicket, worker, Goto, chat, others, history, BeingEnded
<1>12. ASSUME Finalize, late' = (late \/ BeingEnded) PROVE NothingSaidEarly'
  BY <1>12 DEF Finalize, Commit, Taken, NotRead, worker, Goto, others, history, BeingEnded
<1>13. ASSUME FinalizeFails, late' = (late \/ BeingEnded) PROVE NothingSaidEarly'
  BY <1>13 DEF FinalizeFails, NotRead, worker, Fault, Goto, chat, others, BeingEnded
<1>14. ASSUME FailJob, late' = (late \/ BeingEnded) PROVE NothingSaidEarly'
  BY <1>14 DEF FailJob, FallbackWrites, NoFault, Goto, FallbackFails, Fault, chat, others,
     BeingEnded
<1>15. ASSUME WipeDraft, late' = (late \/ BeingEnded) PROVE NothingSaidEarly'
  BY <1>15 DEF WipeDraft, FallbackWrites, NoFault, FallbackFails, Fault, Goto, others,
     BeingEnded
<1>16. ASSUME SaveChain, late' = (late \/ BeingEnded) PROVE NothingSaidEarly'
  BY <1>16 DEF SaveChain, NoFault, Goto, Fault, chat, others, BeingEnded
<1>17. ASSUME Persist, late' = (late \/ BeingEnded) PROVE NothingSaidEarly'
  BY <1>17 DEF Persist, Writes, NoFault, Reply, Goto, chat, others, BeingEnded
<1>18. ASSUME Clear, late' = (late \/ BeingEnded) PROVE NothingSaidEarly'
  BY <1>18 DEF Clear, Writes, NoFault, Goto, chat, others, BeingEnded
<1>19. ASSUME Drop, late' = (late \/ BeingEnded) PROVE NothingSaidEarly'
  BY <1>19 DEF Drop, Writes, NoFault, Goto, others, BeingEnded
<1>20. ASSUME RecordFails, late' = (late \/ BeingEnded) PROVE NothingSaidEarly'
  BY <1>20 DEF RecordFails, WriteFails, Fault, Goto, chat, others, BeingEnded
<1>21. ASSUME Post, late' = (late \/ BeingEnded) PROVE NothingSaidEarly'
  BY <1>21 DEF Post, Writes, NoFault, Reply, WriteFails, Fault, Goto, chat, others, BeingEnded
<1>22. ASSUME Release, late' = (late \/ BeingEnded) PROVE NothingSaidEarly'
  BY <1>22 DEF Release, Goto, NoFault, Fault, chat, others, BeingEnded
<1>23. ASSUME EndTicket, late' = (late \/ BeingEnded) PROVE NothingSaidEarly'
  BY <1>23 DEF EndTicket, NoFault, Fault, Goto, chat, others, BeingEnded
<1>24. ASSUME BeginShutdown, UNCHANGED late PROVE NothingSaidEarly'
  BY <1>24 DEF BeginShutdown, WorkerLives, NotesUnrecorded, chat, worker
<1>25. ASSUME ShutdownSelect, UNCHANGED late PROVE NothingSaidEarly'
  BY <1>25 DEF ShutdownSelect, chat, worker, history
<1>26. ASSUME ShutdownBegin, UNCHANGED late PROVE NothingSaidEarly'
  BY <1>26 DEF ShutdownBegin, chat, worker
<1>27. ASSUME ShutdownFinalize, UNCHANGED late PROVE NothingSaidEarly'
  BY <1>27 DEF ShutdownFinalize, Commit, Taken, NotRead, NoFault, Fault, chat, worker
<1>28. ASSUME ShutdownMark, UNCHANGED late PROVE NothingSaidEarly'
  BY <1>28 DEF ShutdownMark, chat, worker, history
<1>29. ASSUME Crash, UNCHANGED late PROVE NothingSaidEarly'
  BY <1>29 DEF Crash, WorkerLives, Goto, worker, NotRead, NotesUnrecorded, chat
<1>30. ASSUME ReapList, UNCHANGED late PROVE NothingSaidEarly'
  BY <1>30 DEF ReapList, NotesUnrecorded, chat, worker
<1>31. ASSUME ReapSelect, UNCHANGED late PROVE NothingSaidEarly'
  BY <1>31 DEF ReapSelect, chat, worker, history
<1>32. ASSUME ReapBegin, UNCHANGED late PROVE NothingSaidEarly'
  BY <1>32 DEF ReapBegin, chat, worker
<1>33. ASSUME ReapFinalize, UNCHANGED late PROVE NothingSaidEarly'
  BY <1>33 DEF ReapFinalize, Commit, Taken, NotRead, NoFault, Fault, chat, worker
<1>34. ASSUME ReapRest, UNCHANGED late PROVE NothingSaidEarly'
  BY <1>34 DEF ReapRest, chat, worker, history
<1> QED
  BY <1>1, <1>2, <1>3, <1>4, <1>5, <1>6, <1>7, <1>8, <1>9, <1>10, <1>11, <1>12, <1>13, <1>14,
     <1>15, <1>16, <1>17, <1>18, <1>19, <1>20, <1>21, <1>22, <1>23, <1>24, <1>25, <1>26, <1>27,
     <1>28, <1>29, <1>30, <1>31, <1>32, <1>33, <1>34 DEF Next, Turn, Outside

\* A row gets its result when the worker is past its reply, or from those who end its turn.
LEMMA StepResultIsLate ==
  ASSUME late => late', torn \subseteq torn', ResultIsLate, [Next]_vars
  PROVE  ResultIsLate'
<1> USE DEF ResultIsLate, Early, Recording, Ended
<1>1. CASE UNCHANGED <<result, pc, shut, reap>>
  BY <1>1 DEF ResultIsLate
<1>2. ASSUME Call \/ StopHere \/ Watch \/ Age \/ UNCHANGED vars
      PROVE  UNCHANGED <<result, pc, shut, reap>>
  BY <1>2 DEF Call, row, others, StopHere, Watch, Age, worker, vars
<1>3. ASSUME Start, late' = (late \/ BeingEnded) PROVE ResultIsLate'
  BY <1>3 DEF Start, WriteRow, Goto, row, others, BeingEnded
<1>4. ASSUME NextStep, late' = (late \/ BeingEnded) PROVE ResultIsLate'
  BY <1>4 DEF NextStep, SaveDraft, WriteRow, row, others, BeingEnded
<1>5. ASSUME Answer, late' = (late \/ BeingEnded) PROVE ResultIsLate'
  BY <1>5 DEF Answer, Goto, row, others, BeingEnded
<1>6. ASSUME RunFails, late' = (late \/ BeingEnded) PROVE ResultIsLate'
  BY <1>6 DEF RunFails, SaveDraft, WriteRow, row, Goto, others, BeingEnded
<1>7. ASSUME AnswerRefusal, late' = (late \/ BeingEnded) PROVE ResultIsLate'
  BY <1>7 DEF AnswerRefusal, NoFault, Fault, Spend, Goto, row, others, BeingEnded
<1>8. ASSUME SaveReply, late' = (late \/ BeingEnded) PROVE ResultIsLate'
  BY <1>8 DEF SaveReply, Goto, row, others, BeingEnded
<1>9. ASSUME SaveReplyFails, late' = (late \/ BeingEnded) PROVE ResultIsLate'
  BY <1>9 DEF SaveReplyFails, Goto, row, others, BeingEnded
<1>10. ASSUME SettleUser, late' = (late \/ BeingEnded) PROVE ResultIsLate'
  BY <1>10 DEF SettleUser, Begin, worker, Goto, row, others, BeingEnded
<1>11. ASSUME SettleTicket, late' = (late \/ BeingEnded) PROVE ResultIsLate'
  BY <1>11 DEF SettleTicket, Goto, row, others, BeingEnded
<1>12. ASSUME SelectTicket, late' = (late \/ BeingEnded) PROVE ResultIsLate'
  BY <1>12 DEF SelectTicket, Begin, worker, Goto, row, others, BeingEnded
<1>13. ASSUME Finalize, late' = (late \/ BeingEnded) PROVE ResultIsLate'
  BY <1>13 DEF Finalize, Commit, Consumes, Taken, WriteRow, row, NotRead, worker, Goto,
     others, BeingEnded
<1>14. ASSUME FinalizeFails, late' = (late \/ BeingEnded) PROVE ResultIsLate'
  BY <1>14 DEF FinalizeFails, Abandon, NotRead, worker, Goto, row, others, BeingEnded
<1>15. ASSUME FailJob, late' = (late \/ BeingEnded) PROVE ResultIsLate'
  BY <1>15 DEF FailJob, WriteRow, Goto, row, others, BeingEnded
<1>16. ASSUME WipeDraft, late' = (late \/ BeingEnded) PROVE ResultIsLate'
  BY <1>16 DEF WipeDraft, WriteRow, row, Goto, others, BeingEnded
<1>17. ASSUME SaveChain, late' = (late \/ BeingEnded) PROVE ResultIsLate'
  BY <1>17 DEF SaveChain, Goto, row, others, BeingEnded
<1>18. ASSUME Persist, late' = (late \/ BeingEnded) PROVE ResultIsLate'
  BY <1>18 DEF Persist, WriteRow, Goto, others, BeingEnded
<1>19. ASSUME Clear, late' = (late \/ BeingEnded) PROVE ResultIsLate'
  BY <1>19 DEF Clear, WriteRow, Goto, others, BeingEnded
<1>20. ASSUME Drop, late' = (late \/ BeingEnded) PROVE ResultIsLate'
  BY <1>20 DEF Drop, Goto, row, others, BeingEnded
<1>21. ASSUME RecordFails, late' = (late \/ BeingEnded) PROVE ResultIsLate'
  BY <1>21 DEF RecordFails, Goto, row, others, BeingEnded
<1>22. ASSUME Post, late' = (late \/ BeingEnded) PROVE ResultIsLate'
  BY <1>22 DEF Post, WriteRow, row, Goto, others, BeingEnded
<1>23. ASSUME Release, late' = (late \/ BeingEnded) PROVE ResultIsLate'
  BY <1>23 DEF Release, Goto, row, WriteRow, others, BeingEnded
<1>24. ASSUME EndTicket, late' = (late \/ BeingEnded) PROVE ResultIsLate'
  BY <1>24 DEF EndTicket, WriteRow, row, Goto, others, BeingEnded
<1>25. ASSUME StopElsewhere, UNCHANGED late PROVE ResultIsLate'
  BY <1>25 DEF StopElsewhere, Cancelled, WriteRow, WorkerLives, worker, others
<1>26. ASSUME BeginShutdown, UNCHANGED late PROVE ResultIsLate'
  BY <1>26 DEF BeginShutdown, WorkerLives, NotesUnrecorded, row, worker
<1>27. ASSUME ShutdownSelect, UNCHANGED late PROVE ResultIsLate'
  BY <1>27 DEF ShutdownSelect, row, worker
<1>28. ASSUME ShutdownBegin, UNCHANGED late PROVE ResultIsLate'
  BY <1>28 DEF ShutdownBegin, Begin, row, worker
<1>29. ASSUME ShutdownFinalize, UNCHANGED late PROVE ResultIsLate'
  BY <1>29 DEF ShutdownFinalize, Commit, Consumes, Taken, WriteRow, row, NotRead, Abandon,
     worker
<1>30. ASSUME ShutdownMark, UNCHANGED late PROVE ResultIsLate'
  BY <1>30 DEF ShutdownMark, WriteRow, worker
<1>31. ASSUME Crash, UNCHANGED late PROVE ResultIsLate'
  BY <1>31 DEF Crash, WorkerLives, Goto, worker, NotRead, NotesUnrecorded, row
<1>32. ASSUME ReapList, UNCHANGED late PROVE ResultIsLate'
  BY <1>32 DEF ReapList, NotesUnrecorded, row, worker
<1>33. ASSUME ReapSelect, UNCHANGED late PROVE ResultIsLate'
  BY <1>33 DEF ReapSelect, row, worker
<1>34. ASSUME ReapBegin, UNCHANGED late PROVE ResultIsLate'
  BY <1>34 DEF ReapBegin, Begin, row, worker
<1>35. ASSUME ReapFinalize, UNCHANGED late PROVE ResultIsLate'
  BY <1>35 DEF ReapFinalize, Commit, Consumes, Taken, WriteRow, row, NotRead, Abandon, worker
<1>36. ASSUME ReapRest, UNCHANGED late PROVE ResultIsLate'
  BY <1>36 DEF ReapRest, WriteRow, row, worker
<1> QED
  BY <1>1, <1>2, <1>3, <1>4, <1>5, <1>6, <1>7, <1>8, <1>9, <1>10, <1>11, <1>12, <1>13, <1>14,
     <1>15, <1>16, <1>17, <1>18, <1>19, <1>20, <1>21, <1>22, <1>23, <1>24, <1>25, <1>26, <1>27,
     <1>28, <1>29, <1>30, <1>31, <1>32, <1>33, <1>34, <1>35, <1>36 DEF Next, Turn, Outside

\* An unended row has no result.
LEMMA StepNoResult ==
  ASSUME late => late', torn \subseteq torn', OutcomeByLabel, ReadTyped, NoResultYet,
         ResultIsLate, StaysEnded, [Next]_vars
  PROVE  NoResultYet'
<1> USE DEF NoResultYet, ResultIsLate, StaysEnded, Blocking, Terminal, Finalizers,
        OutcomeByLabel, Early, ReadTyped, Snapshot
<1>1. CASE UNCHANGED <<status, result>>
  BY <1>1 DEF NoResultYet
<1>2. ASSUME Call \/ Answer \/ AnswerRefusal \/ SaveReply \/ SaveReplyFails \/ SettleUser \/ SettleTicket \/
            SelectTicket \/ FinalizeFails \/ SaveChain \/ Drop \/ RecordFails \/ StopHere \/
            Watch \/ BeginShutdown \/ ShutdownSelect \/ ShutdownBegin \/ Crash \/ Age \/
            ReapList \/ ReapSelect \/ ReapBegin \/ UNCHANGED vars
      PROVE  UNCHANGED <<status, result>>
  BY <1>2 DEF Call, row, Answer, AnswerRefusal, SaveReply, SaveReplyFails, SettleUser, Begin, SettleTicket,
     SelectTicket, FinalizeFails, Abandon, SaveChain, Drop, RecordFails, StopHere, Watch,
     BeginShutdown, ShutdownSelect, ShutdownBegin, Crash, Age, ReapList, ReapSelect,
     ReapBegin, vars
<1>3. ASSUME Start, late' = (late \/ BeingEnded) PROVE NoResultYet'
  BY <1>3 DEF Start, Writes, WriteRow, Goto, WriteFails, row, others, BeingEnded
<1>4. ASSUME NextStep, late' = (late \/ BeingEnded) PROVE NoResultYet'
  BY <1>4 DEF NextStep, SaveDraft, WriteRow, row, others, BeingEnded
<1>5. ASSUME RunFails, late' = (late \/ BeingEnded) PROVE NoResultYet'
  BY <1>5 DEF RunFails, SaveDraft, WriteRow, row, Goto, others, BeingEnded
<1>6. ASSUME Finalize, late' = (late \/ BeingEnded) PROVE NoResultYet'
  BY <1>6 DEF Finalize, Commit, Consumes, Taken, WriteRow, row, NotRead, worker, Goto, others,
     history, BeingEnded
<1>7. ASSUME FailJob, late' = (late \/ BeingEnded) PROVE NoResultYet'
  BY <1>7 DEF FailJob, FallbackWrites, WriteRow, Goto, FallbackFails, row, others, BeingEnded
<1>8. ASSUME WipeDraft, late' = (late \/ BeingEnded) PROVE NoResultYet'
  BY <1>8 DEF WipeDraft, FallbackWrites, WriteRow, FallbackFails, row, Goto, others,
     BeingEnded
<1>9. ASSUME Persist, late' = (late \/ BeingEnded) PROVE NoResultYet'
  BY <1>9 DEF Persist, Writes, WriteRow, Goto, others, BeingEnded
<1>10. ASSUME Clear, late' = (late \/ BeingEnded) PROVE NoResultYet'
  BY <1>10 DEF Clear, Writes, WriteRow, Goto, others, BeingEnded
<1>11. ASSUME Post, late' = (late \/ BeingEnded) PROVE NoResultYet'
  BY <1>11 DEF Post, Writes, WriteRow, WriteFails, row, Goto, others, BeingEnded
<1>12. ASSUME Release, late' = (late \/ BeingEnded) PROVE NoResultYet'
  BY <1>12 DEF Release, Goto, row, WriteRow, others, BeingEnded
<1>13. ASSUME EndTicket, late' = (late \/ BeingEnded) PROVE NoResultYet'
  BY <1>13 DEF EndTicket, WriteRow, row, Goto, others, BeingEnded
<1>14. ASSUME StopElsewhere, UNCHANGED late PROVE NoResultYet'
  BY <1>14 DEF StopElsewhere, Cancelled, WriteRow, WorkerLives, worker, others
<1>15. ASSUME ShutdownFinalize, UNCHANGED late PROVE NoResultYet'
  BY <1>15 DEF ShutdownFinalize, Commit, Consumes, Taken, WriteRow, row, NotRead, Abandon,
     worker
<1>16. ASSUME ShutdownMark, UNCHANGED late PROVE NoResultYet'
  BY <1>16 DEF ShutdownMark, WriteRow, worker, history
<1>17. ASSUME ReapFinalize, UNCHANGED late PROVE NoResultYet'
  BY <1>17 DEF ReapFinalize, Commit, Consumes, Taken, WriteRow, row, NotRead, Abandon, worker
<1>18. ASSUME ReapRest, UNCHANGED late PROVE NoResultYet'
  BY <1>18 DEF ReapRest, WriteRow, row, worker, history
<1> QED
  BY <1>1, <1>2, <1>3, <1>4, <1>5, <1>6, <1>7, <1>8, <1>9, <1>10, <1>11, <1>12, <1>13, <1>14,
     <1>15, <1>16, <1>17, <1>18 DEF Next, Turn, Outside

\* A row that was found ended stays so.
LEMMA StepStays ==
  ASSUME late => late', torn \subseteq torn', OpenByLabel, OutcomeByLabel, ReadTyped,
         StaysEnded, [Next]_vars
  PROVE  StaysEnded'
<1> USE DEF StaysEnded, ReadTyped, Snapshot, NotRead, Blocking, Terminal, Finalizers,
        OpenByLabel, OutcomeByLabel
<1>1. CASE UNCHANGED <<status, read>>
  BY <1>1 DEF StaysEnded
<1>2. ASSUME Call \/ Answer \/ AnswerRefusal \/ SaveReply \/ SaveReplyFails \/ SettleTicket \/ SaveChain \/
            Drop \/ RecordFails \/ StopHere \/ Watch \/ BeginShutdown \/ ShutdownSelect \/ Age
            \/ ReapList \/ ReapSelect \/ UNCHANGED vars
      PROVE  UNCHANGED <<status, read>>
  BY <1>2 DEF Call, row, Answer, AnswerRefusal, SaveReply, SaveReplyFails, SettleTicket, SaveChain, Drop,
     RecordFails, StopHere, Watch, BeginShutdown, ShutdownSelect, Age, ReapList, ReapSelect,
     vars
<1>3. ASSUME Start, late' = (late \/ BeingEnded) PROVE StaysEnded'
  BY <1>3 DEF Start, Writes, WriteRow, Goto, WriteFails, row, others, BeingEnded
<1>4. ASSUME NextStep, late' = (late \/ BeingEnded) PROVE StaysEnded'
  BY <1>4 DEF NextStep, SaveDraft, WriteRow, row, others, BeingEnded
<1>5. ASSUME RunFails, late' = (late \/ BeingEnded) PROVE StaysEnded'
  BY <1>5 DEF RunFails, SaveDraft, WriteRow, row, Goto, others, BeingEnded
<1>6. ASSUME SettleUser, late' = (late \/ BeingEnded) PROVE StaysEnded'
  BY <1>6 DEF SettleUser, Verdict, Begin, worker, Goto, row, others, history, BeingEnded
<1>7. ASSUME SelectTicket, late' = (late \/ BeingEnded) PROVE StaysEnded'
  BY <1>7 DEF SelectTicket, Begin, worker, Goto, row, others, history, BeingEnded
<1>8. ASSUME Finalize, late' = (late \/ BeingEnded) PROVE StaysEnded'
  BY <1>8 DEF Finalize, Commit, Consumes, Taken, WriteRow, row, NotRead, worker, Goto, others,
     history, BeingEnded
<1>9. ASSUME FinalizeFails, late' = (late \/ BeingEnded) PROVE StaysEnded'
  BY <1>9 DEF FinalizeFails, Abandon, NotRead, worker, Goto, row, others, BeingEnded
<1>10. ASSUME FailJob, late' = (late \/ BeingEnded) PROVE StaysEnded'
  BY <1>10 DEF FailJob, FallbackWrites, WriteRow, Goto, FallbackFails, row, others, BeingEnded
<1>11. ASSUME WipeDraft, late' = (late \/ BeingEnded) PROVE StaysEnded'
  BY <1>11 DEF WipeDraft, FallbackWrites, WriteRow, FallbackFails, row, Goto, others,
     BeingEnded
<1>12. ASSUME Persist, late' = (late \/ BeingEnded) PROVE StaysEnded'
  BY <1>12 DEF Persist, Writes, WriteRow, Goto, others, BeingEnded
<1>13. ASSUME Clear, late' = (late \/ BeingEnded) PROVE StaysEnded'
  BY <1>13 DEF Clear, Writes, WriteRow, Goto, others, BeingEnded
<1>14. ASSUME Post, late' = (late \/ BeingEnded) PROVE StaysEnded'
  BY <1>14 DEF Post, Writes, WriteRow, WriteFails, row, Goto, others, BeingEnded
<1>15. ASSUME Release, late' = (late \/ BeingEnded) PROVE StaysEnded'
  BY <1>15 DEF Release, Goto, row, WriteRow, others, BeingEnded
<1>16. ASSUME EndTicket, late' = (late \/ BeingEnded) PROVE StaysEnded'
  BY <1>16 DEF EndTicket, WriteRow, row, Goto, others, BeingEnded
<1>17. ASSUME StopElsewhere, UNCHANGED late PROVE StaysEnded'
  BY <1>17 DEF StopElsewhere, Cancelled, WriteRow, WorkerLives, worker, others
<1>18. ASSUME ShutdownBegin, UNCHANGED late PROVE StaysEnded'
  BY <1>18 DEF ShutdownBegin, Begin, NotesRaced, row, worker
<1>19. ASSUME ShutdownFinalize, UNCHANGED late PROVE StaysEnded'
  BY <1>19 DEF ShutdownFinalize, Commit, Consumes, Taken, WriteRow, row, NotRead, Abandon,
     worker
<1>20. ASSUME ShutdownMark, UNCHANGED late PROVE StaysEnded'
  BY <1>20 DEF ShutdownMark, WriteRow, worker, history
<1>21. ASSUME Crash, UNCHANGED late PROVE StaysEnded'
  BY <1>21 DEF Crash, WorkerLives, Goto, worker, NotRead, NotesUnrecorded, row
<1>22. ASSUME ReapBegin, UNCHANGED late PROVE StaysEnded'
  BY <1>22 DEF ReapBegin, Begin, NotesRaced, row, worker
<1>23. ASSUME ReapFinalize, UNCHANGED late PROVE StaysEnded'
  BY <1>23 DEF ReapFinalize, Commit, Consumes, Taken, WriteRow, row, NotRead, Abandon, worker
<1>24. ASSUME ReapRest, UNCHANGED late PROVE StaysEnded'
  BY <1>24 DEF ReapRest, WriteRow, row, worker, history
<1> QED
  BY <1>1, <1>2, <1>3, <1>4, <1>5, <1>6, <1>7, <1>8, <1>9, <1>10, <1>11, <1>12, <1>13, <1>14,
     <1>15, <1>16, <1>17, <1>18, <1>19, <1>20, <1>21, <1>22, <1>23, <1>24 DEF Next, Turn,
     Outside

\* Nobody begins on a draft after an answer.
LEMMA StepUnanswered ==
  ASSUME late => late', torn \subseteq torn', OpenByLabel, ReadTyped, NothingSaidEarly,
         DraftUnanswered, [Next]_vars
  PROVE  DraftUnanswered'
<1> USE DEF DraftUnanswered, NothingSaidEarly, TwoAnswers, Unrecorded, ReadTyped, NotRead,
        Finalizers, OpenByLabel, NoDraft, Early
<1>1. CASE UNCHANGED <<shut, reap, draft, msgs, read>>
  BY <1>1 DEF DraftUnanswered
<1>2. ASSUME Call \/ Answer \/ SaveReplyFails \/ SettleTicket \/ SaveChain \/ Drop \/
            RecordFails \/ StopHere \/ Watch \/ Age \/ UNCHANGED vars
      PROVE  UNCHANGED <<shut, reap, draft, msgs, read>>
  BY <1>2 DEF Call, row, others, Answer, chat, SaveReplyFails, SettleTicket, SaveChain, Drop,
     RecordFails, StopHere, Watch, Age, vars
<1>3. ASSUME Start, late' = (late \/ BeingEnded) PROVE DraftUnanswered'
  BY <1>3 DEF Start, Writes, NoFault, WriteRow, Goto, WriteFails, Fault, row, chat, others,
     BeingEnded
<1>4. ASSUME NextStep, late' = (late \/ BeingEnded) PROVE DraftUnanswered'
  BY <1>4 DEF NextStep, SaveDraft, WriteRow, NoFault, Fault, row, chat, others, BeingEnded
<1>5. ASSUME RunFails, late' = (late \/ BeingEnded) PROVE DraftUnanswered'
  BY <1>5 DEF RunFails, SaveDraft, WriteRow, NoFault, Fault, row, Goto, chat, others,
     BeingEnded
<1>6. ASSUME AnswerRefusal, late' = (late \/ BeingEnded) PROVE DraftUnanswered'
  BY <1>6 DEF AnswerRefusal, NoFault, Fault, Spend, Goto, row, others, BeingEnded
<1>7. ASSUME SaveReply, late' = (late \/ BeingEnded) PROVE DraftUnanswered'
  BY <1>7 DEF SaveReply, Goto, NoFault, row, others, BeingEnded
<1>8. ASSUME SettleUser, late' = (late \/ BeingEnded) PROVE DraftUnanswered'
  BY <1>8 DEF SettleUser, Begin, worker, Goto, row, chat, others, history, BeingEnded
<1>9. ASSUME SelectTicket, late' = (late \/ BeingEnded) PROVE DraftUnanswered'
  BY <1>9 DEF SelectTicket, Begin, worker, Goto, row, chat, others, history, BeingEnded
<1>10. ASSUME Finalize, late' = (late \/ BeingEnded) PROVE DraftUnanswered'
  BY <1>10 DEF Finalize, Commit, Consumes, Taken, WriteRow, row, NotRead, worker, Goto, others,
     history, BeingEnded
<1>11. ASSUME FinalizeFails, late' = (late \/ BeingEnded) PROVE DraftUnanswered'
  BY <1>11 DEF FinalizeFails, Abandon, NotRead, worker, Fault, Goto, row, chat, others,
     BeingEnded
<1>12. ASSUME FailJob, late' = (late \/ BeingEnded) PROVE DraftUnanswered'
  BY <1>12 DEF FailJob, FallbackWrites, NoFault, WriteRow, Goto, FallbackFails, Fault, row,
     chat, others, BeingEnded
<1>13. ASSUME WipeDraft, late' = (late \/ BeingEnded) PROVE DraftUnanswered'
  BY <1>13 DEF WipeDraft, FallbackWrites, NoFault, WriteRow, FallbackFails, Fault, row, Goto,
     others, BeingEnded
<1>14. ASSUME Persist, late' = (late \/ BeingEnded) PROVE DraftUnanswered'
  BY <1>14 DEF Persist, Writes, NoFault, WriteRow, Reply, Goto, chat, others, BeingEnded
<1>15. ASSUME Clear, late' = (late \/ BeingEnded) PROVE DraftUnanswered'
  BY <1>15 DEF Clear, Writes, NoFault, WriteRow, Goto, chat, others, BeingEnded
<1>16. ASSUME Post, late' = (late \/ BeingEnded) PROVE DraftUnanswered'
  BY <1>16 DEF Post, Writes, NoFault, WriteRow, Reply, WriteFails, Fault, row, Goto, chat,
     others, BeingEnded
<1>17. ASSUME Release, late' = (late \/ BeingEnded) PROVE DraftUnanswered'
  BY <1>17 DEF Release, Goto, row, NoFault, WriteRow, Fault, chat, others, BeingEnded
<1>18. ASSUME EndTicket, late' = (late \/ BeingEnded) PROVE DraftUnanswered'
  BY <1>18 DEF EndTicket, WriteRow, NoFault, Fault, row, Goto, chat, others, BeingEnded
<1>19. ASSUME StopElsewhere, UNCHANGED late PROVE DraftUnanswered'
  BY <1>19 DEF StopElsewhere, Cancelled, WriteRow, WorkerLives, chat, worker, others
<1>20. ASSUME BeginShutdown, UNCHANGED late PROVE DraftUnanswered'
  BY <1>20 DEF BeginShutdown, WorkerLives, NotesUnrecorded, row, chat, worker
<1>21. ASSUME ShutdownSelect, UNCHANGED late PROVE DraftUnanswered'
  BY <1>21 DEF ShutdownSelect, row, chat, worker, history
<1>22. ASSUME ShutdownBegin, UNCHANGED late PROVE DraftUnanswered'
  BY <1>22 DEF ShutdownBegin, Begin, NotesRaced, row, chat, worker
<1>23. ASSUME ShutdownFinalize, UNCHANGED late PROVE DraftUnanswered'
  BY <1>23 DEF ShutdownFinalize, Commit, Consumes, Taken, WriteRow, row, NotRead, NoFault,
     Abandon, Fault, chat, worker
<1>24. ASSUME ShutdownMark, UNCHANGED late PROVE DraftUnanswered'
  BY <1>24 DEF ShutdownMark, WriteRow, chat, worker, history
<1>25. ASSUME Crash, UNCHANGED late PROVE DraftUnanswered'
  BY <1>25 DEF Crash, WorkerLives, Goto, worker, NotRead, NotesUnrecorded, row, chat
<1>26. ASSUME ReapList, UNCHANGED late PROVE DraftUnanswered'
  BY <1>26 DEF ReapList, Abandoned, NotesUnrecorded, row, chat, worker
<1>27. ASSUME ReapSelect, UNCHANGED late PROVE DraftUnanswered'
  BY <1>27 DEF ReapSelect, row, chat, worker, history
<1>28. ASSUME ReapBegin, UNCHANGED late PROVE DraftUnanswered'
  BY <1>28 DEF ReapBegin, Begin, NotesRaced, row, chat, worker
<1>29. ASSUME ReapFinalize, UNCHANGED late PROVE DraftUnanswered'
  BY <1>29 DEF ReapFinalize, Commit, Consumes, Taken, WriteRow, row, NotRead, NoFault,
     Abandon, Fault, chat, worker
<1>30. ASSUME ReapRest, UNCHANGED late PROVE DraftUnanswered'
  BY <1>30 DEF ReapRest, WriteRow, row, chat, worker, history
<1> QED
  BY <1>1, <1>2, <1>3, <1>4, <1>5, <1>6, <1>7, <1>8, <1>9, <1>10, <1>11, <1>12, <1>13, <1>14,
     <1>15, <1>16, <1>17, <1>18, <1>19, <1>20, <1>21, <1>22, <1>23, <1>24, <1>25, <1>26, <1>27,
     <1>28, <1>29, <1>30 DEF Next, Turn, Outside

\* No step answers twice.
LEMMA StepOneAnswer ==
  ASSUME late => late', torn \subseteq torn', OpenByLabel, NothingSaidEarly, DraftUnanswered,
         OneAnswer, msgs' # msgs /\ Len(msgs') > 1 => msgs # <<>>, [Next]_vars
  PROVE  OneAnswer'
<1> USE DEF DraftUnanswered, NothingSaidEarly, TwoAnswers, Unrecorded, OneAnswer, Finalizers,
        OpenByLabel, NoDraft, Early
<1>1. CASE UNCHANGED <<msgs>>
  BY <1>1 DEF OneAnswer
<1>2. ASSUME Start \/ Call \/ NextStep \/ Answer \/ RunFails \/ SaveReplyFails \/ SettleUser
            \/ SettleTicket \/ SelectTicket \/ FinalizeFails \/ FailJob \/ WipeDraft \/
            SaveChain \/ Persist \/ Clear \/ Drop \/ RecordFails \/ Post \/ Release \/
            EndTicket \/ StopHere \/ StopElsewhere \/ Watch \/ BeginShutdown \/ ShutdownSelect
            \/ ShutdownBegin \/ ShutdownMark \/ Crash \/ Age \/ ReapList \/ ReapSelect \/
            ReapBegin \/ ReapRest \/ UNCHANGED vars
      PROVE  UNCHANGED <<msgs>>
  BY <1>2 DEF Start, chat, Call, NextStep, Answer, RunFails, SaveReplyFails, SettleUser,
     SettleTicket, SelectTicket, FinalizeFails, FailJob, WipeDraft, SaveChain, Persist, Clear,
     Drop, RecordFails, Post, Release, EndTicket, StopHere, StopElsewhere, Watch,
     BeginShutdown, ShutdownSelect, ShutdownBegin, ShutdownMark, Crash, Age, ReapList,
     ReapSelect, ReapBegin, ReapRest, vars
<1>3. ASSUME AnswerRefusal, late' = (late \/ BeingEnded) PROVE OneAnswer'
  BY <1>3 DEF AnswerRefusal, NoFault, Fault, Spend, Goto, row, others, BeingEnded
<1>4. ASSUME SaveReply, late' = (late \/ BeingEnded) PROVE OneAnswer'
  BY <1>4 DEF SaveReply, Goto, NoFault, row, others, BeingEnded
<1>5. ASSUME Finalize, late' = (late \/ BeingEnded) PROVE OneAnswer'
  BY <1>5 DEF Finalize, Commit, Consumes, Taken, WriteRow, row, NotRead, worker, Goto, others,
     history, BeingEnded
<1>6. ASSUME ShutdownFinalize, UNCHANGED late PROVE OneAnswer'
  BY <1>6 DEF ShutdownFinalize, Commit, Consumes, Taken, WriteRow, row, NotRead, NoFault,
     Abandon, Fault, chat, worker
<1>7. ASSUME ReapFinalize, UNCHANGED late PROVE OneAnswer'
  BY <1>7 DEF ReapFinalize, Commit, Consumes, Taken, WriteRow, row, NotRead, NoFault, Abandon,
     Fault, chat, worker
<1> QED
  BY <1>1, <1>2, <1>3, <1>4, <1>5, <1>6, <1>7 DEF Next, Turn, Outside


\* What was lost stays lost.
LEMMA LossyStays ==
  ASSUME late => late', torn \subseteq torn'
  PROVE  Lossy => Lossy'
BY DEF Lossy

\* A transaction that reads a draft reads work that was noted.
LEMMA ReadAreNoted ==
  ASSUME RowsAreOfCalls, NotedIsOnJob, msgs = <<>>, NEW p \in Finalizers, read[p].draft # NoDraft
  PROVE  OnTheJob \/ made = {}
BY DEF RowsAreOfCalls, NotedIsOnJob

\* What a transaction takes are the calls that were made.
LEMMA CommitCalls ==
  ASSUME NEW p \in Finalizers, Commit(p), ChatTyped, ReadTyped, WorkerTyped, AnsweredHasCalls,
         msgs = <<>> /\ read[p].draft # NoDraft => OnTheJob \/ made = {}, UNCHANGED made
  PROVE  AnsweredHasCalls'
<1>1. CASE Consumes(read[p])
  <2>1. /\ home' = [c \in Calls |-> IF home[c] = OnJob THEN Len(msgs) + 1 ELSE home[c]]
        /\ read[p].draft # NoDraft
    BY <1>1, CommitCases DEF Consumes
  <2>2. \A c \in made : home[c] = OnJob \/ home[c] > 0
    BY <2>1 DEF AnsweredHasCalls, OnTheJob
  <2>3. Len(msgs) + 1 > 0
    BY DEF ChatTyped
  <2> QED
    BY <2>1, <2>2, <2>3 DEF AnsweredHasCalls, WorkerTyped
<1>2. CASE ~Consumes(read[p])
  <2>1. msgs' = msgs /\ home' = Dropped
    BY <1>2, CommitCases
  <2> QED
    BY <2>1 DEF AnsweredHasCalls, Dropped, OnJob, WorkerTyped
<1> QED
  BY <1>1, <1>2

\* A transaction that finds noted work and says nothing had nothing to say.
LEMMA CommitNoted ==
  ASSUME NEW p \in Finalizers, Commit(p), ChatTyped, ReadTyped, RowTyped, WorkerTyped, ReadsAreOld,
         NotedIsOnJob, ReadIsDraft, msgs' = <<>>, noted # NoDraft
  PROVE  draft' = NoDraft /\ noted = 0 /\ made = {}
<1>1. ~Consumes(read[p]) /\ msgs = <<>> /\ read[p].open
  <2>1. Append(msgs, "partial") # <<>>
    BY DEF ChatTyped
  <2> QED
    BY <2>1, CommitCases
<1>2. CASE draft = NoDraft
  BY <1>1, <1>2, CommitCases DEF NotedIsOnJob, row
<1>3. CASE draft # NoDraft
  <2>1. draft = noted /\ \A c \in made : home[c] = OnJob
    BY <1>1, <1>3 DEF NotedIsOnJob, OnTheJob
  <2>2. read[p].draft = draft
    BY <1>1, <1>3 DEF ReadIsDraft
  <2>3. read[p].result = 0
    BY <1>1 DEF ReadsAreOld
  <2>4. ~(read[p].draft > 0) /\ \A c \in Calls : home[c] # OnJob
    BY <1>1, <1>3, <2>2, <2>3 DEF Consumes
  <2>5. made = {}
    BY <2>1, <2>4 DEF WorkerTyped
  <2>6. noted = 0
    BY <1>3, <2>1, <2>2, <2>4 DEF RowTyped, NoDraft
  <2>7. draft' = NoDraft
    BY <1>1, <1>3, <2>2, CommitCases
  <2> QED
    BY <2>5, <2>6, <2>7
<1> QED
  BY <1>2, <1>3
\* A row is ended under a worker at work only by those who end its turn.
LEMMA StepEarlyStatus ==
  ASSUME late => late', torn \subseteq torn', OutcomeByLabel, EarlyStatus, [Next]_vars
  PROVE  EarlyStatus'
<1> USE DEF EarlyStatus, Early, Recording, Ended, Blocking, Terminal, OutcomeByLabel
<1>1. CASE UNCHANGED <<pc, status, shut, reap>>
  BY <1>1 DEF EarlyStatus
<1>2. ASSUME Call \/ StopHere \/ Watch \/ Age \/ UNCHANGED vars
      PROVE  UNCHANGED <<pc, status, shut, reap>>
  BY <1>2 DEF Call, row, others, StopHere, Watch, Age, worker, vars
<1>3. ASSUME Start, late' = (late \/ BeingEnded) PROVE EarlyStatus'
  BY <1>3 DEF Start, Writes, WriteRow, Goto, WriteFails, row, others, BeingEnded
<1>4. ASSUME NextStep, late' = (late \/ BeingEnded) PROVE EarlyStatus'
  BY <1>4 DEF NextStep, SaveDraft, WriteRow, row, others, BeingEnded
<1>5. ASSUME Answer, late' = (late \/ BeingEnded) PROVE EarlyStatus'
  BY <1>5 DEF Answer, Goto, row, others, history, BeingEnded
<1>6. ASSUME RunFails, late' = (late \/ BeingEnded) PROVE EarlyStatus'
  BY <1>6 DEF RunFails, SaveDraft, WriteRow, row, Goto, others, BeingEnded
<1>7. ASSUME AnswerRefusal, late' = (late \/ BeingEnded) PROVE EarlyStatus'
  BY <1>7 DEF AnswerRefusal, NoFault, Fault, Spend, Goto, row, others, BeingEnded
<1>8. ASSUME SaveReply, late' = (late \/ BeingEnded) PROVE EarlyStatus'
  BY <1>8 DEF SaveReply, RowsClash, Goto, row, others, BeingEnded
<1>9. ASSUME SaveReplyFails, late' = (late \/ BeingEnded) PROVE EarlyStatus'
  BY <1>9 DEF SaveReplyFails, RowsClash, Goto, row, others, BeingEnded
<1>10. ASSUME SettleUser, late' = (late \/ BeingEnded) PROVE EarlyStatus'
  BY <1>10 DEF SettleUser, Verdict, Begin, worker, Goto, row, others, history, BeingEnded
<1>11. ASSUME SettleTicket, late' = (late \/ BeingEnded) PROVE EarlyStatus'
  BY <1>11 DEF SettleTicket, Verdict, Goto, row, others, history, BeingEnded
<1>12. ASSUME SelectTicket, late' = (late \/ BeingEnded) PROVE EarlyStatus'
  BY <1>12 DEF SelectTicket, Begin, worker, Goto, row, others, history, BeingEnded
<1>13. ASSUME Finalize, late' = (late \/ BeingEnded) PROVE EarlyStatus'
  BY <1>13 DEF Finalize, Commit, Consumes, Taken, WriteRow, row, NotRead, worker, Goto,
     others, history, BeingEnded
<1>14. ASSUME FinalizeFails, late' = (late \/ BeingEnded) PROVE EarlyStatus'
  BY <1>14 DEF FinalizeFails, Abandon, NotRead, worker, Goto, row, others, BeingEnded
<1>15. ASSUME FailJob, late' = (late \/ BeingEnded) PROVE EarlyStatus'
  BY <1>15 DEF FailJob, FallbackWrites, WriteRow, Goto, FallbackFails, row, others, BeingEnded
<1>16. ASSUME WipeDraft, late' = (late \/ BeingEnded) PROVE EarlyStatus'
  BY <1>16 DEF WipeDraft, FallbackWrites, WriteRow, FallbackFails, row, Goto, others,
     BeingEnded
<1>17. ASSUME SaveChain, late' = (late \/ BeingEnded) PROVE EarlyStatus'
  BY <1>17 DEF SaveChain, Goto, row, others, BeingEnded
<1>18. ASSUME Persist, late' = (late \/ BeingEnded) PROVE EarlyStatus'
  BY <1>18 DEF Persist, Writes, WriteRow, Goto, others, BeingEnded
<1>19. ASSUME Clear, late' = (late \/ BeingEnded) PROVE EarlyStatus'
  BY <1>19 DEF Clear, Writes, WriteRow, Goto, others, BeingEnded
<1>20. ASSUME Drop, late' = (late \/ BeingEnded) PROVE EarlyStatus'
  BY <1>20 DEF Drop, Writes, Goto, row, others, BeingEnded
<1>21. ASSUME RecordFails, late' = (late \/ BeingEnded) PROVE EarlyStatus'
  BY <1>21 DEF RecordFails, WriteFails, Goto, row, others, BeingEnded
<1>22. ASSUME Post, late' = (late \/ BeingEnded) PROVE EarlyStatus'
  BY <1>22 DEF Post, Writes, WriteRow, WriteFails, row, Goto, others, BeingEnded
<1>23. ASSUME Release, late' = (late \/ BeingEnded) PROVE EarlyStatus'
  BY <1>23 DEF Release, Goto, row, WriteRow, others, BeingEnded
<1>24. ASSUME EndTicket, late' = (late \/ BeingEnded) PROVE EarlyStatus'
  BY <1>24 DEF EndTicket, WriteRow, row, Goto, others, BeingEnded
<1>25. ASSUME StopElsewhere, UNCHANGED late PROVE EarlyStatus'
  BY <1>25 DEF StopElsewhere, Cancelled, WriteRow, WorkerLives, worker, others
<1>26. ASSUME BeginShutdown, UNCHANGED late PROVE EarlyStatus'
  BY <1>26 DEF BeginShutdown, WorkerLives, row, worker
<1>27. ASSUME ShutdownSelect, UNCHANGED late PROVE EarlyStatus'
  BY <1>27 DEF ShutdownSelect, row, worker, history
<1>28. ASSUME ShutdownBegin, UNCHANGED late PROVE EarlyStatus'
  BY <1>28 DEF ShutdownBegin, Begin, row, worker
<1>29. ASSUME ShutdownFinalize, UNCHANGED late PROVE EarlyStatus'
  BY <1>29 DEF ShutdownFinalize, Commit, Consumes, Taken, WriteRow, row, NotRead, Abandon,
     worker
<1>30. ASSUME ShutdownMark, UNCHANGED late PROVE EarlyStatus'
  BY <1>30 DEF ShutdownMark, WriteRow, worker, history
<1>31. ASSUME Crash, UNCHANGED late PROVE EarlyStatus'
  BY <1>31 DEF Crash, WorkerLives, Goto, worker, NotRead, row
<1>32. ASSUME ReapList, UNCHANGED late PROVE EarlyStatus'
  BY <1>32 DEF ReapList, Abandoned, row, worker
<1>33. ASSUME ReapSelect, UNCHANGED late PROVE EarlyStatus'
  BY <1>33 DEF ReapSelect, row, worker, history
<1>34. ASSUME ReapBegin, UNCHANGED late PROVE EarlyStatus'
  BY <1>34 DEF ReapBegin, Begin, row, worker
<1>35. ASSUME ReapFinalize, UNCHANGED late PROVE EarlyStatus'
  BY <1>35 DEF ReapFinalize, Commit, Consumes, Taken, WriteRow, row, NotRead, Abandon, worker
<1>36. ASSUME ReapRest, UNCHANGED late PROVE EarlyStatus'
  BY <1>36 DEF ReapRest, WriteRow, row, worker, history
<1> QED
  BY <1>1, <1>2, <1>3, <1>4, <1>5, <1>6, <1>7, <1>8, <1>9, <1>10, <1>11, <1>12, <1>13, <1>14,
     <1>15, <1>16, <1>17, <1>18, <1>19, <1>20, <1>21, <1>22, <1>23, <1>24, <1>25, <1>26, <1>27,
     <1>28, <1>29, <1>30, <1>31, <1>32, <1>33, <1>34, <1>35, <1>36 DEF Next, Turn, Outside

\* Only a failed write takes the way without a partial reply.
LEMMA StepFallback ==
  ASSUME ChatTyped, ~Lossy, ~Lossy', NoFallback, [Next]_vars
  PROVE  NoFallback'
<1> USE DEF NoFallback, Recording, Ended, ChatTyped, Lossy, Finalizers, NoDraft, NoRow, OnJob
<1>1. CASE UNCHANGED <<pc, msgs>>
  BY <1>1 DEF NoFallback
<1>2. ASSUME Call \/ NextStep \/ StopHere \/ StopElsewhere \/ Watch \/ BeginShutdown \/
            ShutdownSelect \/ ShutdownBegin \/ ShutdownMark \/ Age \/ ReapList \/ ReapSelect
            \/ ReapBegin \/ ReapRest \/ UNCHANGED vars
      PROVE  UNCHANGED <<pc, msgs>>
  BY <1>2 DEF Call, NextStep, chat, StopHere, StopElsewhere, worker, Watch, BeginShutdown,
     ShutdownSelect, ShutdownBegin, ShutdownMark, Age, ReapList, ReapSelect, ReapBegin,
     ReapRest, vars
<1>3. ASSUME Start, late' = (late \/ BeingEnded) PROVE NoFallback'
  BY <1>3 DEF Start, Writes, NoFault, WriteRow, Goto, WriteFails, Fault, row, chat, BeingEnded
<1>4. ASSUME Answer, late' = (late \/ BeingEnded) PROVE NoFallback'
  BY <1>4 DEF Answer, Goto, row, chat, history, BeingEnded
<1>5. ASSUME RunFails, late' = (late \/ BeingEnded) PROVE NoFallback'
  BY <1>5 DEF RunFails, SaveDraft, WriteRow, NoFault, Fault, row, Goto, chat, BeingEnded
<1>6. ASSUME AnswerRefusal, late' = (late \/ BeingEnded) PROVE NoFallback'
  BY <1>6 DEF AnswerRefusal, NoFault, Fault, Spend, Goto, row, others, BeingEnded
<1>7. ASSUME SaveReply, late' = (late \/ BeingEnded) PROVE NoFallback'
  BY <1>7 DEF SaveReply, RowsClash, Goto, NoFault, row, BeingEnded
<1>8. ASSUME SaveReplyFails, late' = (late \/ BeingEnded) PROVE NoFallback'
  BY <1>8 DEF SaveReplyFails, RowsClash, NoFault, Fault, Goto, row, chat, BeingEnded
<1>9. ASSUME SettleUser, late' = (late \/ BeingEnded) PROVE NoFallback'
  BY <1>9 DEF SettleUser, Begin, worker, Goto, row, chat, history, BeingEnded
<1>10. ASSUME SettleTicket, late' = (late \/ BeingEnded) PROVE NoFallback'
  BY <1>10 DEF SettleTicket, Goto, row, chat, history, BeingEnded
<1>11. ASSUME SelectTicket, late' = (late \/ BeingEnded) PROVE NoFallback'
  BY <1>11 DEF SelectTicket, Begin, worker, Goto, row, chat, history, BeingEnded
<1>12. ASSUME Finalize, late' = (late \/ BeingEnded) PROVE NoFallback'
  BY <1>12 DEF Finalize, Commit, Consumes, Taken, Dropped, WriteRow, row, NotRead, worker,
     Goto, history, BeingEnded
<1>13. ASSUME FinalizeFails, late' = (late \/ BeingEnded) PROVE NoFallback'
  BY <1>13 DEF FinalizeFails, Abandon, NotRead, worker, Fault, Goto, row, chat, BeingEnded
<1>14. ASSUME FailJob, late' = (late \/ BeingEnded) PROVE NoFallback'
  BY <1>14 DEF FailJob, FallbackWrites, NoFault, WriteRow, Goto, FallbackFails, Fault, row,
     chat, BeingEnded
<1>15. ASSUME WipeDraft, late' = (late \/ BeingEnded) PROVE NoFallback'
  BY <1>15 DEF WipeDraft, FallbackWrites, NoFault, WriteRow, Dropped, FallbackFails, Fault,
     row, Goto, BeingEnded
<1>16. ASSUME SaveChain, late' = (late \/ BeingEnded) PROVE NoFallback'
  BY <1>16 DEF SaveChain, NoFault, Goto, Fault, row, chat, BeingEnded
<1>17. ASSUME Persist, late' = (late \/ BeingEnded) PROVE NoFallback'
  BY <1>17 DEF Persist, Writes, NoFault, WriteRow, Reply, Goto, chat, BeingEnded
<1>18. ASSUME Clear, late' = (late \/ BeingEnded) PROVE NoFallback'
  BY <1>18 DEF Clear, Writes, NoFault, WriteRow, Goto, chat, BeingEnded
<1>19. ASSUME Drop, late' = (late \/ BeingEnded) PROVE NoFallback'
  BY <1>19 DEF Drop, Writes, NoFault, Dropped, Goto, row, BeingEnded
<1>20. ASSUME RecordFails, late' = (late \/ BeingEnded) PROVE NoFallback'
  BY <1>20 DEF RecordFails, WriteFails, Fault, Goto, row, chat, BeingEnded
<1>21. ASSUME Post, late' = (late \/ BeingEnded) PROVE NoFallback'
  BY <1>21 DEF Post, Writes, NoFault, WriteRow, Reply, WriteFails, Fault, row, Goto, chat,
     BeingEnded
<1>22. ASSUME Release, late' = (late \/ BeingEnded) PROVE NoFallback'
  BY <1>22 DEF Release, Goto, row, NoFault, WriteRow, Fault, chat, BeingEnded
<1>23. ASSUME EndTicket, late' = (late \/ BeingEnded) PROVE NoFallback'
  BY <1>23 DEF EndTicket, WriteRow, NoFault, Fault, row, Goto, chat, BeingEnded
<1>24. ASSUME ShutdownFinalize, UNCHANGED late PROVE NoFallback'
  BY <1>24 DEF ShutdownFinalize, Commit, Consumes, Taken, Dropped, WriteRow, row, NotRead,
     NoFault, Abandon, Fault, chat, worker
<1>25. ASSUME Crash, UNCHANGED late PROVE NoFallback'
  BY <1>25 DEF Crash, WorkerLives, Goto, worker, NotRead, NotesUnrecorded, row, chat
<1>26. ASSUME ReapFinalize, UNCHANGED late PROVE NoFallback'
  BY <1>26 DEF ReapFinalize, Commit, Consumes, Taken, Dropped, WriteRow, row, NotRead,
     NoFault, Abandon, Fault, chat, worker
<1> QED
  BY <1>1, <1>2, <1>3, <1>4, <1>5, <1>6, <1>7, <1>8, <1>9, <1>10, <1>11, <1>12, <1>13, <1>14,
     <1>15, <1>16, <1>17, <1>18, <1>19, <1>20, <1>21, <1>22, <1>23, <1>24, <1>25, <1>26 DEF Next,
     Turn, Outside

\* An answer takes every call.
LEMMA StepAnswered ==
  ASSUME ChatTyped, RowTyped, WorkerTyped, RowsAreOfCalls, ReadTyped, ReadsAreOld, ~Lossy,
         ~Lossy', NothingSaidEarly, AnsweredHasCalls, WorkingIsOnJob, NotedIsOnJob,
         ReadIsDraft, NoFallback, [Next]_vars
  PROVE  AnsweredHasCalls'
<1> USE Bound DEF AnsweredHasCalls, NoFallback, OnTheJob, Recording, Early, Ended, ChatTyped,
        WorkerTyped, Calls, Lossy, Finalizers, NoDraft, NoRow, OnJob
<1>1. CASE UNCHANGED <<msgs, made, home>>
  BY <1>1 DEF AnsweredHasCalls
<1>2. ASSUME Start \/ NextStep \/ Answer \/ RunFails \/ SaveReplyFails \/ SettleUser \/
            SettleTicket \/ SelectTicket \/ FinalizeFails \/ FailJob \/ SaveChain \/ Persist
            \/ Clear \/ RecordFails \/ Post \/ Release \/ EndTicket \/ StopHere \/
            StopElsewhere \/ Watch \/ BeginShutdown \/ ShutdownSelect \/ ShutdownBegin \/
            ShutdownMark \/ Crash \/ Age \/ ReapList \/ ReapSelect \/ ReapBegin \/ ReapRest \/
            UNCHANGED vars
      PROVE  UNCHANGED <<msgs, made, home>>
  BY <1>2 DEF Start, chat, NextStep, Answer, RunFails, SaveReplyFails, SettleUser, worker,
     SettleTicket, SelectTicket, FinalizeFails, FailJob, SaveChain, Persist, Clear,
     RecordFails, Post, Release, EndTicket, StopHere, StopElsewhere, Watch, BeginShutdown,
     ShutdownSelect, ShutdownBegin, ShutdownMark, Crash, Age, ReapList, ReapSelect, ReapBegin,
     ReapRest, vars
<1>3. ASSUME Call, late' = (late \/ BeingEnded) PROVE AnsweredHasCalls'
  <2>1. pc \in Early /\ ~BeingEnded /\ UNCHANGED msgs
    BY <1>3 DEF Call, Early, Lossy
  <2>2. msgs = <<>>
    BY <2>1 DEF NothingSaidEarly, Unrecorded, Lossy, BeingEnded
  <2> QED
    BY <2>1, <2>2 DEF AnsweredHasCalls
<1>4. ASSUME AnswerRefusal, late' = (late \/ BeingEnded) PROVE AnsweredHasCalls'
  BY <1>4 DEF AnswerRefusal, NoFault, Fault, Spend, Goto, row, others, BeingEnded
<1>5. ASSUME SaveReply, late' = (late \/ BeingEnded) PROVE AnsweredHasCalls'
  BY <1>5 DEF SaveReply, RowsClash, Goto, NoFault, row, BeingEnded
<1>6. ASSUME Finalize, late' = (late \/ BeingEnded) PROVE AnsweredHasCalls'
  <2>0. pc \in Early /\ ~BeingEnded /\ UNCHANGED <<made, noted>>
    BY <1>6 DEF Finalize, Early, Lossy, history
  <2>1. msgs = <<>> /\ OnTheJob
    BY <2>0 DEF NothingSaidEarly, Unrecorded, Lossy, BeingEnded, WorkingIsOnJob
  <2> QED
    BY <1>6, <2>0, <2>1, CommitCalls, FinalizersAre DEF Finalize
<1>7. ASSUME WipeDraft, late' = (late \/ BeingEnded) PROVE AnsweredHasCalls'
  BY <1>7 DEF WipeDraft, FallbackWrites, NoFault, WriteRow, Dropped, FallbackFails, Fault,
     row, Goto, BeingEnded
<1>8. ASSUME Drop, late' = (late \/ BeingEnded) PROVE AnsweredHasCalls'
  BY <1>8 DEF Drop, Writes, NoFault, Dropped, Goto, row, BeingEnded
<1>9. ASSUME ShutdownFinalize, UNCHANGED late PROVE AnsweredHasCalls'
  <2>1. UNCHANGED made
    BY <1>9 DEF ShutdownFinalize, worker
  <2>2. CASE Commit("shutdown")
    BY <2>1, <2>2, CommitCalls, FinalizersAre, ReadAreNoted
  <2>3. CASE UNCHANGED <<row, chat>>
    BY <2>1, <2>3 DEF chat, AnsweredHasCalls
  <2> QED
    BY <1>9, <2>2, <2>3 DEF ShutdownFinalize
<1>10. ASSUME ReapFinalize, UNCHANGED late PROVE AnsweredHasCalls'
  <2>1. UNCHANGED made
    BY <1>10 DEF ReapFinalize, worker
  <2>2. CASE Commit("reaper")
    BY <2>1, <2>2, CommitCalls, FinalizersAre, ReadAreNoted
  <2>3. CASE UNCHANGED <<row, chat>>
    BY <2>1, <2>3 DEF chat, AnsweredHasCalls
  <2> QED
    BY <1>10, <2>2, <2>3 DEF ReapFinalize
<1> QED
  BY <1>1, <1>2, <1>3, <1>4, <1>5, <1>6, <1>7, <1>8, <1>9, <1>10 DEF Next, Turn, Outside

\* Until the answer the work is on the job.
LEMMA StepWorking ==
  ASSUME ChatTyped, WorkerTyped, OutcomeByLabel, RowsAreOfCalls, ~Lossy, ~Lossy',
         WorkingIsOnJob, NoFallback, [Next]_vars
  PROVE  WorkingIsOnJob'
<1> USE Bound DEF WorkingIsOnJob, NoFallback, OnTheJob, Recording, Early, Ended, ChatTyped,
        WorkerTyped, Calls, OutcomeByLabel, RowsAreOfCalls, Lossy, Finalizers, NoDraft, NoRow,
        OnJob
<1>1. CASE UNCHANGED <<pc, msgs, draft, noted, made, home, shut, reap>>
  BY <1>1 DEF WorkingIsOnJob
<1>2. ASSUME StopHere \/ Watch \/ Age \/ UNCHANGED vars
      PROVE  UNCHANGED <<pc, msgs, draft, noted, made, home, shut, reap>>
  BY <1>2 DEF StopHere, row, chat, others, history, Watch, Age, worker, vars
<1>3. ASSUME Start, late' = (late \/ BeingEnded) PROVE WorkingIsOnJob'
  BY <1>3 DEF Start, Writes, NoFault, WriteRow, Goto, WriteFails, Fault, Spend, row, chat,
     others, BeingEnded
<1>4. ASSUME Call, late' = (late \/ BeingEnded) PROVE WorkingIsOnJob'
  BY <1>4 DEF Call, NoFault, Fault, row, others, BeingEnded
<1>5. ASSUME NextStep, late' = (late \/ BeingEnded) PROVE WorkingIsOnJob'
  BY <1>5 DEF NextStep, SaveDraft, WriteRow, NoFault, Fault, row, chat, others, BeingEnded
<1>6. ASSUME Answer, late' = (late \/ BeingEnded) PROVE WorkingIsOnJob'
  BY <1>6 DEF Answer, Goto, row, chat, others, history, BeingEnded
<1>7. ASSUME RunFails, late' = (late \/ BeingEnded) PROVE WorkingIsOnJob'
  BY <1>7 DEF RunFails, SaveDraft, WriteRow, NoFault, Fault, row, Goto, chat, others,
     BeingEnded
<1>8. ASSUME AnswerRefusal, late' = (late \/ BeingEnded) PROVE WorkingIsOnJob'
  BY <1>8 DEF AnswerRefusal, NoFault, Fault, Spend, Goto, row, others, BeingEnded
<1>9. ASSUME SaveReply, late' = (late \/ BeingEnded) PROVE WorkingIsOnJob'
  BY <1>9 DEF SaveReply, RowsClash, Goto, NoFault, row, others, BeingEnded
<1>10. ASSUME SaveReplyFails, late' = (late \/ BeingEnded) PROVE WorkingIsOnJob'
  BY <1>10 DEF SaveReplyFails, RowsClash, NoFault, Fault, Goto, row, chat, others, BeingEnded
<1>11. ASSUME SettleUser, late' = (late \/ BeingEnded) PROVE WorkingIsOnJob'
  BY <1>11 DEF SettleUser, Verdict, Begin, worker, Goto, row, chat, others, history,
     BeingEnded
<1>12. ASSUME SettleTicket, late' = (late \/ BeingEnded) PROVE WorkingIsOnJob'
  BY <1>12 DEF SettleTicket, Verdict, Goto, row, chat, others, history, BeingEnded
<1>13. ASSUME SelectTicket, late' = (late \/ BeingEnded) PROVE WorkingIsOnJob'
  BY <1>13 DEF SelectTicket, Begin, worker, Goto, row, chat, others, history, BeingEnded
<1>14. ASSUME Finalize, late' = (late \/ BeingEnded) PROVE WorkingIsOnJob'
  BY <1>14 DEF Finalize, Commit, Consumes, Taken, Dropped, WriteRow, row, NotRead, worker,
     Goto, others, history, BeingEnded
<1>15. ASSUME FinalizeFails, late' = (late \/ BeingEnded) PROVE WorkingIsOnJob'
  BY <1>15 DEF FinalizeFails, Abandon, NotRead, worker, Fault, Goto, row, chat, others,
     BeingEnded
<1>16. ASSUME FailJob, late' = (late \/ BeingEnded) PROVE WorkingIsOnJob'
  BY <1>16 DEF FailJob, FallbackWrites, NoFault, WriteRow, Goto, FallbackFails, Fault, row,
     chat, others, BeingEnded
<1>17. ASSUME WipeDraft, late' = (late \/ BeingEnded) PROVE WorkingIsOnJob'
  BY <1>17 DEF WipeDraft, FallbackWrites, NoFault, WriteRow, Dropped, FallbackFails, Fault,
     row, Goto, others, BeingEnded
<1>18. ASSUME SaveChain, late' = (late \/ BeingEnded) PROVE WorkingIsOnJob'
  BY <1>18 DEF SaveChain, NoFault, Goto, Fault, row, chat, others, BeingEnded
<1>19. ASSUME Persist, late' = (late \/ BeingEnded) PROVE WorkingIsOnJob'
  BY <1>19 DEF Persist, Writes, NoFault, WriteRow, Reply, Goto, chat, others, BeingEnded
<1>20. ASSUME Clear, late' = (late \/ BeingEnded) PROVE WorkingIsOnJob'
  BY <1>20 DEF Clear, Writes, NoFault, WriteRow, Goto, chat, others, BeingEnded
<1>21. ASSUME Drop, late' = (late \/ BeingEnded) PROVE WorkingIsOnJob'
  BY <1>21 DEF Drop, Writes, NoFault, Dropped, Goto, row, others, BeingEnded
<1>22. ASSUME RecordFails, late' = (late \/ BeingEnded) PROVE WorkingIsOnJob'
  BY <1>22 DEF RecordFails, WriteFails, Fault, Goto, row, chat, others, BeingEnded
<1>23. ASSUME Post, late' = (late \/ BeingEnded) PROVE WorkingIsOnJob'
  BY <1>23 DEF Post, Writes, NoFault, WriteRow, Reply, WriteFails, Fault, row, Goto, chat,
     others, BeingEnded
<1>24. ASSUME Release, late' = (late \/ BeingEnded) PROVE WorkingIsOnJob'
  BY <1>24 DEF Release, Goto, row, NoFault, WriteRow, Fault, chat, others, BeingEnded
<1>25. ASSUME EndTicket, late' = (late \/ BeingEnded) PROVE WorkingIsOnJob'
  BY <1>25 DEF EndTicket, WriteRow, NoFault, Fault, row, Goto, chat, others, BeingEnded
<1>26. ASSUME StopElsewhere, UNCHANGED late PROVE WorkingIsOnJob'
  BY <1>26 DEF StopElsewhere, Cancelled, WriteRow, WorkerLives, chat, worker, others
<1>27. ASSUME BeginShutdown, UNCHANGED late PROVE WorkingIsOnJob'
  BY <1>27 DEF BeginShutdown, WorkerLives, NotesUnrecorded, row, chat, worker
<1>28. ASSUME ShutdownSelect, UNCHANGED late PROVE WorkingIsOnJob'
  BY <1>28 DEF ShutdownSelect, row, chat, worker, history
<1>29. ASSUME ShutdownBegin, UNCHANGED late PROVE WorkingIsOnJob'
  BY <1>29 DEF ShutdownBegin, Begin, NotesRaced, row, chat, worker
<1>30. ASSUME ShutdownFinalize, UNCHANGED late PROVE WorkingIsOnJob'
  BY <1>30 DEF ShutdownFinalize, Commit, Consumes, Taken, Dropped, WriteRow, row, NotRead,
     NoFault, Abandon, Fault, chat, worker
<1>31. ASSUME ShutdownMark, UNCHANGED late PROVE WorkingIsOnJob'
  BY <1>31 DEF ShutdownMark, WriteRow, chat, worker, history
<1>32. ASSUME Crash, UNCHANGED late PROVE WorkingIsOnJob'
  BY <1>32 DEF Crash, WorkerLives, Goto, worker, NotRead, NotesUnrecorded, row, chat
<1>33. ASSUME ReapList, UNCHANGED late PROVE WorkingIsOnJob'
  BY <1>33 DEF ReapList, Abandoned, NotesUnrecorded, row, chat, worker
<1>34. ASSUME ReapSelect, UNCHANGED late PROVE WorkingIsOnJob'
  BY <1>34 DEF ReapSelect, row, chat, worker, history
<1>35. ASSUME ReapBegin, UNCHANGED late PROVE WorkingIsOnJob'
  BY <1>35 DEF ReapBegin, Begin, NotesRaced, row, chat, worker
<1>36. ASSUME ReapFinalize, UNCHANGED late PROVE WorkingIsOnJob'
  BY <1>36 DEF ReapFinalize, Commit, Consumes, Taken, Dropped, WriteRow, row, NotRead,
     NoFault, Abandon, Fault, chat, worker
<1>37. ASSUME ReapRest, UNCHANGED late PROVE WorkingIsOnJob'
  BY <1>37 DEF ReapRest, WriteRow, row, chat, worker, history
<1> QED
  BY <1>1, <1>2, <1>3, <1>4, <1>5, <1>6, <1>7, <1>8, <1>9, <1>10, <1>11, <1>12, <1>13, <1>14,
     <1>15, <1>16, <1>17, <1>18, <1>19, <1>20, <1>21, <1>22, <1>23, <1>24, <1>25, <1>26, <1>27,
     <1>28, <1>29, <1>30, <1>31, <1>32, <1>33, <1>34, <1>35, <1>36, <1>37 DEF Next, Turn, Outside

\* Work that was noted stays on the job until the answer.
LEMMA StepNoted ==
  ASSUME ChatTyped, RowTyped, WorkerTyped, OutcomeByLabel, RowsAreOfCalls, ReadTyped,
         ReadsAreOld, ~Lossy, ~Lossy', NothingSaidEarly, AnsweredHasCalls, WorkingIsOnJob,
         NotedIsOnJob, ReadIsDraft, NoFallback, [Next]_vars
  PROVE  NotedIsOnJob'
<1> USE Bound DEF NotedIsOnJob, WorkingIsOnJob, NoFallback, OnTheJob, Recording, Early, Ended,
        ChatTyped, WorkerTyped, Calls, OutcomeByLabel, Lossy, Finalizers, NoDraft, NoRow,
        OnJob
<1>1. CASE UNCHANGED <<msgs, noted, draft, made, home, pc, shut, reap>>
  BY <1>1 DEF NotedIsOnJob
<1>2. ASSUME StopHere \/ Watch \/ Age \/ UNCHANGED vars
      PROVE  UNCHANGED <<msgs, noted, draft, made, home, pc, shut, reap>>
  BY <1>2 DEF StopHere, row, chat, others, history, Watch, Age, worker, vars
<1>3. ASSUME Start, late' = (late \/ BeingEnded) PROVE NotedIsOnJob'
  BY <1>3 DEF Start, Writes, NoFault, WriteRow, Goto, WriteFails, Fault, row, chat, others,
     BeingEnded
<1>4. ASSUME Call, late' = (late \/ BeingEnded) PROVE NotedIsOnJob'
  BY <1>4 DEF Call, NoFault, Fault, row, others, BeingEnded
<1>5. ASSUME NextStep, late' = (late \/ BeingEnded) PROVE NotedIsOnJob'
  <2>1. draft' = noted' /\ draft' \in {step - 1, step} /\ UNCHANGED <<home, msgs, made>>
    BY <1>5 DEF NextStep, SaveDraft, WriteRow, Fault, Lossy, chat
  <2>2. draft' # NoDraft
    BY <2>1 DEF WorkerTyped, Calls, NoDraft
  <2>3. msgs = <<>> => OnTheJob
    BY <1>5 DEF NextStep, Lossy, BeingEnded, WorkingIsOnJob, Early
  <2> QED
    BY <2>1, <2>2, <2>3 DEF NotedIsOnJob, OnTheJob
<1>6. ASSUME Answer, late' = (late \/ BeingEnded) PROVE NotedIsOnJob'
  BY <1>6 DEF Answer, Goto, row, chat, others, history, BeingEnded
<1>7. ASSUME RunFails, late' = (late \/ BeingEnded) PROVE NotedIsOnJob'
  <2>1. draft' = noted' /\ draft' \in {step - 1, step} /\ UNCHANGED <<home, msgs, made>>
    BY <1>7 DEF RunFails, SaveDraft, WriteRow, Fault, Lossy, chat
  <2>2. draft' # NoDraft
    BY <2>1 DEF WorkerTyped, Calls, NoDraft
  <2>3. msgs = <<>> => OnTheJob
    BY <1>7 DEF RunFails, Lossy, BeingEnded, WorkingIsOnJob, Early
  <2> QED
    BY <2>1, <2>2, <2>3 DEF NotedIsOnJob, OnTheJob
<1>8. ASSUME AnswerRefusal, late' = (late \/ BeingEnded) PROVE NotedIsOnJob'
  BY <1>8 DEF AnswerRefusal, NoFault, Fault, Spend, Goto, row, others, BeingEnded
<1>9. ASSUME SaveReply, late' = (late \/ BeingEnded) PROVE NotedIsOnJob'
  <2>1. msgs' # <<>>
    BY <1>9 DEF SaveReply, ChatTyped
  <2> QED
    BY <2>1 DEF NotedIsOnJob
<1>10. ASSUME SaveReplyFails, late' = (late \/ BeingEnded) PROVE NotedIsOnJob'
  BY <1>10 DEF SaveReplyFails, RowsClash, NoFault, Fault, Goto, row, chat, others, BeingEnded
<1>11. ASSUME SettleUser, late' = (late \/ BeingEnded) PROVE NotedIsOnJob'
  BY <1>11 DEF SettleUser, Verdict, Begin, worker, Goto, row, chat, others, history,
     BeingEnded
<1>12. ASSUME SettleTicket, late' = (late \/ BeingEnded) PROVE NotedIsOnJob'
  BY <1>12 DEF SettleTicket, Verdict, Goto, row, chat, others, history, BeingEnded
<1>13. ASSUME SelectTicket, late' = (late \/ BeingEnded) PROVE NotedIsOnJob'
  BY <1>13 DEF SelectTicket, Begin, worker, Goto, row, chat, others, history, BeingEnded
<1>14. ASSUME Finalize, late' = (late \/ BeingEnded) PROVE NotedIsOnJob'
  <2>0. pc \in Early /\ ~BeingEnded /\ UNCHANGED <<made, noted>>
    BY <1>14 DEF Finalize, Early, Lossy, history
  <2>1. msgs = <<>> /\ OnTheJob
    BY <2>0 DEF NothingSaidEarly, Unrecorded, Lossy, BeingEnded, WorkingIsOnJob
  <2>2. pc' \notin Early
    BY <1>14 DEF Finalize, Early, Goto
  <2> QED
    BY <1>14, <2>0, <2>1, <2>2, CommitNoted, FinalizersAre DEF Finalize, NotedIsOnJob
<1>15. ASSUME FinalizeFails, late' = (late \/ BeingEnded) PROVE NotedIsOnJob'
  BY <1>15 DEF FinalizeFails, Abandon, NotRead, worker, Fault, Goto, row, chat, others,
     BeingEnded
<1>16. ASSUME FailJob, late' = (late \/ BeingEnded) PROVE NotedIsOnJob'
  BY <1>16 DEF FailJob, FallbackWrites, NoFault, WriteRow, Goto, FallbackFails, Fault, row,
     chat, others, BeingEnded
<1>17. ASSUME WipeDraft, late' = (late \/ BeingEnded) PROVE NotedIsOnJob'
  BY <1>17 DEF WipeDraft, FallbackWrites, NoFault, WriteRow, Dropped, FallbackFails, Fault,
     row, Goto, others, BeingEnded
<1>18. ASSUME SaveChain, late' = (late \/ BeingEnded) PROVE NotedIsOnJob'
  BY <1>18 DEF SaveChain, NoFault, Goto, Fault, row, chat, others, BeingEnded
<1>19. ASSUME Persist, late' = (late \/ BeingEnded) PROVE NotedIsOnJob'
  BY <1>19 DEF Persist, Writes, NoFault, WriteRow, Reply, Goto, chat, others, BeingEnded
<1>20. ASSUME Clear, late' = (late \/ BeingEnded) PROVE NotedIsOnJob'
  BY <1>20 DEF Clear, Writes, NoFault, WriteRow, Goto, chat, others, BeingEnded
<1>21. ASSUME Drop, late' = (late \/ BeingEnded) PROVE NotedIsOnJob'
  BY <1>21 DEF Drop, Writes, NoFault, Dropped, Goto, row, others, BeingEnded
<1>22. ASSUME RecordFails, late' = (late \/ BeingEnded) PROVE NotedIsOnJob'
  BY <1>22 DEF RecordFails, WriteFails, Fault, Goto, row, chat, others, BeingEnded
<1>23. ASSUME Post, late' = (late \/ BeingEnded) PROVE NotedIsOnJob'
  BY <1>23 DEF Post, Writes, NoFault, WriteRow, Reply, WriteFails, Fault, row, Goto, chat,
     others, BeingEnded
<1>24. ASSUME Release, late' = (late \/ BeingEnded) PROVE NotedIsOnJob'
  BY <1>24 DEF Release, Goto, row, NoFault, WriteRow, Fault, chat, others, BeingEnded
<1>25. ASSUME EndTicket, late' = (late \/ BeingEnded) PROVE NotedIsOnJob'
  BY <1>25 DEF EndTicket, WriteRow, NoFault, Fault, row, Goto, chat, others, BeingEnded
<1>26. ASSUME StopElsewhere, UNCHANGED late PROVE NotedIsOnJob'
  BY <1>26 DEF StopElsewhere, Cancelled, WriteRow, WorkerLives, chat, worker, others
<1>27. ASSUME BeginShutdown, UNCHANGED late PROVE NotedIsOnJob'
  BY <1>27 DEF BeginShutdown, WorkerLives, NotesUnrecorded, row, chat, worker
<1>28. ASSUME ShutdownSelect, UNCHANGED late PROVE NotedIsOnJob'
  BY <1>28 DEF ShutdownSelect, row, chat, worker, history
<1>29. ASSUME ShutdownBegin, UNCHANGED late PROVE NotedIsOnJob'
  BY <1>29 DEF ShutdownBegin, Begin, row, chat, worker
<1>30. ASSUME ShutdownFinalize, UNCHANGED late PROVE NotedIsOnJob'
  <2>1. UNCHANGED <<made, noted, pc>>
    BY <1>30 DEF ShutdownFinalize, worker
  <2>2. CASE Commit("shutdown") /\ shut' = "done"
    BY <2>1, <2>2, CommitNoted, FinalizersAre DEF NotedIsOnJob
  <2>3. CASE UNCHANGED <<row, chat>> /\ ~(shut' = "done")
    BY <1>30, <2>1, <2>3 DEF ShutdownFinalize, row, chat, NotedIsOnJob, OnTheJob
  <2> QED
    BY <1>30, <2>2, <2>3 DEF ShutdownFinalize
<1>31. ASSUME ShutdownMark, UNCHANGED late PROVE NotedIsOnJob'
  BY <1>31 DEF ShutdownMark, WriteRow, chat, worker, history
<1>32. ASSUME Crash, UNCHANGED late PROVE NotedIsOnJob'
  BY <1>32 DEF Crash, WorkerLives, Goto, worker, NotRead, NotesUnrecorded, row, chat
<1>33. ASSUME ReapList, UNCHANGED late PROVE NotedIsOnJob'
  BY <1>33 DEF ReapList, Abandoned, NotesUnrecorded, row, chat, worker
<1>34. ASSUME ReapSelect, UNCHANGED late PROVE NotedIsOnJob'
  BY <1>34 DEF ReapSelect, row, chat, worker, history
<1>35. ASSUME ReapBegin, UNCHANGED late PROVE NotedIsOnJob'
  BY <1>35 DEF ReapBegin, Begin, row, chat, worker
<1>36. ASSUME ReapFinalize, UNCHANGED late PROVE NotedIsOnJob'
  <2>1. UNCHANGED <<made, noted, pc>>
    BY <1>36 DEF ReapFinalize, worker
  <2>2. CASE Commit("reaper") /\ reap' = "ended"
    BY <2>1, <2>2, CommitNoted, FinalizersAre DEF NotedIsOnJob
  <2>3. CASE UNCHANGED <<row, chat>> /\ ~(reap' = "ended")
    BY <1>36, <2>1, <2>3 DEF ReapFinalize, row, chat, NotedIsOnJob, OnTheJob
  <2> QED
    BY <1>36, <2>2, <2>3 DEF ReapFinalize
<1>37. ASSUME ReapRest, UNCHANGED late PROVE NotedIsOnJob'
  BY <1>37 DEF ReapRest, WriteRow, row, chat, worker, history
<1> QED
  BY <1>1, <1>2, <1>3, <1>4, <1>5, <1>6, <1>7, <1>8, <1>9, <1>10, <1>11, <1>12, <1>13, <1>14,
     <1>15, <1>16, <1>17, <1>18, <1>19, <1>20, <1>21, <1>22, <1>23, <1>24, <1>25, <1>26, <1>27,
     <1>28, <1>29, <1>30, <1>31, <1>32, <1>33, <1>34, <1>35, <1>36, <1>37 DEF Next, Turn, Outside

\* A draft does not change under a transaction.
LEMMA StepReadIsDraft ==
  ASSUME ChatTyped, WorkerTyped, OpenByLabel, ReadTyped, ~Lossy, ~Lossy', ReadIsDraft,
         [Next]_vars
  PROVE  ReadIsDraft'
<1> USE DEF ReadIsDraft, OpenByLabel, Recording, Early, Ended, ChatTyped, WorkerTyped,
        ReadTyped, NotRead, Lossy, Finalizers, NoDraft, NoRow, OnJob
<1>1. CASE UNCHANGED <<msgs, draft, read>>
  BY <1>1 DEF ReadIsDraft
<1>2. ASSUME Call \/ Answer \/ SaveReplyFails \/ SettleTicket \/ SaveChain \/ Drop \/
            RecordFails \/ StopHere \/ Watch \/ BeginShutdown \/ ShutdownSelect \/ Age \/
            ReapList \/ ReapSelect \/ UNCHANGED vars
      PROVE  UNCHANGED <<msgs, draft, read>>
  BY <1>2 DEF Call, row, Answer, chat, SaveReplyFails, SettleTicket, SaveChain, Drop,
     RecordFails, StopHere, Watch, BeginShutdown, ShutdownSelect, Age, ReapList, ReapSelect,
     vars
<1>3. ASSUME Start, late' = (late \/ BeingEnded) PROVE ReadIsDraft'
  BY <1>3 DEF Start, Writes, NoFault, WriteRow, Goto, WriteFails, Fault, row, chat, others,
     BeingEnded
<1>4. ASSUME NextStep, late' = (late \/ BeingEnded) PROVE ReadIsDraft'
  BY <1>4 DEF NextStep, SaveDraft, WriteRow, NoFault, Fault, row, chat, others, BeingEnded
<1>5. ASSUME RunFails, late' = (late \/ BeingEnded) PROVE ReadIsDraft'
  BY <1>5 DEF RunFails, SaveDraft, WriteRow, NoFault, Fault, row, Goto, chat, others,
     BeingEnded
<1>6. ASSUME AnswerRefusal, late' = (late \/ BeingEnded) PROVE ReadIsDraft'
  BY <1>6 DEF AnswerRefusal, NoFault, Fault, Spend, Goto, row, others, BeingEnded
<1>7. ASSUME SaveReply, late' = (late \/ BeingEnded) PROVE ReadIsDraft'
  BY <1>7 DEF SaveReply, RowsClash, Goto, NoFault, row, others, BeingEnded
<1>8. ASSUME SettleUser, late' = (late \/ BeingEnded) PROVE ReadIsDraft'
  BY <1>8 DEF SettleUser, Verdict, Begin, worker, Goto, row, chat, others, history, BeingEnded
<1>9. ASSUME SelectTicket, late' = (late \/ BeingEnded) PROVE ReadIsDraft'
  BY <1>9 DEF SelectTicket, Begin, worker, Goto, row, chat, others, history, BeingEnded
<1>10. ASSUME Finalize, late' = (late \/ BeingEnded) PROVE ReadIsDraft'
  BY <1>10 DEF Finalize, Commit, Consumes, Taken, Dropped, WriteRow, row, NotRead, worker,
     Goto, others, history, BeingEnded
<1>11. ASSUME FinalizeFails, late' = (late \/ BeingEnded) PROVE ReadIsDraft'
  BY <1>11 DEF FinalizeFails, Abandon, NotRead, worker, Fault, Goto, row, chat, others,
     BeingEnded
<1>12. ASSUME FailJob, late' = (late \/ BeingEnded) PROVE ReadIsDraft'
  BY <1>12 DEF FailJob, FallbackWrites, NoFault, WriteRow, Goto, FallbackFails, Fault, row,
     chat, others, BeingEnded
<1>13. ASSUME WipeDraft, late' = (late \/ BeingEnded) PROVE ReadIsDraft'
  BY <1>13 DEF WipeDraft, FallbackWrites, NoFault, WriteRow, Dropped, FallbackFails, Fault,
     row, Goto, others, BeingEnded
<1>14. ASSUME Persist, late' = (late \/ BeingEnded) PROVE ReadIsDraft'
  BY <1>14 DEF Persist, Writes, NoFault, WriteRow, Reply, Goto, chat, others, BeingEnded
<1>15. ASSUME Clear, late' = (late \/ BeingEnded) PROVE ReadIsDraft'
  BY <1>15 DEF Clear, Writes, NoFault, WriteRow, Goto, chat, others, BeingEnded
<1>16. ASSUME Post, late' = (late \/ BeingEnded) PROVE ReadIsDraft'
  BY <1>16 DEF Post, Writes, NoFault, WriteRow, Reply, WriteFails, Fault, row, Goto, chat,
     others, BeingEnded
<1>17. ASSUME Release, late' = (late \/ BeingEnded) PROVE ReadIsDraft'
  BY <1>17 DEF Release, Goto, row, NoFault, WriteRow, Fault, chat, others, BeingEnded
<1>18. ASSUME EndTicket, late' = (late \/ BeingEnded) PROVE ReadIsDraft'
  BY <1>18 DEF EndTicket, WriteRow, NoFault, Fault, row, Goto, chat, others, BeingEnded
<1>19. ASSUME StopElsewhere, UNCHANGED late PROVE ReadIsDraft'
  BY <1>19 DEF StopElsewhere, Cancelled, WriteRow, WorkerLives, chat, worker, others
<1>20. ASSUME ShutdownBegin, UNCHANGED late PROVE ReadIsDraft'
  BY <1>20 DEF ShutdownBegin, Begin, NotesRaced, row, chat, worker
<1>21. ASSUME ShutdownFinalize, UNCHANGED late PROVE ReadIsDraft'
  BY <1>21 DEF ShutdownFinalize, Commit, Consumes, Taken, Dropped, WriteRow, row, NotRead,
     NoFault, Abandon, Fault, chat, worker
<1>22. ASSUME ShutdownMark, UNCHANGED late PROVE ReadIsDraft'
  BY <1>22 DEF ShutdownMark, WriteRow, chat, worker, history
<1>23. ASSUME Crash, UNCHANGED late PROVE ReadIsDraft'
  BY <1>23 DEF Crash, WorkerLives, Goto, worker, NotRead, NotesUnrecorded, row, chat
<1>24. ASSUME ReapBegin, UNCHANGED late PROVE ReadIsDraft'
  BY <1>24 DEF ReapBegin, Begin, NotesRaced, row, chat, worker
<1>25. ASSUME ReapFinalize, UNCHANGED late PROVE ReadIsDraft'
  BY <1>25 DEF ReapFinalize, Commit, Consumes, Taken, Dropped, WriteRow, row, NotRead,
     NoFault, Abandon, Fault, chat, worker
<1>26. ASSUME ReapRest, UNCHANGED late PROVE ReadIsDraft'
  BY <1>26 DEF ReapRest, WriteRow, row, chat, worker, history
<1> QED
  BY <1>1, <1>2, <1>3, <1>4, <1>5, <1>6, <1>7, <1>8, <1>9, <1>10, <1>11, <1>12, <1>13, <1>14,
     <1>15, <1>16, <1>17, <1>18, <1>19, <1>20, <1>21, <1>22, <1>23, <1>24, <1>25, <1>26 DEF Next,
     Turn, Outside

\* Nobody leaves a turn with its draft unfinished.
LEMMA StepWaits ==
  ASSUME ChatTyped, RowTyped, WorkerTyped, OutcomeByLabel, RowsAreOfCalls, ReadTyped,
         ReadsAreOld, ~Lossy, ~Lossy', EarlyStatus, AnsweredHasCalls, NotedIsOnJob,
         ReadIsDraft, DraftWaits, NoFallback, [Next]_vars
  PROVE  DraftWaits'
<1> USE DEF DraftWaits, NotedIsOnJob, EarlyStatus, NoFallback, OnTheJob, Recording, Early,
        Ended, Blocking, Terminal, OutcomeByLabel, Lossy, Finalizers, NoDraft, NoRow, OnJob
<1>1. CASE UNCHANGED <<msgs, draft, pc, status, shut, reap, stale>>
  BY <1>1 DEF DraftWaits
<1>2. ASSUME Call \/ StopHere \/ Watch \/ UNCHANGED vars
      PROVE  UNCHANGED <<msgs, draft, pc, status, shut, reap, stale>>
  BY <1>2 DEF Call, row, others, StopHere, chat, Watch, vars
<1>3. ASSUME Start, late' = (late \/ BeingEnded) PROVE DraftWaits'
  BY <1>3 DEF Start, Writes, NoFault, WriteRow, Goto, WriteFails, Fault, row, chat, others,
     BeingEnded
<1>4. ASSUME NextStep, late' = (late \/ BeingEnded) PROVE DraftWaits'
  BY <1>4 DEF NextStep, SaveDraft, WriteRow, NoFault, Fault, row, chat, others, BeingEnded
<1>5. ASSUME Answer, late' = (late \/ BeingEnded) PROVE DraftWaits'
  BY <1>5 DEF Answer, Goto, row, chat, others, history, BeingEnded
<1>6. ASSUME RunFails, late' = (late \/ BeingEnded) PROVE DraftWaits'
  BY <1>6 DEF RunFails, SaveDraft, WriteRow, NoFault, Fault, row, Goto, chat, others,
     BeingEnded
<1>7. ASSUME AnswerRefusal, late' = (late \/ BeingEnded) PROVE DraftWaits'
  BY <1>7 DEF AnswerRefusal, NoFault, Fault, Spend, Goto, row, others, BeingEnded
<1>8. ASSUME SaveReply, late' = (late \/ BeingEnded) PROVE DraftWaits'
  BY <1>8 DEF SaveReply, RowsClash, Goto, NoFault, row, others, BeingEnded
<1>9. ASSUME SaveReplyFails, late' = (late \/ BeingEnded) PROVE DraftWaits'
  BY <1>9 DEF SaveReplyFails, RowsClash, NoFault, Fault, Goto, row, chat, others, BeingEnded
<1>10. ASSUME SettleUser, late' = (late \/ BeingEnded) PROVE DraftWaits'
  BY <1>10 DEF SettleUser, Verdict, Begin, worker, Goto, row, chat, others, history, BeingEnded
<1>11. ASSUME SettleTicket, late' = (late \/ BeingEnded) PROVE DraftWaits'
  BY <1>11 DEF SettleTicket, Verdict, Goto, row, chat, others, history, BeingEnded
<1>12. ASSUME SelectTicket, late' = (late \/ BeingEnded) PROVE DraftWaits'
  BY <1>12 DEF SelectTicket, Begin, worker, Goto, row, chat, others, history, BeingEnded
<1>13. ASSUME Finalize, late' = (late \/ BeingEnded) PROVE DraftWaits'
  <2>1. msgs' = <<>> => msgs = <<>>
    BY MsgsGrow, SaidStaysSaid
  <2>2. draft' # NoDraft => draft' = draft /\ read["worker"].draft = NoDraft /\ read["worker"].open
    BY <1>13, CommitCases, FinalizersAre DEF Finalize, row
  <2> QED
    BY <2>1, <2>2, FinalizersAre DEF ReadIsDraft, DraftWaits
<1>14. ASSUME FinalizeFails, late' = (late \/ BeingEnded) PROVE DraftWaits'
  BY <1>14 DEF FinalizeFails, Abandon, NotRead, worker, Fault, Goto, row, chat, others,
     BeingEnded
<1>15. ASSUME FailJob, late' = (late \/ BeingEnded) PROVE DraftWaits'
  BY <1>15 DEF FailJob, FallbackWrites, NoFault, WriteRow, Goto, FallbackFails, Fault, row,
     chat, others, BeingEnded
<1>16. ASSUME WipeDraft, late' = (late \/ BeingEnded) PROVE DraftWaits'
  BY <1>16 DEF WipeDraft, FallbackWrites, NoFault, WriteRow, Dropped, FallbackFails, Fault,
     row, Goto, others, BeingEnded
<1>17. ASSUME SaveChain, late' = (late \/ BeingEnded) PROVE DraftWaits'
  BY <1>17 DEF SaveChain, NoFault, Goto, Fault, row, chat, others, BeingEnded
<1>18. ASSUME Persist, late' = (late \/ BeingEnded) PROVE DraftWaits'
  BY <1>18 DEF Persist, Writes, NoFault, WriteRow, Reply, Goto, chat, others, BeingEnded
<1>19. ASSUME Clear, late' = (late \/ BeingEnded) PROVE DraftWaits'
  BY <1>19 DEF Clear, Writes, NoFault, WriteRow, Goto, chat, others, BeingEnded
<1>20. ASSUME Drop, late' = (late \/ BeingEnded) PROVE DraftWaits'
  BY <1>20 DEF Drop, Writes, NoFault, Dropped, Goto, row, others, BeingEnded
<1>21. ASSUME RecordFails, late' = (late \/ BeingEnded) PROVE DraftWaits'
  BY <1>21 DEF RecordFails, WriteFails, Fault, Goto, row, chat, others, BeingEnded
<1>22. ASSUME Post, late' = (late \/ BeingEnded) PROVE DraftWaits'
  BY <1>22 DEF Post, Writes, NoFault, WriteRow, Reply, WriteFails, Fault, row, Goto, chat,
     others, BeingEnded
<1>23. ASSUME Release, late' = (late \/ BeingEnded) PROVE DraftWaits'
  BY <1>23 DEF Release, Goto, row, NoFault, WriteRow, Fault, chat, others, BeingEnded
<1>24. ASSUME EndTicket, late' = (late \/ BeingEnded) PROVE DraftWaits'
  BY <1>24 DEF EndTicket, WriteRow, NoFault, Fault, row, Goto, chat, others, BeingEnded
<1>25. ASSUME StopElsewhere, UNCHANGED late PROVE DraftWaits'
  BY <1>25 DEF StopElsewhere, Cancelled, WriteRow, WorkerLives, chat, worker, others
<1>26. ASSUME BeginShutdown, UNCHANGED late PROVE DraftWaits'
  BY <1>26 DEF BeginShutdown, WorkerLives, NotesUnrecorded, row, chat, worker
<1>27. ASSUME ShutdownSelect, UNCHANGED late PROVE DraftWaits'
  BY <1>27 DEF ShutdownSelect, row, chat, worker, history
<1>28. ASSUME ShutdownBegin, UNCHANGED late PROVE DraftWaits'
  BY <1>28 DEF ShutdownBegin, Begin, row, chat, worker
<1>29. ASSUME ShutdownFinalize, UNCHANGED late PROVE DraftWaits'
  BY <1>29 DEF ShutdownFinalize, Commit, Consumes, Taken, Dropped, WriteRow, row, NotRead,
     NoFault, Abandon, Fault, chat, worker
<1>30. ASSUME ShutdownMark, UNCHANGED late PROVE DraftWaits'
  BY <1>30 DEF ShutdownMark, WriteRow, chat, worker, history
<1>31. ASSUME Crash, UNCHANGED late PROVE DraftWaits'
  BY <1>31 DEF Crash, WorkerLives, Goto, worker, NotRead, NotesUnrecorded, row, chat
<1>32. ASSUME Age, UNCHANGED late PROVE DraftWaits'
  BY <1>32 DEF Age, WorkerLives, chat, worker, others
<1>33. ASSUME ReapList, UNCHANGED late PROVE DraftWaits'
  BY <1>33 DEF ReapList, Abandoned, NotesUnrecorded, row, chat, worker
<1>34. ASSUME ReapSelect, UNCHANGED late PROVE DraftWaits'
  BY <1>34 DEF ReapSelect, row, chat, worker, history
<1>35. ASSUME ReapBegin, UNCHANGED late PROVE DraftWaits'
  BY <1>35 DEF ReapBegin, Begin, row, chat, worker
<1>36. ASSUME ReapFinalize, UNCHANGED late PROVE DraftWaits'
  BY <1>36 DEF ReapFinalize, Commit, Consumes, Taken, Dropped, WriteRow, row, NotRead,
     NoFault, Abandon, Fault, chat, worker
<1>37. ASSUME ReapRest, UNCHANGED late PROVE DraftWaits'
  BY <1>37 DEF ReapRest, WriteRow, row, chat, worker, history
<1> QED
  BY <1>1, <1>2, <1>3, <1>4, <1>5, <1>6, <1>7, <1>8, <1>9, <1>10, <1>11, <1>12, <1>13, <1>14,
     <1>15, <1>16, <1>17, <1>18, <1>19, <1>20, <1>21, <1>22, <1>23, <1>24, <1>25, <1>26, <1>27,
     <1>28, <1>29, <1>30, <1>31, <1>32, <1>33, <1>34, <1>35, <1>36, <1>37 DEF Next, Turn, Outside


-----------------------------------------------------------------------------
\* Every step keeps the invariant of the answers ...
LEMMA StepAnswerInv ==
  ASSUME Shape, AnswerInv, [Next]_vars
  PROVE  AnswerInv'
<1>1. /\ RowTyped /\ ChatTyped /\ WorkerTyped /\ OthersTyped /\ ReadTyped
      /\ OpenByLabel /\ OutcomeByLabel /\ RecordsReply /\ ReadsAreOld /\ RowsAreOfCalls
  BY Parts DEF Shape
<1>2. /\ NothingSaidEarly /\ NoResultYet /\ ResultIsLate /\ StaysEnded /\ DraftUnanswered /\ OneAnswer
  BY DEF AnswerInv
<1>0. (late => late') /\ torn \subseteq torn'
  BY LateGrows, TornGrows DEF Shape, TypeOK
<1>3. msgs' # msgs /\ Len(msgs') > 1 => msgs # <<>>
  BY <1>1, MsgsGrow, SaidStaysSaid
<1>4. NothingSaidEarly' /\ NoResultYet' /\ ResultIsLate' /\ StaysEnded'
  BY <1>0, <1>1, <1>2, StepNothing, StepNoResult, StepResultIsLate, StepStays
<1>5. DraftUnanswered' /\ OneAnswer'
  BY <1>0, <1>1, <1>2, <1>3, StepUnanswered, StepOneAnswer
<1> QED
  BY <1>4, <1>5 DEF AnswerInv

\* ... and that of the work.
LEMMA StepKeptInv ==
  ASSUME Shape, AnswerInv, KeptInv, [Next]_vars
  PROVE  KeptInv'
<1>1. /\ RowTyped /\ ChatTyped /\ WorkerTyped /\ OthersTyped /\ ReadTyped
      /\ OpenByLabel /\ OutcomeByLabel /\ RecordsReply /\ ReadsAreOld /\ RowsAreOfCalls
  BY Parts DEF Shape
<1>0. (late => late') /\ torn \subseteq torn'
  BY LateGrows, TornGrows DEF Shape, TypeOK
<1>2. EarlyStatus' /\ EarlyStatus /\ NothingSaidEarly
  BY <1>0, <1>1, StepEarlyStatus DEF KeptInv, AnswerInv
<1>3. SUFFICES ASSUME ~Lossy'
               PROVE  AnsweredHasCalls' /\ WorkingIsOnJob' /\ NotedIsOnJob' /\ ReadIsDraft'
                      /\ DraftWaits' /\ NoFallback'
  BY <1>2 DEF KeptInv
<1>4. ~Lossy
  BY <1>0, <1>3, LossyStays
<1>5. AnsweredHasCalls /\ WorkingIsOnJob /\ NotedIsOnJob /\ ReadIsDraft /\ DraftWaits /\ NoFallback
  BY <1>4 DEF KeptInv
<1>6. NoFallback' /\ AnsweredHasCalls' /\ WorkingIsOnJob'
  BY <1>1, <1>2, <1>3, <1>4, <1>5, StepFallback, StepAnswered, StepWorking
<1>7. NotedIsOnJob' /\ ReadIsDraft' /\ DraftWaits'
  BY <1>1, <1>2, <1>3, <1>4, <1>5, StepNoted, StepReadIsDraft, StepWaits
<1> QED
  BY <1>6, <1>7

\* Both hold at first.
LEMMA InitAnswers == Init => AnswerInv /\ KeptInv
<1> SUFFICES ASSUME Init PROVE AnswerInv /\ KeptInv
  OBVIOUS
<1> USE DEF Init
<1>1. NothingSaidEarly /\ NoResultYet /\ ResultIsLate /\ OneAnswer
  BY DEF NothingSaidEarly, NoResultYet, ResultIsLate, OneAnswer
<1>2. StaysEnded /\ DraftUnanswered /\ ReadIsDraft
  BY DEF StaysEnded, DraftUnanswered, ReadIsDraft, NotRead, Finalizers
<1>3. AnsweredHasCalls /\ WorkingIsOnJob /\ NotedIsOnJob /\ DraftWaits /\ NoFallback /\ EarlyStatus
  BY DEF AnsweredHasCalls, WorkingIsOnJob, OnTheJob, NotedIsOnJob, DraftWaits, NoFallback,
         Recording, EarlyStatus, Blocking
<1> QED
  BY <1>1, <1>2, <1>3 DEF AnswerInv, KeptInv

\* Nothing waits on the job of a settled turn.
LEMMA KeptWhenSettled ==
  ASSUME Shape, KeptInv
  PROVE  WorkIsKept
<1> SUFFICES ASSUME Settled, noted # NoDraft, ~Lossy
             PROVE  (\A c \in made : home[c] > 0) /\ (noted > 0 => msgs # <<>>)
  BY DEF WorkIsKept, Lossy
<1>1. AnsweredHasCalls /\ NotedIsOnJob /\ DraftWaits
  BY DEF KeptInv
<1>2. CASE msgs # <<>>
  BY <1>1, <1>2 DEF AnsweredHasCalls
<1>3. CASE msgs = <<>>
  <2>1. draft = NoDraft
    BY <1>1, <1>3 DEF DraftWaits, Settled, Ended, Terminal, Blocking
  <2>2. noted = 0 /\ made = {}
    BY <1>1, <1>3, <2>1 DEF NotedIsOnJob
  <2> QED
    BY <2>2
<1> QED
  BY <1>2, <1>3

\* A turn is answered once, whatever fails and wherever it is stopped, but for a
\* worker that went on while its turn was being ended and for a reply its job does
\* not name: the four writers that end a turn, each by what it read of the job.
THEOREM OneAnswerAlways == Spec => []OneAnswer
<1>1. Shape /\ AnswerInv /\ [Next]_vars => Shape' /\ AnswerInv'
  BY StepShape, StepAnswerInv
<1>2. Init => Shape /\ AnswerInv
  BY InitShape, InitAnswers
<1>3. AnswerInv => OneAnswer
  BY DEF AnswerInv
<1> QED
  BY <1>1, <1>2, <1>3, PTL DEF Spec

\* A turn that is over has its noted work in the chat, but for the losses the
\* property lists.
THEOREM WorkIsKeptAlways == Spec => []WorkIsKept
<1>1. Shape /\ AnswerInv /\ KeptInv /\ [Next]_vars => Shape' /\ AnswerInv' /\ KeptInv'
  BY StepShape, StepAnswerInv, StepKeptInv
<1>2. Init => Shape /\ AnswerInv /\ KeptInv
  BY InitShape, InitAnswers
<1>3. Shape /\ KeptInv => WorkIsKept
  BY KeptWhenSettled
<1> QED
  BY <1>1, <1>2, <1>3, PTL DEF Spec
==============================

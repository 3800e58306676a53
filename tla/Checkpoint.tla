------------------------------ MODULE Checkpoint ------------------------------
(***************************************************************************)
(* The checkpoints of one chat.  A checkpoint stores a summary and the     *)
(* start of the live history window: a later turn's context is the summary *)
(* and the messages sent at or after the window's start.  The pass that    *)
(* makes one runs at the end of a turn, when the turn gate is already open *)
(* and later turns read the chat and save messages; a claim on the chat    *)
(* row, identified by its time, keeps the passes apart.                    *)
(*                                                                         *)
(* Messages are their sent_at, a number no other message has; a message is *)
(* stamped and then commits, and messages may commit out of order.         *)
(* Nothing here relies on the turn gate: turns overlap as they like.       *)
(* Whether a checkpoint is due (counts, tokens) is left open, and the live *)
(* window is assumed to fit the history page.  Times a claim is compared   *)
(* with: pass age 1 is past checkpointTimeout, where the pass's context    *)
(* ends, 2 past checkpointClaimStaleAfter.                                 *)
(*                                                                         *)
(* The chat is an imported one, whose history before the first turn a      *)
(* rehydration summarises in the background: it writes the same summary    *)
(* and window with a state of its own (chat.rehydration_state) and without *)
(* the claim.  A turn waits for it at most rehydrationWaitTimeout, so the  *)
(* wait keeps nothing apart and is left out.  A chat that was not imported *)
(* behaves as one whose rehydration never starts.                          *)
(***************************************************************************)
EXTENDS Naturals

CONSTANTS
  Turns,     \* turns of the chat
  Nobody,    \* no turn
  Runs,      \* workers that may rehydrate
  Imported,  \* how many messages were imported
  Faults     \* bound: reads, lookups and releases that fail

ASSUME ConstantsAssumption ==
  Nobody \notin Turns /\ Imported \in Nat /\ Faults \in Nat

VARIABLES
  now,      \* the newest time stamp
  saved,    \* the chat's messages, committed
  summary,  \* the messages chat.checkpoint_summary covers
  window,   \* chat.last_checkpoint_at
  claim,    \* the turn whose time chat.checkpoint_started_at holds, or Nobody
  pc,       \* where each turn is
  ask,      \* the message each turn answers, or the time of its prompt
  reply,    \* its reply
  from,     \* the window start in the turn's copy of the chat
  cover,    \* the messages its context, and so its summary, covers
  start,    \* the window start its pass is to store
  passAge,  \* how long ago it claimed the checkpoint: 0, 1 or 2
  rehydration, \* chat.rehydration_state
  step,     \* where each rehydration is
  seen,     \* the messages it read
  gist,     \* the messages its summary covers
  point,    \* the window start it is to store
  faults,   \* what is left of Faults
  excused   \* history: messages a failed read or lookup left out, and those
            \* that committed after a later one was stamped

chat == <<summary, window, claim>>
turn == <<ask, reply, from, cover, start, passAge>>
runs == <<rehydration, step, seen, gist, point>>
vars == <<now, saved, summary, window, claim, pc, ask, reply, from, cover,
          start, passAge, rehydration, step, seen, gist, point, faults, excused>>

Labels == {"none", "sending", "asked", "read", "infer", "replying", "replied",
           "lookup", "write", "release", "over"}
InPass == {"lookup", "write", "release"}
HasReply == {"replied", "lookup", "write"}
HasContext == {"infer", "replying"} \cup HasReply
HasRead == {"read"} \cup HasContext

States == {"none", "pending", "ready", "failed", "stale"}
Rehydrating == {"load", "split", "write"}

\* What import and sync leave: a thread that has no summary, or one whose summary
\* too many messages have followed.
Unsummarised == summary = {} /\ window = 0 /\ rehydration = "none"
Behind ==
  /\ window \in 2..Imported
  /\ summary = 1..(window - 1)
  /\ rehydration = "stale"

Init ==
  /\ now = Imported
  /\ saved = 1..Imported
  /\ Unsummarised \/ Behind
  /\ step = [r \in Runs |-> "idle"]
  /\ seen = [r \in Runs |-> {}]
  /\ gist = [r \in Runs |-> {}]
  /\ point = [r \in Runs |-> 0]
  /\ claim = Nobody
  /\ pc = [t \in Turns |-> "none"]
  /\ ask = [t \in Turns |-> 0]
  /\ reply = [t \in Turns |-> 0]
  /\ from = [t \in Turns |-> 0]
  /\ cover = [t \in Turns |-> {}]
  /\ start = [t \in Turns |-> 0]
  /\ passAge = [t \in Turns |-> 0]
  /\ faults = Faults
  /\ excused = {}

Goto(t, l) == pc' = [pc EXCEPT ![t] = l]
Fault == faults > 0 /\ faults' = faults - 1

\* What a turn no longer needs is forgotten; its message is kept for a retry.
Forget(t) ==
  /\ reply' = [reply EXCEPT ![t] = 0]
  /\ from' = [from EXCEPT ![t] = 0]
  /\ cover' = [cover EXCEPT ![t] = {}]
  /\ start' = [start EXCEPT ![t] = 0]
  /\ UNCHANGED ask

\* The turn ends; a claim it leaves stays.
EndTurn(t) ==
  /\ Goto(t, "over")
  /\ Forget(t)
  /\ passAge' = [passAge EXCEPT ![t] = IF claim' = t THEN @ ELSE 0]

-----------------------------------------------------------------------------
(* The turn.                                                                *)

\* A message stamped m commits, perhaps after a later one was stamped.
Commit(m) ==
  /\ saved' = saved \cup {m}
  /\ excused' = IF m < now THEN excused \cup {m} ELSE excused

\* A user's message is stamped ...
Send(t) ==
  /\ pc[t] = "none"
  /\ now' = now + 1
  /\ ask' = [ask EXCEPT ![t] = now + 1]
  /\ Goto(t, "sending")
  /\ UNCHANGED <<saved, chat, reply, from, cover, start, passAge, faults, excused, runs>>

\* ... and saved, before its turn queues.
SaveMessage(t) ==
  /\ pc[t] = "sending"
  /\ Commit(ask[t])
  /\ Goto(t, "asked")
  /\ UNCHANGED <<now, chat, turn, faults, runs>>

\* A retry answers a saved message again, once its job is terminal: ended by its
\* worker, or by a Stop or the reaper whatever its worker does.
Retry(t) ==
  /\ pc[t] = "none"
  /\ \E u \in Turns : /\ pc[u] # "none" /\ ask[u] \in saved
                      /\ ask' = [ask EXCEPT ![t] = ask[u]]
  /\ Goto(t, "asked")
  /\ UNCHANGED <<now, saved, chat, reply, from, cover, start, passAge, faults, excused, runs>>

\* An agent-job turn starts: its prompt is not saved and counts as sent now.
StartRun(t) ==
  /\ pc[t] = "none"
  /\ now' = now + 1
  /\ ask' = [ask EXCEPT ![t] = now + 1]
  /\ Goto(t, "asked")
  /\ UNCHANGED <<saved, chat, reply, from, cover, start, passAge, faults, excused, runs>>

\* The turn reads the chat row (summary and window together) ...
ReadChat(t) ==
  /\ pc[t] = "asked"
  /\ from' = [from EXCEPT ![t] = window]
  /\ cover' = [cover EXCEPT ![t] = summary]
  /\ Goto(t, "read")
  /\ UNCHANGED <<now, saved, chat, ask, reply, start, passAge, faults, excused, runs>>

\* ... and later the messages since that window's start.
History(t) == {m \in saved : m >= from[t]}

ReadHistory(t) ==
  /\ pc[t] = "read"
  /\ cover' = [cover EXCEPT ![t] = @ \cup History(t) \cup {ask[t]}]
  /\ from' = [from EXCEPT ![t] = 0]
  /\ Goto(t, "infer")
  /\ UNCHANGED <<now, saved, chat, ask, reply, start, passAge, faults, excused, runs>>

\* A failed read leaves the history empty and the turn goes on.
ReadHistoryFails(t) ==
  /\ pc[t] = "read"
  /\ Fault
  /\ cover' = [cover EXCEPT ![t] = @ \cup {ask[t]}]
  /\ excused' = excused \cup (History(t) \ cover[t])
  /\ from' = [from EXCEPT ![t] = 0]
  /\ Goto(t, "infer")
  /\ UNCHANGED <<now, saved, chat, ask, reply, start, passAge, runs>>

\* The reply is stamped ...
Reply(t) ==
  /\ pc[t] = "infer"
  /\ now' = now + 1
  /\ reply' = [reply EXCEPT ![t] = now + 1]
  /\ cover' = [cover EXCEPT ![t] = @ \cup {now + 1}]
  /\ Goto(t, "replying")
  /\ UNCHANGED <<saved, chat, ask, from, start, passAge, faults, excused, runs>>

\* ... and saved.
SaveReply(t) ==
  /\ pc[t] = "replying"
  /\ Commit(reply[t])
  /\ Goto(t, "replied")
  /\ UNCHANGED <<now, chat, turn, faults, runs>>

\* It fails or is stopped before its reply.
NoReply(t) ==
  /\ pc[t] \in {"sending", "asked", "read", "infer", "replying"}
  /\ UNCHANGED <<now, saved, chat, faults, excused, runs>>
  /\ EndTurn(t)

-----------------------------------------------------------------------------
(* The checkpoint pass.                                                     *)

\* Mutant: a claim is taken over at once.
ClaimAlways == TRUE

\* ClaimChatCheckpoint's condition.
Claimable == claim # Nobody => passAge[claim] = 2

\* No checkpoint is due, the claim cannot be taken, or claiming failed.
Skip(t) ==
  /\ pc[t] = "replied"
  /\ UNCHANGED <<now, saved, chat, faults, excused, runs>>
  /\ EndTurn(t)

Claim(t) ==
  /\ pc[t] = "replied"
  /\ Claimable
  /\ claim' = t
  /\ Goto(t, "lookup")
  /\ UNCHANGED <<now, saved, summary, window, turn, faults, excused, runs>>

\* The summary of the turn's context and reply could not be written.
SummaryFails(t) ==
  /\ pc[t] = "lookup"
  /\ Forget(t)
  /\ Goto(t, "release")
  /\ UNCHANGED <<now, saved, chat, passAge, faults, excused, runs>>

\* FirstChatMessageSentAtSince, cut at the reply: a message the summary may not
\* have seen was saved during the turn.
OtherDuringTurn(t) ==
  \E m \in saved : ask[t] <= m /\ m < reply[t] /\ m # ask[t]

\* Mutant: the window always starts after the reply.
StartAfterReply(t) == reply[t] + 1

\* Mutant: the step past the reply is longer than the clock's precision.
StartWellAfterReply(t) == IF OtherDuringTurn(t) THEN ask[t] ELSE reply[t] + 2

\* checkpointWindowStartAfter: just after the reply, or at the message answered.
StartOfWindow(t) == IF OtherDuringTurn(t) THEN ask[t] ELSE reply[t] + 1

Lookup(t) ==
  /\ pc[t] = "lookup"
  /\ start' = [start EXCEPT ![t] = StartOfWindow(t)]
  /\ Goto(t, "write")
  /\ UNCHANGED <<now, saved, chat, ask, reply, from, cover, passAge, faults, excused, runs>>

\* A failed lookup counts as "no other message".
LookupFails(t) ==
  /\ pc[t] = "lookup"
  /\ Fault
  /\ start' = [start EXCEPT ![t] = reply[t] + 1]
  /\ excused' = excused \cup {m \in saved : m <= reply[t] /\ m \notin cover[t]}
  /\ Goto(t, "write")
  /\ UNCHANGED <<now, saved, chat, ask, reply, from, cover, passAge, runs>>

\* UpdateChatCheckpointStateAndClearResponseID, on the pass's context.
Persist(t) ==
  /\ pc[t] = "write"
  /\ passAge[t] = 0
  /\ summary' = cover[t]
  /\ window' = start[t]
  /\ Forget(t)
  /\ Goto(t, "release")
  /\ UNCHANGED <<now, saved, claim, passAge, faults, excused, runs>>

PersistFails(t) ==
  /\ pc[t] = "write"
  /\ Forget(t)
  /\ Goto(t, "release")
  /\ UNCHANGED <<now, saved, chat, passAge, faults, excused, runs>>

\* ReleaseChatCheckpoint clears the claim only while it is this turn's.
Release(t) ==
  /\ pc[t] = "release"
  /\ \/ claim' = (IF claim = t THEN Nobody ELSE claim) /\ UNCHANGED faults
     \/ Fault /\ UNCHANGED claim
  /\ UNCHANGED <<now, saved, summary, window, excused, runs>>
  /\ EndTurn(t)

\* Time passes over a pass and its claim, its worker alive or not.
PassTime(t) ==
  /\ pc[t] \in InPass \/ claim = t
  /\ passAge[t] < 2
  /\ passAge' = [passAge EXCEPT ![t] = @ + 1]
  /\ UNCHANGED <<now, saved, chat, pc, ask, reply, from, cover, start, faults, excused, runs>>

\* The worker's process dies; a claim it holds stays.
Die(t) ==
  /\ pc[t] \notin {"none", "over"}
  /\ UNCHANGED <<now, saved, chat, faults, excused, runs>>
  /\ EndTurn(t)

-----------------------------------------------------------------------------
(* Rehydration.                                                             *)

At(r, l) == step' = [step EXCEPT ![r] = l]

\* Mutant: a thread without a summary is rehydrated whatever its state.
NeedsAnyway == summary = {} \/ rehydration = "stale"

\* ClaimChatRehydration's condition: no summary and no rehydration yet, or one that
\* failed, or flagged stale.
NeedsRehydration ==
  \/ summary = {} /\ rehydration \in {"none", "failed"}
  \/ rehydration = "stale"

\* The thread is opened, or a turn reaches the rehydration gate.  (That the job first
\* marks the thread "processing" makes no difference to anyone.)
EnqueueRehydration(r) ==
  /\ step[r] = "idle"
  /\ NeedsRehydration
  /\ rehydration' = "pending"
  /\ At(r, "load")
  /\ UNCHANGED <<now, saved, chat, pc, turn, seen, gist, point, faults, excused>>

\* The job reads the messages ...
ReadTranscript(r) ==
  /\ step[r] = "load"
  /\ seen' = [seen EXCEPT ![r] = saved]
  /\ At(r, "split")
  /\ UNCHANGED <<now, saved, chat, pc, turn, rehydration, gist, point, faults, excused>>

\* ... and then the stored summary and window, whatever wrote them.
NotSummarised(r) == {m \in seen[r] : m >= window}

\* Mutant: what follows the summary is folded into none.
GistAlone(r, p) == {m \in NotSummarised(r) : m < p}

\* The summary of the messages before p, over the stored one.
Gist(r, p) == summary \cup {m \in NotSummarised(r) : m < p}

\* splitForRehydration leaves a few turns, how many is left open, and writes the
\* summary of what is before them.
Split(r) ==
  /\ step[r] = "split"
  /\ \E p \in NotSummarised(r) :
       /\ \E m \in NotSummarised(r) : m < p
       /\ point' = [point EXCEPT ![r] = p]
       /\ gist' = [gist EXCEPT ![r] = Gist(r, p)]
  /\ seen' = [seen EXCEPT ![r] = {}]
  /\ At(r, "write")
  /\ UNCHANGED <<now, saved, chat, pc, turn, rehydration, faults, excused>>

\* A rehydration ends with its copies, and may be run again.
EndRun(r) ==
  /\ At(r, "idle")
  /\ seen' = [seen EXCEPT ![r] = {}]
  /\ gist' = [gist EXCEPT ![r] = {}]
  /\ point' = [point EXCEPT ![r] = 0]

\* There are no more turns than those: the thread is used in full.
NothingToSplit(r) ==
  /\ step[r] = "split"
  /\ rehydration' = "ready"
  /\ EndRun(r)
  /\ UNCHANGED <<now, saved, chat, pc, turn, faults, excused>>

\* SetImportedThreadRehydrated: one update, whoever holds the checkpoint claim.
StoreRehydrated(r) ==
  /\ step[r] = "write"
  /\ summary' = gist[r]
  /\ window' = point[r]
  /\ rehydration' = "ready"
  /\ EndRun(r)
  /\ UNCHANGED <<now, saved, claim, pc, turn, faults, excused>>

\* The job row, a read, the summary or the write fails; a later use tries again.
FailRehydration(r) ==
  /\ step[r] \in Rehydrating
  /\ rehydration' = "failed"
  /\ EndRun(r)
  /\ UNCHANGED <<now, saved, chat, pc, turn, faults, excused>>

\* Its process dies, or cannot store that it failed: nothing resets the state.
AbandonRehydration(r) ==
  /\ step[r] \in Rehydrating
  /\ EndRun(r)
  /\ UNCHANGED <<now, saved, chat, pc, turn, rehydration, faults, excused>>

TurnStep ==
  \E t \in Turns :
    \/ Send(t) \/ SaveMessage(t) \/ Retry(t) \/ StartRun(t) \/ ReadChat(t)
    \/ ReadHistory(t) \/ ReadHistoryFails(t) \/ Reply(t) \/ SaveReply(t)
    \/ NoReply(t) \/ Skip(t) \/ Claim(t) \/ SummaryFails(t)
    \/ Lookup(t) \/ LookupFails(t) \/ Persist(t) \/ PersistFails(t)
    \/ Release(t) \/ PassTime(t) \/ Die(t)

RehydrationStep ==
  \E r \in Runs :
    \/ EnqueueRehydration(r) \/ ReadTranscript(r) \/ Split(r) \/ NothingToSplit(r)
    \/ StoreRehydrated(r) \/ FailRehydration(r) \/ AbandonRehydration(r)

Next == TurnStep \/ RehydrationStep

Spec == Init /\ [][Next]_vars

-----------------------------------------------------------------------------
(* Properties.                                                              *)

\* Types; and nothing is saved, summarised or about to be that no clock has stamped,
\* and the window starts at a stamp or just after one, never further on: what is
\* sent next is never behind it.
TypeOK ==
  /\ now \in Nat
  /\ saved \subseteq 1..now
  /\ summary \subseteq 1..now
  /\ window \in 0..(now + 1)
  /\ claim \in Turns \cup {Nobody}
  /\ pc \in [Turns -> Labels]
  /\ ask \in [Turns -> Nat]
  /\ reply \in [Turns -> Nat]
  /\ from \in [Turns -> Nat]
  /\ cover \in [Turns -> SUBSET (1..now)]
  /\ start \in [Turns -> Nat]
  /\ passAge \in [Turns -> 0..2]
  /\ rehydration \in States
  /\ step \in [Runs -> {"idle"} \cup Rehydrating]
  /\ seen \in [Runs -> SUBSET (1..now)]
  /\ gist \in [Runs -> SUBSET (1..now)]
  /\ point \in [Runs -> 0..now]
  /\ faults \in Nat
  /\ excused \subseteq saved

\* No message hides behind a summary that never saw it (#268): one that a turn
\* reading the chat now would not load as history is covered by the summary it
\* would load, whatever was sent while a pass ran and in whatever order passes and
\* rehydrations wrote; unless a read or lookup failed on it, or it committed out of
\* order.
NothingHidden ==
  \A m \in saved : m < window => m \in summary \cup excused

\* At most one pass and one rehydration can still write the chat, across
\* instances, crashes, failures and claims taken over.
OnePassAtATime ==
  /\ \A t, u \in Turns :
       /\ pc[t] \in InPass /\ passAge[t] = 0
       /\ pc[u] \in InPass /\ passAge[u] = 0
       => t = u
  /\ \A r, q \in Runs :
       step[r] \in Rehydrating /\ step[q] \in Rehydrating => r = q
=============================================================================

-------------------------- MODULE Checkpoint_proofs --------------------------
(***************************************************************************)
(* Proofs about the checkpoints of a chat, for any number of turns.        *)
(*                                                                         *)
(* NothingHidden speaks of the stored summary and window; the invariant    *)
(* says the same of every pair on its way there: the copy of the chat a    *)
(* turn read (CopyComplete), the context it built from it and its history  *)
(* (ContextComplete), and the pair its pass is to store (StoreComplete);   *)
(* and of a rehydration, the messages it read (TranscriptComplete) and the *)
(* pair it is to store (GistComplete).  So each pair is complete by itself *)
(* and it does not matter who writes last.  Each survives a later commit   *)
(* because the message then has the newest stamp, beyond all of them, or   *)
(* is excused (Stamps).                                                    *)
(***************************************************************************)
EXTENDS Checkpoint, TLAPS

\* A message that commits with the newest stamp is not before the window w.
NotAhead(w) == w <= now \/ (w = now + 1 /\ now \in saved)

\* What is stamped is not newer than now, and a stamp still to be saved is its
\* owner's alone.
Stamps ==
  /\ NotAhead(window)
  /\ \A t \in Turns :
       /\ pc[t] # "none" => ask[t] \in 1..now
       /\ pc[t] \in {"replying"} \cup HasReply => reply[t] \in cover[t]
       /\ pc[t] = "sending" => ask[t] \notin saved
       /\ pc[t] = "replying" => reply[t] \notin saved
       /\ pc[t] \in HasReply => reply[t] \in saved
       /\ pc[t] \in HasRead => NotAhead(from[t])
       /\ pc[t] = "write" => NotAhead(start[t])
  /\ \A t, u \in Turns :
       /\ pc[t] = "sending" /\ pc[u] = "sending" /\ t # u => ask[t] # ask[u]
       /\ pc[t] = "sending" /\ pc[u] = "replying" => ask[t] # reply[u]
       /\ pc[t] = "replying" /\ pc[u] = "replying" /\ t # u => reply[t] # reply[u]

\* The copy of the chat a turn holds hides nothing.
CopyComplete ==
  \A t \in Turns : pc[t] \in HasRead =>
    \A m \in saved : m < from[t] => m \in cover[t] \cup excused

\* A turn's context covers what was sent before the message it answers.
ContextComplete ==
  \A t \in Turns : pc[t] \in HasContext =>
    /\ ask[t] \in cover[t]
    /\ \A m \in saved : m < ask[t] => m \in cover[t] \cup excused

\* What a pass is to store hides nothing.
StoreComplete ==
  \A t \in Turns : pc[t] = "write" =>
    \A m \in saved : m < start[t] => m \in cover[t] \cup excused

\* A rehydration read every message before the newest one it read.
TranscriptComplete ==
  \A r \in Runs : step[r] = "split" =>
    \A p \in seen[r], m \in saved : m < p => m \in seen[r] \cup excused

\* What a rehydration is to store hides nothing.
GistComplete ==
  \A r \in Runs : step[r] = "write" =>
    /\ point[r] \in 1..now
    /\ \A m \in saved : m < point[r] => m \in gist[r] \cup excused

VisibleInv ==
  /\ TypeOK /\ Stamps
  /\ CopyComplete /\ ContextComplete /\ StoreComplete
  /\ TranscriptComplete /\ GistComplete
  /\ NothingHidden

\* A pass that may still write holds the claim, unless it was taken over late.
ClaimHeld ==
  \A t \in Turns : pc[t] \in InPass /\ passAge[t] < 2 => claim = t

\* A rehydration that may still write holds the thread's state, alone.
StateHeld ==
  /\ \A r \in Runs : step[r] \in Rehydrating => rehydration = "pending"
  /\ \A r, q \in Runs : step[r] \in Rehydrating /\ step[q] \in Rehydrating => r = q

-----------------------------------------------------------------------------
\* Types: the initial values and every step keep each variable in its set.
LEMMA InitTypeOK == Init => TypeOK
BY ConstantsAssumption DEF Init, Unsummarised, Behind, TypeOK, States, Rehydrating, Labels

\* Every step keeps the types.
LEMMA StepTypeOK == TypeOK /\ Stamps /\ [Next]_vars => TypeOK'
<1> SUFFICES ASSUME TypeOK, Stamps, [Next]_vars PROVE TypeOK'
  OBVIOUS
<1> USE ConstantsAssumption DEF TypeOK, States, Rehydrating, Labels, InPass,
   HasReply, HasContext, HasRead
<1>1. ASSUME NEW t \in Turns, Send(t) PROVE TypeOK'
  BY <1>1 DEF Send, Goto, chat, runs
<1>2. ASSUME NEW t \in Turns, SaveMessage(t) PROVE TypeOK'
  <2>1. ask[t] \in 1..now
    BY <1>2 DEF SaveMessage, Stamps
  <2>2. QED
    BY <1>2, <2>1 DEF SaveMessage, Commit, Goto, chat, turn, runs
<1>3. ASSUME NEW t \in Turns, Retry(t) PROVE TypeOK'
  BY <1>3 DEF Retry, Goto, chat, runs
<1>4. ASSUME NEW t \in Turns, StartRun(t) PROVE TypeOK'
  BY <1>4 DEF StartRun, Goto, chat, runs
<1>5. ASSUME NEW t \in Turns, ReadChat(t) PROVE TypeOK'
  BY <1>5 DEF ReadChat, Goto, chat, runs
<1>6. ASSUME NEW t \in Turns, ReadHistory(t) PROVE TypeOK'
  <2>1. cover' = [cover EXCEPT ![t] = cover[t] \cup History(t) \cup {ask[t]}] /\ now' = now
    BY <1>6 DEF ReadHistory, chat, runs
  <2>2. (cover[t] \cup History(t) \cup {ask[t]}) \in SUBSET (1..now')
    BY <2>1, <1>6 DEF ReadHistory, Stamps, History
  <2>3. \A u \in Turns : cover[u] \in SUBSET (1..now')
    BY <2>1
  <2>4. cover' \in [Turns -> SUBSET (1..now')]
    BY <2>1, <2>2, <2>3
  <2>5. QED
    BY <1>6, <2>1, <2>4 DEF ReadHistory, Goto, chat, runs
<1>7. ASSUME NEW t \in Turns, ReadHistoryFails(t) PROVE TypeOK'
  <2>1. cover' = [cover EXCEPT ![t] = cover[t] \cup {ask[t]}] /\ now' = now
    BY <1>7 DEF ReadHistoryFails, chat, runs
  <2>2. (cover[t] \cup {ask[t]}) \in SUBSET (1..now')
    BY <2>1, <1>7 DEF ReadHistoryFails, Stamps
  <2>3. \A u \in Turns : cover[u] \in SUBSET (1..now')
    BY <2>1
  <2>4. cover' \in [Turns -> SUBSET (1..now')]
    BY <2>1, <2>2, <2>3
  <2>5. excused' \subseteq saved
    BY <1>7 DEF ReadHistoryFails, History
  <2>6. pc' \in [Turns -> Labels] /\ from' \in [Turns -> Nat] /\ faults' \in Nat
    BY <1>7 DEF ReadHistoryFails, Fault, Goto
  <2>7. UNCHANGED <<now, saved, summary, window, claim, ask, reply, start, passAge,
                    rehydration, step, seen, gist, point>>
    BY <1>7 DEF ReadHistoryFails, chat, runs
  <2>8. QED
    BY <2>4, <2>5, <2>6, <2>7
<1>8. ASSUME NEW t \in Turns, Reply(t) PROVE TypeOK'
  <2>1. cover' = [cover EXCEPT ![t] = cover[t] \cup {now + 1}] /\ now' = now + 1
    BY <1>8 DEF Reply, chat, runs
  <2>2. (cover[t] \cup {now + 1}) \in SUBSET (1..now')
    BY <2>1
  <2>3. \A u \in Turns : cover[u] \in SUBSET (1..now')
    BY <2>1
  <2>4. cover' \in [Turns -> SUBSET (1..now')]
    BY <2>1, <2>2, <2>3
  <2>5. QED
    BY <1>8, <2>1, <2>4 DEF Reply, Goto, chat, runs
<1>9. ASSUME NEW t \in Turns, SaveReply(t) PROVE TypeOK'
  <2>1. reply[t] \in 1..now
    BY <1>9 DEF SaveReply, Stamps
  <2>2. QED
    BY <1>9, <2>1 DEF SaveReply, Commit, Goto, chat, turn, runs
<1>10. ASSUME NEW t \in Turns, NoReply(t) PROVE TypeOK'
  BY <1>10 DEF NoReply, Goto, chat, turn, runs, EndTurn, Forget
<1>11. ASSUME NEW t \in Turns, Skip(t) PROVE TypeOK'
  BY <1>11 DEF Skip, Goto, chat, turn, runs, EndTurn, Forget
<1>12. ASSUME NEW t \in Turns, Claim(t) PROVE TypeOK'
  BY <1>12 DEF Claim, Claimable, Goto, turn, runs
<1>13. ASSUME NEW t \in Turns, SummaryFails(t) PROVE TypeOK'
  BY <1>13 DEF SummaryFails, Goto, chat, turn, runs, Forget
<1>14. ASSUME NEW t \in Turns, Lookup(t) PROVE TypeOK'
  BY <1>14 DEF Lookup, StartOfWindow, OtherDuringTurn, Goto, chat, runs
<1>15. ASSUME NEW t \in Turns, LookupFails(t) PROVE TypeOK'
  <2>1. excused' \subseteq saved
    BY <1>15 DEF LookupFails
  <2>2. start' \in [Turns -> Nat] /\ pc' \in [Turns -> Labels] /\ faults' \in Nat
    BY <1>15 DEF LookupFails, Fault, Goto
  <2>3. UNCHANGED <<now, saved, summary, window, claim, ask, reply, from, cover, passAge,
                    rehydration, step, seen, gist, point>>
    BY <1>15 DEF LookupFails, chat, runs
  <2>4. QED
    BY <2>1, <2>2, <2>3
<1>16. ASSUME NEW t \in Turns, Persist(t) PROVE TypeOK'
  <2>1. start[t] \in 0..(now + 1)
    BY <1>16 DEF Persist, Stamps, NotAhead
  <2>2. QED
    BY <1>16, <2>1 DEF Persist, Goto, turn, runs, Forget
<1>17. ASSUME NEW t \in Turns, PersistFails(t) PROVE TypeOK'
  BY <1>17 DEF PersistFails, Goto, chat, turn, runs, Forget
<1>18. ASSUME NEW t \in Turns, Release(t) PROVE TypeOK'
  BY <1>18 DEF Release, Fault, Goto, turn, runs, EndTurn, Forget
<1>19. ASSUME NEW t \in Turns, PassTime(t) PROVE TypeOK'
  BY <1>19 DEF PassTime, chat, runs
<1>20. ASSUME NEW t \in Turns, Die(t) PROVE TypeOK'
  BY <1>20 DEF Die, Goto, chat, turn, runs, EndTurn, Forget
<1>21. ASSUME NEW r \in Runs, EnqueueRehydration(r) PROVE TypeOK'
  BY <1>21 DEF EnqueueRehydration, NeedsRehydration, At, chat, turn
<1>22. ASSUME NEW r \in Runs, ReadTranscript(r) PROVE TypeOK'
  BY <1>22 DEF ReadTranscript, At, chat, turn
<1>23. ASSUME NEW r \in Runs, Split(r) PROVE TypeOK'
  <2>1. PICK p \in NotSummarised(r) : /\ point' = [point EXCEPT ![r] = p]
                                      /\ gist' = [gist EXCEPT ![r] = Gist(r, p)]
    BY <1>23 DEF Split
  <2>2. seen[r] \subseteq 1..now
    OBVIOUS
  <2>3. p \in 0..now
    BY <2>1, <2>2 DEF NotSummarised
  <2>4. Gist(r, p) \subseteq summary \cup seen[r]
    BY DEF Gist, NotSummarised
  <2>5. point' \in [Runs -> 0..now] /\ gist' \in [Runs -> SUBSET (1..now)]
    BY <2>1, <2>2, <2>3, <2>4
  <2>6. seen' \in [Runs -> SUBSET (1..now)]
    BY <1>23 DEF Split
  <2>7. step' \in [Runs -> {"idle"} \cup Rehydrating]
    BY <1>23 DEF Split, At
  <2>8. UNCHANGED <<now, saved, summary, window, claim, pc, ask, reply, from, cover, start,
                    passAge, rehydration, faults, excused>>
    BY <1>23 DEF Split, chat, turn
  <2>9. QED
    BY <2>5, <2>6, <2>7, <2>8
<1>24. ASSUME NEW r \in Runs, NothingToSplit(r) PROVE TypeOK'
  BY <1>24 DEF NothingToSplit, EndRun, At, chat, turn
<1>25. ASSUME NEW r \in Runs, StoreRehydrated(r) PROVE TypeOK'
  BY <1>25 DEF StoreRehydrated, EndRun, At, turn
<1>26. ASSUME NEW r \in Runs, FailRehydration(r) PROVE TypeOK'
  BY <1>26 DEF FailRehydration, EndRun, At, chat, turn
<1>27. ASSUME NEW r \in Runs, AbandonRehydration(r) PROVE TypeOK'
  BY <1>27 DEF AbandonRehydration, EndRun, At, chat, turn
<1>28. CASE UNCHANGED vars
  BY <1>28 DEF vars
<1>29. QED
  BY <1>1, <1>2, <1>3, <1>4, <1>5, <1>6, <1>7, <1>8, <1>9, <1>10, <1>11, <1>12,
     <1>13, <1>14, <1>15, <1>16, <1>17, <1>18, <1>19, <1>20, <1>21, <1>22, <1>23, <1>24,
     <1>25, <1>26, <1>27, <1>28 DEF Next, TurnStep, RehydrationStep

\* The window may start just after a message that has committed.
LEMMA AfterSaved ==
  ASSUME NEW m \in 1..now, m \in saved, now \in Nat
  PROVE  NotAhead(m + 1)
BY DEF NotAhead

\* Stamps only grow, and each is given to one turn.
LEMMA StepStamps == TypeOK /\ Stamps /\ GistComplete /\ [Next]_vars => Stamps'
<1> SUFFICES ASSUME TypeOK, Stamps, GistComplete, [Next]_vars PROVE Stamps'
  OBVIOUS
<1> USE ConstantsAssumption DEF TypeOK, Stamps, NotAhead, States, Rehydrating,
   Labels, InPass, HasReply, HasContext, HasRead
<1>1. ASSUME NEW t \in Turns, Send(t) PROVE Stamps'
  <2>1. /\ pc[t] = "none" /\ pc' = [pc EXCEPT ![t] = "sending"]
        /\ now' = now + 1 /\ ask' = [ask EXCEPT ![t] = now + 1]
        /\ UNCHANGED <<saved, window, reply, from, cover, start>>
    BY <1>1 DEF Send, Goto, chat
  <2>2. /\ ask'[t] = now + 1 /\ pc'[t] = "sending"
        /\ \A u \in Turns \ {t} : ask'[u] = ask[u] /\ pc'[u] = pc[u]
    BY <2>1
  <2>3. \A u \in Turns : pc[u] = "replying" => reply[u] \in 1..now
    BY DEF Stamps
  <2>4. \A u, v \in Turns :
          /\ pc'[u] = "sending" /\ pc'[v] = "sending" /\ u # v => ask'[u] # ask'[v]
          /\ pc'[u] = "sending" /\ pc'[v] = "replying" => ask'[u] # reply'[v]
          /\ pc'[u] = "replying" /\ pc'[v] = "replying" /\ u # v => reply'[u] # reply'[v]
    BY <2>1, <2>2, <2>3
  <2>5. QED
    BY <2>1, <2>2, <2>4
<1>2. ASSUME NEW t \in Turns, SaveMessage(t) PROVE Stamps'
  BY <1>2 DEF SaveMessage, Commit, Goto, chat, turn
<1>3. ASSUME NEW t \in Turns, Retry(t) PROVE Stamps'
  BY <1>3 DEF Retry, Goto, chat
<1>4. ASSUME NEW t \in Turns, StartRun(t) PROVE Stamps'
  BY <1>4 DEF StartRun, Goto, chat
<1>5. ASSUME NEW t \in Turns, ReadChat(t) PROVE Stamps'
  BY <1>5 DEF ReadChat, Goto, chat
<1>6. ASSUME NEW t \in Turns, ReadHistory(t) PROVE Stamps'
  BY <1>6 DEF ReadHistory, History, Goto, chat
<1>7. ASSUME NEW t \in Turns, ReadHistoryFails(t) PROVE Stamps'
  BY <1>7 DEF ReadHistoryFails, History, Fault, Goto, chat
<1>8. ASSUME NEW t \in Turns, Reply(t) PROVE Stamps'
  BY <1>8 DEF Reply, Goto, chat
<1>9. ASSUME NEW t \in Turns, SaveReply(t) PROVE Stamps'
  BY <1>9 DEF SaveReply, Commit, Goto, chat, turn
<1>10. ASSUME NEW t \in Turns, NoReply(t) PROVE Stamps'
  BY <1>10 DEF NoReply, Goto, chat, turn, EndTurn, Forget
<1>11. ASSUME NEW t \in Turns, Skip(t) PROVE Stamps'
  BY <1>11 DEF Skip, Goto, chat, turn, EndTurn, Forget
<1>12. ASSUME NEW t \in Turns, Claim(t) PROVE Stamps'
  BY <1>12 DEF Claim, Claimable, Goto, turn
<1>13. ASSUME NEW t \in Turns, SummaryFails(t) PROVE Stamps'
  BY <1>13 DEF SummaryFails, Goto, chat, turn, Forget
<1>14. ASSUME NEW t \in Turns, Lookup(t) PROVE Stamps'
  <2>1. /\ pc[t] = "lookup" /\ pc' = [pc EXCEPT ![t] = "write"]
        /\ start' = [start EXCEPT ![t] = StartOfWindow(t)]
        /\ UNCHANGED <<now, saved, window, ask, reply, from, cover>>
    BY <1>14 DEF Lookup, Goto, chat
  <2>2. ask[t] \in 1..now /\ reply[t] \in 1..now /\ reply[t] \in saved
    BY <2>1
  <2>3. NotAhead(StartOfWindow(t))
    <3>1. NotAhead(ask[t]) /\ NotAhead(reply[t] + 1)
      BY <2>2, AfterSaved
    <3>2. QED
      BY <3>1 DEF StartOfWindow
  <2>4. \A u \in Turns : pc'[u] = "write" => NotAhead(start'[u])
    BY <2>1, <2>3
  <2>5. \A u \in Turns : pc'[u] # "write" => pc'[u] = pc[u]
    BY <2>1
  <2>6. QED
    BY <2>1, <2>2, <2>4, <2>5
<1>15. ASSUME NEW t \in Turns, LookupFails(t) PROVE Stamps'
  <2>1. /\ pc[t] = "lookup" /\ start' = [start EXCEPT ![t] = reply[t] + 1]
        /\ pc' = [pc EXCEPT ![t] = "write"]
    BY <1>15 DEF LookupFails, Goto
  <2>2. UNCHANGED <<now, saved, window, ask, reply, from, cover>>
    BY <1>15 DEF LookupFails, chat
  <2>3. reply[t] \in 1..now /\ reply[t] \in saved
    BY <2>1
  <2>4. NotAhead(reply[t] + 1)
    BY <2>3, AfterSaved
  <2>5. \A u \in Turns : pc'[u] = "write" => NotAhead(start'[u])
    BY <2>1, <2>2, <2>4
  <2>6. \A u \in Turns : pc'[u] # "write" => pc'[u] = pc[u]
    BY <2>1
  <2>7. QED
    BY <2>1, <2>2, <2>5, <2>6
<1>16. ASSUME NEW t \in Turns, Persist(t) PROVE Stamps'
  BY <1>16 DEF Persist, Goto, turn, Forget
<1>17. ASSUME NEW t \in Turns, PersistFails(t) PROVE Stamps'
  BY <1>17 DEF PersistFails, Goto, chat, turn, Forget
<1>18. ASSUME NEW t \in Turns, Release(t) PROVE Stamps'
  BY <1>18 DEF Release, Fault, Goto, turn, EndTurn, Forget
<1>19. ASSUME NEW t \in Turns, PassTime(t) PROVE Stamps'
  BY <1>19 DEF PassTime, chat
<1>20. ASSUME NEW t \in Turns, Die(t) PROVE Stamps'
  BY <1>20 DEF Die, Goto, chat, turn, EndTurn, Forget
<1>21. ASSUME NEW r \in Runs, EnqueueRehydration(r) PROVE Stamps'
  BY <1>21 DEF EnqueueRehydration, NeedsRehydration, At, chat, turn
<1>22. ASSUME NEW r \in Runs, ReadTranscript(r) PROVE Stamps'
  BY <1>22 DEF ReadTranscript, At, chat, turn
<1>23. ASSUME NEW r \in Runs, Split(r) PROVE Stamps'
  BY <1>23 DEF Split, NotSummarised, Gist, At, chat, turn
<1>24. ASSUME NEW r \in Runs, NothingToSplit(r) PROVE Stamps'
  BY <1>24 DEF NothingToSplit, EndRun, At, chat, turn
<1>25. ASSUME NEW r \in Runs, StoreRehydrated(r) PROVE Stamps'
  BY <1>25 DEF StoreRehydrated, GistComplete, EndRun, At, turn
<1>26. ASSUME NEW r \in Runs, FailRehydration(r) PROVE Stamps'
  BY <1>26 DEF FailRehydration, EndRun, At, chat, turn
<1>27. ASSUME NEW r \in Runs, AbandonRehydration(r) PROVE Stamps'
  BY <1>27 DEF AbandonRehydration, EndRun, At, chat, turn
<1>28. CASE UNCHANGED vars
  BY <1>28 DEF vars
<1>29. QED
  BY <1>1, <1>2, <1>3, <1>4, <1>5, <1>6, <1>7, <1>8, <1>9, <1>10, <1>11, <1>12,
     <1>13, <1>14, <1>15, <1>16, <1>17, <1>18, <1>19, <1>20, <1>21, <1>22, <1>23, <1>24,
     <1>25, <1>26, <1>27, <1>28 DEF Next, TurnStep, RehydrationStep

\* A window never passes a message that can still commit without an excuse, so the
\* copy a turn takes of the chat stays complete.
LEMMA StepCopy ==
  TypeOK /\ Stamps /\ CopyComplete /\ NothingHidden /\ [Next]_vars
  => CopyComplete'
<1> SUFFICES ASSUME TypeOK, Stamps, CopyComplete, NothingHidden, [Next]_vars
             PROVE CopyComplete'
  OBVIOUS
<1> USE ConstantsAssumption DEF TypeOK, Stamps, NotAhead, CopyComplete,
   NothingHidden, States, Rehydrating, Labels, InPass, HasReply, HasContext, HasRead
<1>1. ASSUME NEW t \in Turns, Send(t) PROVE CopyComplete'
  BY <1>1 DEF Send, Goto, chat
<1>2. ASSUME NEW t \in Turns, SaveMessage(t) PROVE CopyComplete'
  <2>1. /\ saved' = saved \cup {ask[t]} /\ ask[t] \in 1..now /\ ask[t] \notin saved
        /\ pc' = [pc EXCEPT ![t] = "asked"] /\ pc[t] = "sending"
        /\ UNCHANGED <<now, summary, window, from, cover>>
    BY <1>2 DEF SaveMessage, Commit, Goto, chat, turn
  <2>2. excused \subseteq excused' /\ (ask[t] < now => ask[t] \in excused')
    BY <1>2 DEF SaveMessage, Commit
  <2>3. SUFFICES ASSUME NEW u \in Turns, pc'[u] \in HasRead,
                        NEW m \in saved', m < from'[u]
                 PROVE m \in cover'[u] \cup excused'
    OBVIOUS
  <2>4. u # t /\ pc[u] \in HasRead /\ NotAhead(from[u])
    BY <2>1, <2>3
  <2>5. CASE m \in saved
    BY <2>1, <2>2, <2>3, <2>4, <2>5
  <2>6. CASE m = ask[t]
    BY <2>1, <2>2, <2>3, <2>4, <2>6
  <2>7. QED
    BY <2>1, <2>5, <2>6
<1>3. ASSUME NEW t \in Turns, Retry(t) PROVE CopyComplete'
  BY <1>3 DEF Retry, Goto, chat
<1>4. ASSUME NEW t \in Turns, StartRun(t) PROVE CopyComplete'
  BY <1>4 DEF StartRun, Goto, chat
<1>5. ASSUME NEW t \in Turns, ReadChat(t) PROVE CopyComplete'
  BY <1>5 DEF ReadChat, Goto, chat
<1>6. ASSUME NEW t \in Turns, ReadHistory(t) PROVE CopyComplete'
  BY <1>6 DEF ReadHistory, History, Goto, chat
<1>7. ASSUME NEW t \in Turns, ReadHistoryFails(t) PROVE CopyComplete'
  BY <1>7 DEF ReadHistoryFails, History, Fault, Goto, chat
<1>8. ASSUME NEW t \in Turns, Reply(t) PROVE CopyComplete'
  BY <1>8 DEF Reply, Goto, chat
<1>9. ASSUME NEW t \in Turns, SaveReply(t) PROVE CopyComplete'
  BY <1>9 DEF SaveReply, Commit, Goto, chat, turn
<1>10. ASSUME NEW t \in Turns, NoReply(t) PROVE CopyComplete'
  BY <1>10 DEF NoReply, Goto, chat, turn, EndTurn, Forget
<1>11. ASSUME NEW t \in Turns, Skip(t) PROVE CopyComplete'
  BY <1>11 DEF Skip, Goto, chat, turn, EndTurn, Forget
<1>12. ASSUME NEW t \in Turns, Claim(t) PROVE CopyComplete'
  BY <1>12 DEF Claim, Claimable, Goto, turn
<1>13. ASSUME NEW t \in Turns, SummaryFails(t) PROVE CopyComplete'
  BY <1>13 DEF SummaryFails, Goto, chat, turn, Forget
<1>14. ASSUME NEW t \in Turns, Lookup(t) PROVE CopyComplete'
  BY <1>14 DEF Lookup, StartOfWindow, OtherDuringTurn, Goto, chat
<1>15. ASSUME NEW t \in Turns, LookupFails(t) PROVE CopyComplete'
  BY <1>15 DEF LookupFails, Fault, Goto, chat
<1>16. ASSUME NEW t \in Turns, Persist(t) PROVE CopyComplete'
  BY <1>16 DEF Persist, Goto, turn, Forget
<1>17. ASSUME NEW t \in Turns, PersistFails(t) PROVE CopyComplete'
  BY <1>17 DEF PersistFails, Goto, chat, turn, Forget
<1>18. ASSUME NEW t \in Turns, Release(t) PROVE CopyComplete'
  BY <1>18 DEF Release, Fault, Goto, turn, EndTurn, Forget
<1>19. ASSUME NEW t \in Turns, PassTime(t) PROVE CopyComplete'
  BY <1>19 DEF PassTime, chat
<1>20. ASSUME NEW t \in Turns, Die(t) PROVE CopyComplete'
  BY <1>20 DEF Die, Goto, chat, turn, EndTurn, Forget
<1>21. ASSUME NEW r \in Runs, EnqueueRehydration(r) PROVE CopyComplete'
  BY <1>21 DEF EnqueueRehydration, NeedsRehydration, At, chat, turn
<1>22. ASSUME NEW r \in Runs, ReadTranscript(r) PROVE CopyComplete'
  BY <1>22 DEF ReadTranscript, At, chat, turn
<1>23. ASSUME NEW r \in Runs, Split(r) PROVE CopyComplete'
  BY <1>23 DEF Split, NotSummarised, Gist, At, chat, turn
<1>24. ASSUME NEW r \in Runs, NothingToSplit(r) PROVE CopyComplete'
  BY <1>24 DEF NothingToSplit, EndRun, At, chat, turn
<1>25. ASSUME NEW r \in Runs, StoreRehydrated(r) PROVE CopyComplete'
  BY <1>25 DEF StoreRehydrated, EndRun, At, turn
<1>26. ASSUME NEW r \in Runs, FailRehydration(r) PROVE CopyComplete'
  BY <1>26 DEF FailRehydration, EndRun, At, chat, turn
<1>27. ASSUME NEW r \in Runs, AbandonRehydration(r) PROVE CopyComplete'
  BY <1>27 DEF AbandonRehydration, EndRun, At, chat, turn
<1>28. CASE UNCHANGED vars
  BY <1>28 DEF vars
<1>29. QED
  BY <1>1, <1>2, <1>3, <1>4, <1>5, <1>6, <1>7, <1>8, <1>9, <1>10, <1>11, <1>12,
     <1>13, <1>14, <1>15, <1>16, <1>17, <1>18, <1>19, <1>20, <1>21, <1>22, <1>23, <1>24,
     <1>25, <1>26, <1>27, <1>28 DEF Next, TurnStep, RehydrationStep

\* History reaches back to the window of the copy, so the context covers whatever was
\* sent before its message.
LEMMA StepContext ==
  TypeOK /\ Stamps /\ CopyComplete /\ ContextComplete /\ [Next]_vars
  => ContextComplete'
<1> SUFFICES ASSUME TypeOK, Stamps, CopyComplete, ContextComplete, [Next]_vars
             PROVE ContextComplete'
  OBVIOUS
<1> USE ConstantsAssumption DEF TypeOK, Stamps, NotAhead, CopyComplete,
   ContextComplete, States, Rehydrating, Labels, InPass, HasReply, HasContext, HasRead
<1>1. ASSUME NEW t \in Turns, Send(t) PROVE ContextComplete'
  BY <1>1 DEF Send, Goto, chat
<1>2. ASSUME NEW t \in Turns, SaveMessage(t) PROVE ContextComplete'
  BY <1>2 DEF SaveMessage, Commit, Goto, chat, turn
<1>3. ASSUME NEW t \in Turns, Retry(t) PROVE ContextComplete'
  BY <1>3 DEF Retry, Goto, chat
<1>4. ASSUME NEW t \in Turns, StartRun(t) PROVE ContextComplete'
  BY <1>4 DEF StartRun, Goto, chat
<1>5. ASSUME NEW t \in Turns, ReadChat(t) PROVE ContextComplete'
  BY <1>5 DEF ReadChat, Goto, chat
<1>6. ASSUME NEW t \in Turns, ReadHistory(t) PROVE ContextComplete'
  BY <1>6 DEF ReadHistory, History, Goto, chat
<1>7. ASSUME NEW t \in Turns, ReadHistoryFails(t) PROVE ContextComplete'
  BY <1>7 DEF ReadHistoryFails, History, Fault, Goto, chat
<1>8. ASSUME NEW t \in Turns, Reply(t) PROVE ContextComplete'
  BY <1>8 DEF Reply, Goto, chat
<1>9. ASSUME NEW t \in Turns, SaveReply(t) PROVE ContextComplete'
  BY <1>9 DEF SaveReply, Commit, Goto, chat, turn
<1>10. ASSUME NEW t \in Turns, NoReply(t) PROVE ContextComplete'
  BY <1>10 DEF NoReply, Goto, chat, turn, EndTurn, Forget
<1>11. ASSUME NEW t \in Turns, Skip(t) PROVE ContextComplete'
  BY <1>11 DEF Skip, Goto, chat, turn, EndTurn, Forget
<1>12. ASSUME NEW t \in Turns, Claim(t) PROVE ContextComplete'
  BY <1>12 DEF Claim, Claimable, Goto, turn
<1>13. ASSUME NEW t \in Turns, SummaryFails(t) PROVE ContextComplete'
  BY <1>13 DEF SummaryFails, Goto, chat, turn, Forget
<1>14. ASSUME NEW t \in Turns, Lookup(t) PROVE ContextComplete'
  BY <1>14 DEF Lookup, StartOfWindow, OtherDuringTurn, Goto, chat
<1>15. ASSUME NEW t \in Turns, LookupFails(t) PROVE ContextComplete'
  BY <1>15 DEF LookupFails, Fault, Goto, chat
<1>16. ASSUME NEW t \in Turns, Persist(t) PROVE ContextComplete'
  BY <1>16 DEF Persist, Goto, turn, Forget
<1>17. ASSUME NEW t \in Turns, PersistFails(t) PROVE ContextComplete'
  BY <1>17 DEF PersistFails, Goto, chat, turn, Forget
<1>18. ASSUME NEW t \in Turns, Release(t) PROVE ContextComplete'
  BY <1>18 DEF Release, Fault, Goto, turn, EndTurn, Forget
<1>19. ASSUME NEW t \in Turns, PassTime(t) PROVE ContextComplete'
  BY <1>19 DEF PassTime, chat
<1>20. ASSUME NEW t \in Turns, Die(t) PROVE ContextComplete'
  BY <1>20 DEF Die, Goto, chat, turn, EndTurn, Forget
<1>21. ASSUME NEW r \in Runs, EnqueueRehydration(r) PROVE ContextComplete'
  BY <1>21 DEF EnqueueRehydration, NeedsRehydration, At, chat, turn
<1>22. ASSUME NEW r \in Runs, ReadTranscript(r) PROVE ContextComplete'
  BY <1>22 DEF ReadTranscript, At, chat, turn
<1>23. ASSUME NEW r \in Runs, Split(r) PROVE ContextComplete'
  BY <1>23 DEF Split, NotSummarised, Gist, At, chat, turn
<1>24. ASSUME NEW r \in Runs, NothingToSplit(r) PROVE ContextComplete'
  BY <1>24 DEF NothingToSplit, EndRun, At, chat, turn
<1>25. ASSUME NEW r \in Runs, StoreRehydrated(r) PROVE ContextComplete'
  BY <1>25 DEF StoreRehydrated, EndRun, At, turn
<1>26. ASSUME NEW r \in Runs, FailRehydration(r) PROVE ContextComplete'
  BY <1>26 DEF FailRehydration, EndRun, At, chat, turn
<1>27. ASSUME NEW r \in Runs, AbandonRehydration(r) PROVE ContextComplete'
  BY <1>27 DEF AbandonRehydration, EndRun, At, chat, turn
<1>28. CASE UNCHANGED vars
  BY <1>28 DEF vars
<1>29. QED
  BY <1>1, <1>2, <1>3, <1>4, <1>5, <1>6, <1>7, <1>8, <1>9, <1>10, <1>11, <1>12,
     <1>13, <1>14, <1>15, <1>16, <1>17, <1>18, <1>19, <1>20, <1>21, <1>22, <1>23, <1>24,
     <1>25, <1>26, <1>27, <1>28 DEF Next, TurnStep, RehydrationStep

\* No other message before the reply: what is sent up to it is the message answered,
\* something older or the reply itself.
LEMMA NothingBetween ==
  ASSUME NEW S \in SUBSET Nat, NEW a \in Nat, NEW r \in Nat,
         \A m \in S : a <= m /\ m < r => m = a
  PROVE  \A m \in S : m < r + 1 => m < a \/ m = a \/ m = r
OBVIOUS

\* The window a pass stores passes only messages its context covers: the lookup finds
\* any that committed during the turn.
LEMMA StepStore ==
  TypeOK /\ Stamps /\ ContextComplete /\ StoreComplete /\ [Next]_vars
  => StoreComplete'
<1> SUFFICES ASSUME TypeOK, Stamps, ContextComplete, StoreComplete, [Next]_vars
             PROVE StoreComplete'
  OBVIOUS
<1> USE ConstantsAssumption DEF TypeOK, Stamps, NotAhead, ContextComplete,
   StoreComplete, States, Rehydrating, Labels, InPass, HasReply, HasContext, HasRead
<1>1. ASSUME NEW t \in Turns, Send(t) PROVE StoreComplete'
  BY <1>1 DEF Send, Goto, chat
<1>2. ASSUME NEW t \in Turns, SaveMessage(t) PROVE StoreComplete'
  BY <1>2 DEF SaveMessage, Commit, Goto, chat, turn
<1>3. ASSUME NEW t \in Turns, Retry(t) PROVE StoreComplete'
  BY <1>3 DEF Retry, Goto, chat
<1>4. ASSUME NEW t \in Turns, StartRun(t) PROVE StoreComplete'
  BY <1>4 DEF StartRun, Goto, chat
<1>5. ASSUME NEW t \in Turns, ReadChat(t) PROVE StoreComplete'
  BY <1>5 DEF ReadChat, Goto, chat
<1>6. ASSUME NEW t \in Turns, ReadHistory(t) PROVE StoreComplete'
  BY <1>6 DEF ReadHistory, History, Goto, chat
<1>7. ASSUME NEW t \in Turns, ReadHistoryFails(t) PROVE StoreComplete'
  BY <1>7 DEF ReadHistoryFails, History, Fault, Goto, chat
<1>8. ASSUME NEW t \in Turns, Reply(t) PROVE StoreComplete'
  BY <1>8 DEF Reply, Goto, chat
<1>9. ASSUME NEW t \in Turns, SaveReply(t) PROVE StoreComplete'
  BY <1>9 DEF SaveReply, Commit, Goto, chat, turn
<1>10. ASSUME NEW t \in Turns, NoReply(t) PROVE StoreComplete'
  BY <1>10 DEF NoReply, Goto, chat, turn, EndTurn, Forget
<1>11. ASSUME NEW t \in Turns, Skip(t) PROVE StoreComplete'
  BY <1>11 DEF Skip, Goto, chat, turn, EndTurn, Forget
<1>12. ASSUME NEW t \in Turns, Claim(t) PROVE StoreComplete'
  BY <1>12 DEF Claim, Claimable, Goto, turn
<1>13. ASSUME NEW t \in Turns, SummaryFails(t) PROVE StoreComplete'
  BY <1>13 DEF SummaryFails, Goto, chat, turn, Forget
<1>14. ASSUME NEW t \in Turns, Lookup(t) PROVE StoreComplete'
  <2>1. /\ pc[t] = "lookup" /\ pc' = [pc EXCEPT ![t] = "write"]
        /\ start' = [start EXCEPT ![t] = StartOfWindow(t)]
        /\ UNCHANGED <<saved, cover, excused>>
    BY <1>14 DEF Lookup, Goto, chat
  <2>2. /\ ask[t] \in 1..now /\ reply[t] \in 1..now
        /\ ask[t] \in cover[t] /\ reply[t] \in cover[t]
        /\ \A m \in saved : m < ask[t] => m \in cover[t] \cup excused
    BY <2>1
  <2>3. \A m \in saved : m < StartOfWindow(t) => m \in cover[t] \cup excused
    <3>1. CASE OtherDuringTurn(t)
      BY <2>2, <3>1 DEF StartOfWindow
    <3>2. CASE ~OtherDuringTurn(t)
      <4>1. \A m \in saved : m < reply[t] + 1 => m < ask[t] \/ m = ask[t] \/ m = reply[t]
        <5>1. saved \subseteq Nat /\ ask[t] \in Nat /\ reply[t] \in Nat
          BY <2>2
        <5>2. \A m \in saved : ask[t] <= m /\ m < reply[t] => m = ask[t]
          BY <3>2 DEF OtherDuringTurn
        <5>3. QED
          BY <5>1, <5>2, NothingBetween
      <4>2. QED
        BY <2>2, <3>2, <4>1 DEF StartOfWindow
    <3>3. QED
      BY <3>1, <3>2
  <2>4. pc'[t] = "write" /\ start'[t] = StartOfWindow(t)
    BY <2>1
  <2>5. \A u \in Turns \ {t} : pc'[u] = pc[u] /\ start'[u] = start[u]
    BY <2>1
  <2>6. QED
    BY <2>1, <2>3, <2>4, <2>5
<1>15. ASSUME NEW t \in Turns, LookupFails(t) PROVE StoreComplete'
  BY <1>15 DEF LookupFails, Fault, Goto, chat
<1>16. ASSUME NEW t \in Turns, Persist(t) PROVE StoreComplete'
  BY <1>16 DEF Persist, Goto, turn, Forget
<1>17. ASSUME NEW t \in Turns, PersistFails(t) PROVE StoreComplete'
  BY <1>17 DEF PersistFails, Goto, chat, turn, Forget
<1>18. ASSUME NEW t \in Turns, Release(t) PROVE StoreComplete'
  BY <1>18 DEF Release, Fault, Goto, turn, EndTurn, Forget
<1>19. ASSUME NEW t \in Turns, PassTime(t) PROVE StoreComplete'
  BY <1>19 DEF PassTime, chat
<1>20. ASSUME NEW t \in Turns, Die(t) PROVE StoreComplete'
  BY <1>20 DEF Die, Goto, chat, turn, EndTurn, Forget
<1>21. ASSUME NEW r \in Runs, EnqueueRehydration(r) PROVE StoreComplete'
  BY <1>21 DEF EnqueueRehydration, NeedsRehydration, At, chat, turn
<1>22. ASSUME NEW r \in Runs, ReadTranscript(r) PROVE StoreComplete'
  BY <1>22 DEF ReadTranscript, At, chat, turn
<1>23. ASSUME NEW r \in Runs, Split(r) PROVE StoreComplete'
  BY <1>23 DEF Split, NotSummarised, Gist, At, chat, turn
<1>24. ASSUME NEW r \in Runs, NothingToSplit(r) PROVE StoreComplete'
  BY <1>24 DEF NothingToSplit, EndRun, At, chat, turn
<1>25. ASSUME NEW r \in Runs, StoreRehydrated(r) PROVE StoreComplete'
  BY <1>25 DEF StoreRehydrated, EndRun, At, turn
<1>26. ASSUME NEW r \in Runs, FailRehydration(r) PROVE StoreComplete'
  BY <1>26 DEF FailRehydration, EndRun, At, chat, turn
<1>27. ASSUME NEW r \in Runs, AbandonRehydration(r) PROVE StoreComplete'
  BY <1>27 DEF AbandonRehydration, EndRun, At, chat, turn
<1>28. CASE UNCHANGED vars
  BY <1>28 DEF vars
<1>29. QED
  BY <1>1, <1>2, <1>3, <1>4, <1>5, <1>6, <1>7, <1>8, <1>9, <1>10, <1>11, <1>12,
     <1>13, <1>14, <1>15, <1>16, <1>17, <1>18, <1>19, <1>20, <1>21, <1>22, <1>23, <1>24,
     <1>25, <1>26, <1>27, <1>28 DEF Next, TurnStep, RehydrationStep

\* What commits after a rehydration read the messages is newer than all of them, or excused.
LEMMA StepTranscript ==
  TypeOK /\ Stamps /\ TranscriptComplete /\ [Next]_vars
  => TranscriptComplete'
<1> SUFFICES ASSUME TypeOK, Stamps, TranscriptComplete, [Next]_vars
             PROVE TranscriptComplete'
  OBVIOUS
<1> USE ConstantsAssumption DEF TypeOK, Stamps, NotAhead, TranscriptComplete, States,
   Rehydrating, Labels, InPass, HasReply, HasContext, HasRead
<1>1. ASSUME NEW t \in Turns, Send(t) PROVE TranscriptComplete'
  BY <1>1 DEF Send, Goto, chat, runs
<1>2. ASSUME NEW t \in Turns, SaveMessage(t) PROVE TranscriptComplete'
  BY <1>2 DEF SaveMessage, Commit, Goto, chat, turn, runs
<1>3. ASSUME NEW t \in Turns, Retry(t) PROVE TranscriptComplete'
  BY <1>3 DEF Retry, Goto, chat, runs
<1>4. ASSUME NEW t \in Turns, StartRun(t) PROVE TranscriptComplete'
  BY <1>4 DEF StartRun, Goto, chat, runs
<1>5. ASSUME NEW t \in Turns, ReadChat(t) PROVE TranscriptComplete'
  BY <1>5 DEF ReadChat, Goto, chat, runs
<1>6. ASSUME NEW t \in Turns, ReadHistory(t) PROVE TranscriptComplete'
  BY <1>6 DEF ReadHistory, History, Goto, chat, runs
<1>7. ASSUME NEW t \in Turns, ReadHistoryFails(t) PROVE TranscriptComplete'
  BY <1>7 DEF ReadHistoryFails, History, Fault, Goto, chat, runs
<1>8. ASSUME NEW t \in Turns, Reply(t) PROVE TranscriptComplete'
  BY <1>8 DEF Reply, Goto, chat, runs
<1>9. ASSUME NEW t \in Turns, SaveReply(t) PROVE TranscriptComplete'
  BY <1>9 DEF SaveReply, Commit, Goto, chat, turn, runs
<1>10. ASSUME NEW t \in Turns, NoReply(t) PROVE TranscriptComplete'
  BY <1>10 DEF NoReply, Goto, chat, turn, runs, EndTurn, Forget
<1>11. ASSUME NEW t \in Turns, Skip(t) PROVE TranscriptComplete'
  BY <1>11 DEF Skip, Goto, chat, turn, runs, EndTurn, Forget
<1>12. ASSUME NEW t \in Turns, Claim(t) PROVE TranscriptComplete'
  BY <1>12 DEF Claim, Claimable, Goto, turn, runs
<1>13. ASSUME NEW t \in Turns, SummaryFails(t) PROVE TranscriptComplete'
  BY <1>13 DEF SummaryFails, Goto, chat, turn, runs, Forget
<1>14. ASSUME NEW t \in Turns, Lookup(t) PROVE TranscriptComplete'
  BY <1>14 DEF Lookup, StartOfWindow, OtherDuringTurn, Goto, chat, runs
<1>15. ASSUME NEW t \in Turns, LookupFails(t) PROVE TranscriptComplete'
  BY <1>15 DEF LookupFails, Fault, Goto, chat, runs
<1>16. ASSUME NEW t \in Turns, Persist(t) PROVE TranscriptComplete'
  BY <1>16 DEF Persist, Goto, turn, runs, Forget
<1>17. ASSUME NEW t \in Turns, PersistFails(t) PROVE TranscriptComplete'
  BY <1>17 DEF PersistFails, Goto, chat, turn, runs, Forget
<1>18. ASSUME NEW t \in Turns, Release(t) PROVE TranscriptComplete'
  BY <1>18 DEF Release, Fault, Goto, turn, runs, EndTurn, Forget
<1>19. ASSUME NEW t \in Turns, PassTime(t) PROVE TranscriptComplete'
  BY <1>19 DEF PassTime, chat, runs
<1>20. ASSUME NEW t \in Turns, Die(t) PROVE TranscriptComplete'
  BY <1>20 DEF Die, Goto, chat, turn, runs, EndTurn, Forget
<1>21. ASSUME NEW r \in Runs, EnqueueRehydration(r) PROVE TranscriptComplete'
  BY <1>21 DEF EnqueueRehydration, NeedsRehydration, At, chat, turn
<1>22. ASSUME NEW r \in Runs, ReadTranscript(r) PROVE TranscriptComplete'
  BY <1>22 DEF ReadTranscript, At, chat, turn
<1>23. ASSUME NEW r \in Runs, Split(r) PROVE TranscriptComplete'
  BY <1>23 DEF Split, NotSummarised, Gist, At, chat, turn
<1>24. ASSUME NEW r \in Runs, NothingToSplit(r) PROVE TranscriptComplete'
  BY <1>24 DEF NothingToSplit, EndRun, At, chat, turn
<1>25. ASSUME NEW r \in Runs, StoreRehydrated(r) PROVE TranscriptComplete'
  BY <1>25 DEF StoreRehydrated, EndRun, At, turn
<1>26. ASSUME NEW r \in Runs, FailRehydration(r) PROVE TranscriptComplete'
  BY <1>26 DEF FailRehydration, EndRun, At, chat, turn
<1>27. ASSUME NEW r \in Runs, AbandonRehydration(r) PROVE TranscriptComplete'
  BY <1>27 DEF AbandonRehydration, EndRun, At, chat, turn
<1>28. CASE UNCHANGED vars
  BY <1>28 DEF vars
<1>29. QED
  BY <1>1, <1>2, <1>3, <1>4, <1>5, <1>6, <1>7, <1>8, <1>9, <1>10, <1>11, <1>12,
     <1>13, <1>14, <1>15, <1>16, <1>17, <1>18, <1>19, <1>20, <1>21, <1>22, <1>23, <1>24,
     <1>25, <1>26, <1>27, <1>28 DEF Next, TurnStep, RehydrationStep

\* Before its window start a rehydration has what it read, over a stored summary that
\* has what is before the stored window.
LEMMA StepGist ==
  TypeOK /\ Stamps /\ TranscriptComplete /\ NothingHidden /\ GistComplete /\ [Next]_vars
  => GistComplete'
<1> SUFFICES ASSUME TypeOK, Stamps, TranscriptComplete, NothingHidden, GistComplete, [Next]_vars
             PROVE GistComplete'
  OBVIOUS
<1> USE ConstantsAssumption DEF TypeOK, Stamps, NotAhead, TranscriptComplete,
   NothingHidden, GistComplete, States, Rehydrating, Labels, InPass, HasReply,
   HasContext, HasRead
<1>1. ASSUME NEW t \in Turns, Send(t) PROVE GistComplete'
  BY <1>1 DEF Send, Goto, chat, runs
<1>2. ASSUME NEW t \in Turns, SaveMessage(t) PROVE GistComplete'
  BY <1>2 DEF SaveMessage, Commit, Goto, chat, turn, runs
<1>3. ASSUME NEW t \in Turns, Retry(t) PROVE GistComplete'
  BY <1>3 DEF Retry, Goto, chat, runs
<1>4. ASSUME NEW t \in Turns, StartRun(t) PROVE GistComplete'
  BY <1>4 DEF StartRun, Goto, chat, runs
<1>5. ASSUME NEW t \in Turns, ReadChat(t) PROVE GistComplete'
  BY <1>5 DEF ReadChat, Goto, chat, runs
<1>6. ASSUME NEW t \in Turns, ReadHistory(t) PROVE GistComplete'
  BY <1>6 DEF ReadHistory, History, Goto, chat, runs
<1>7. ASSUME NEW t \in Turns, ReadHistoryFails(t) PROVE GistComplete'
  BY <1>7 DEF ReadHistoryFails, History, Fault, Goto, chat, runs
<1>8. ASSUME NEW t \in Turns, Reply(t) PROVE GistComplete'
  BY <1>8 DEF Reply, Goto, chat, runs
<1>9. ASSUME NEW t \in Turns, SaveReply(t) PROVE GistComplete'
  BY <1>9 DEF SaveReply, Commit, Goto, chat, turn, runs
<1>10. ASSUME NEW t \in Turns, NoReply(t) PROVE GistComplete'
  BY <1>10 DEF NoReply, Goto, chat, turn, runs, EndTurn, Forget
<1>11. ASSUME NEW t \in Turns, Skip(t) PROVE GistComplete'
  BY <1>11 DEF Skip, Goto, chat, turn, runs, EndTurn, Forget
<1>12. ASSUME NEW t \in Turns, Claim(t) PROVE GistComplete'
  BY <1>12 DEF Claim, Claimable, Goto, turn, runs
<1>13. ASSUME NEW t \in Turns, SummaryFails(t) PROVE GistComplete'
  BY <1>13 DEF SummaryFails, Goto, chat, turn, runs, Forget
<1>14. ASSUME NEW t \in Turns, Lookup(t) PROVE GistComplete'
  BY <1>14 DEF Lookup, StartOfWindow, OtherDuringTurn, Goto, chat, runs
<1>15. ASSUME NEW t \in Turns, LookupFails(t) PROVE GistComplete'
  BY <1>15 DEF LookupFails, Fault, Goto, chat, runs
<1>16. ASSUME NEW t \in Turns, Persist(t) PROVE GistComplete'
  BY <1>16 DEF Persist, Goto, turn, runs, Forget
<1>17. ASSUME NEW t \in Turns, PersistFails(t) PROVE GistComplete'
  BY <1>17 DEF PersistFails, Goto, chat, turn, runs, Forget
<1>18. ASSUME NEW t \in Turns, Release(t) PROVE GistComplete'
  BY <1>18 DEF Release, Fault, Goto, turn, runs, EndTurn, Forget
<1>19. ASSUME NEW t \in Turns, PassTime(t) PROVE GistComplete'
  BY <1>19 DEF PassTime, chat, runs
<1>20. ASSUME NEW t \in Turns, Die(t) PROVE GistComplete'
  BY <1>20 DEF Die, Goto, chat, turn, runs, EndTurn, Forget
<1>21. ASSUME NEW r \in Runs, EnqueueRehydration(r) PROVE GistComplete'
  BY <1>21 DEF EnqueueRehydration, NeedsRehydration, At, chat, turn
<1>22. ASSUME NEW r \in Runs, ReadTranscript(r) PROVE GistComplete'
  BY <1>22 DEF ReadTranscript, At, chat, turn
<1>23. ASSUME NEW r \in Runs, Split(r) PROVE GistComplete'
  BY <1>23 DEF Split, NotSummarised, Gist, At, chat, turn
<1>24. ASSUME NEW r \in Runs, NothingToSplit(r) PROVE GistComplete'
  BY <1>24 DEF NothingToSplit, EndRun, At, chat, turn
<1>25. ASSUME NEW r \in Runs, StoreRehydrated(r) PROVE GistComplete'
  BY <1>25 DEF StoreRehydrated, EndRun, At, turn
<1>26. ASSUME NEW r \in Runs, FailRehydration(r) PROVE GistComplete'
  BY <1>26 DEF FailRehydration, EndRun, At, chat, turn
<1>27. ASSUME NEW r \in Runs, AbandonRehydration(r) PROVE GistComplete'
  BY <1>27 DEF AbandonRehydration, EndRun, At, chat, turn
<1>28. CASE UNCHANGED vars
  BY <1>28 DEF vars
<1>29. QED
  BY <1>1, <1>2, <1>3, <1>4, <1>5, <1>6, <1>7, <1>8, <1>9, <1>10, <1>11, <1>12,
     <1>13, <1>14, <1>15, <1>16, <1>17, <1>18, <1>19, <1>20, <1>21, <1>22, <1>23, <1>24,
     <1>25, <1>26, <1>27, <1>28 DEF Next, TurnStep, RehydrationStep

\* Only the two writers change summary and window, and only together.
LEMMA StepHidden ==
  TypeOK /\ Stamps /\ StoreComplete /\ GistComplete /\ NothingHidden /\ [Next]_vars
  => NothingHidden'
<1> SUFFICES ASSUME TypeOK, Stamps, StoreComplete, GistComplete, NothingHidden, [Next]_vars
             PROVE NothingHidden'
  OBVIOUS
<1> USE ConstantsAssumption DEF TypeOK, Stamps, NotAhead, StoreComplete,
   GistComplete, NothingHidden, States, Rehydrating, Labels, InPass, HasReply,
   HasContext, HasRead
<1>1. ASSUME NEW t \in Turns, Send(t) PROVE NothingHidden'
  BY <1>1 DEF Send, Goto, chat
<1>2. ASSUME NEW t \in Turns, SaveMessage(t) PROVE NothingHidden'
  <2>1. /\ saved' = saved \cup {ask[t]} /\ ask[t] \in 1..now /\ ask[t] \notin saved
        /\ pc' = [pc EXCEPT ![t] = "asked"] /\ pc[t] = "sending"
        /\ UNCHANGED <<now, summary, window, from, cover>>
    BY <1>2 DEF SaveMessage, Commit, Goto, chat, turn
  <2>2. excused \subseteq excused' /\ (ask[t] < now => ask[t] \in excused')
    BY <1>2 DEF SaveMessage, Commit
  <2>3. SUFFICES ASSUME NEW m \in saved', m < window' PROVE m \in summary' \cup excused'
    OBVIOUS
  <2>4. CASE m \in saved
    BY <2>1, <2>2, <2>3, <2>4
  <2>5. CASE m = ask[t]
    BY <2>1, <2>2, <2>3, <2>5
  <2>6. QED
    BY <2>1, <2>4, <2>5
<1>3. ASSUME NEW t \in Turns, Retry(t) PROVE NothingHidden'
  BY <1>3 DEF Retry, Goto, chat
<1>4. ASSUME NEW t \in Turns, StartRun(t) PROVE NothingHidden'
  BY <1>4 DEF StartRun, Goto, chat
<1>5. ASSUME NEW t \in Turns, ReadChat(t) PROVE NothingHidden'
  BY <1>5 DEF ReadChat, Goto, chat
<1>6. ASSUME NEW t \in Turns, ReadHistory(t) PROVE NothingHidden'
  BY <1>6 DEF ReadHistory, History, Goto, chat
<1>7. ASSUME NEW t \in Turns, ReadHistoryFails(t) PROVE NothingHidden'
  BY <1>7 DEF ReadHistoryFails, History, Fault, Goto, chat
<1>8. ASSUME NEW t \in Turns, Reply(t) PROVE NothingHidden'
  BY <1>8 DEF Reply, Goto, chat
<1>9. ASSUME NEW t \in Turns, SaveReply(t) PROVE NothingHidden'
  BY <1>9 DEF SaveReply, Commit, Goto, chat, turn
<1>10. ASSUME NEW t \in Turns, NoReply(t) PROVE NothingHidden'
  BY <1>10 DEF NoReply, Goto, chat, turn, EndTurn, Forget
<1>11. ASSUME NEW t \in Turns, Skip(t) PROVE NothingHidden'
  BY <1>11 DEF Skip, Goto, chat, turn, EndTurn, Forget
<1>12. ASSUME NEW t \in Turns, Claim(t) PROVE NothingHidden'
  BY <1>12 DEF Claim, Claimable, Goto, turn
<1>13. ASSUME NEW t \in Turns, SummaryFails(t) PROVE NothingHidden'
  BY <1>13 DEF SummaryFails, Goto, chat, turn, Forget
<1>14. ASSUME NEW t \in Turns, Lookup(t) PROVE NothingHidden'
  BY <1>14 DEF Lookup, StartOfWindow, OtherDuringTurn, Goto, chat
<1>15. ASSUME NEW t \in Turns, LookupFails(t) PROVE NothingHidden'
  BY <1>15 DEF LookupFails, Fault, Goto, chat
<1>16. ASSUME NEW t \in Turns, Persist(t) PROVE NothingHidden'
  BY <1>16 DEF Persist, Goto, turn, Forget
<1>17. ASSUME NEW t \in Turns, PersistFails(t) PROVE NothingHidden'
  BY <1>17 DEF PersistFails, Goto, chat, turn, Forget
<1>18. ASSUME NEW t \in Turns, Release(t) PROVE NothingHidden'
  BY <1>18 DEF Release, Fault, Goto, turn, EndTurn, Forget
<1>19. ASSUME NEW t \in Turns, PassTime(t) PROVE NothingHidden'
  BY <1>19 DEF PassTime, chat
<1>20. ASSUME NEW t \in Turns, Die(t) PROVE NothingHidden'
  BY <1>20 DEF Die, Goto, chat, turn, EndTurn, Forget
<1>21. ASSUME NEW r \in Runs, EnqueueRehydration(r) PROVE NothingHidden'
  BY <1>21 DEF EnqueueRehydration, NeedsRehydration, At, chat, turn
<1>22. ASSUME NEW r \in Runs, ReadTranscript(r) PROVE NothingHidden'
  BY <1>22 DEF ReadTranscript, At, chat, turn
<1>23. ASSUME NEW r \in Runs, Split(r) PROVE NothingHidden'
  BY <1>23 DEF Split, NotSummarised, Gist, At, chat, turn
<1>24. ASSUME NEW r \in Runs, NothingToSplit(r) PROVE NothingHidden'
  BY <1>24 DEF NothingToSplit, EndRun, At, chat, turn
<1>25. ASSUME NEW r \in Runs, StoreRehydrated(r) PROVE NothingHidden'
  BY <1>25 DEF StoreRehydrated, EndRun, At, turn
<1>26. ASSUME NEW r \in Runs, FailRehydration(r) PROVE NothingHidden'
  BY <1>26 DEF FailRehydration, EndRun, At, chat, turn
<1>27. ASSUME NEW r \in Runs, AbandonRehydration(r) PROVE NothingHidden'
  BY <1>27 DEF AbandonRehydration, EndRun, At, chat, turn
<1>28. CASE UNCHANGED vars
  BY <1>28 DEF vars
<1>29. QED
  BY <1>1, <1>2, <1>3, <1>4, <1>5, <1>6, <1>7, <1>8, <1>9, <1>10, <1>11, <1>12,
     <1>13, <1>14, <1>15, <1>16, <1>17, <1>18, <1>19, <1>20, <1>21, <1>22, <1>23, <1>24,
     <1>25, <1>26, <1>27, <1>28 DEF Next, TurnStep, RehydrationStep

\* A claim changes hands only once its holder is past the stale bound.
LEMMA StepClaim == TypeOK /\ ClaimHeld /\ [Next]_vars => ClaimHeld'
<1> SUFFICES ASSUME TypeOK, ClaimHeld, [Next]_vars PROVE ClaimHeld'
  OBVIOUS
<1> USE ConstantsAssumption DEF TypeOK, ClaimHeld, States, Rehydrating, Labels,
   InPass, HasReply, HasContext, HasRead
<1>1. ASSUME NEW t \in Turns, Send(t) PROVE ClaimHeld'
  BY <1>1 DEF Send, Goto, chat
<1>2. ASSUME NEW t \in Turns, SaveMessage(t) PROVE ClaimHeld'
  BY <1>2 DEF SaveMessage, Commit, Goto, chat, turn
<1>3. ASSUME NEW t \in Turns, Retry(t) PROVE ClaimHeld'
  BY <1>3 DEF Retry, Goto, chat
<1>4. ASSUME NEW t \in Turns, StartRun(t) PROVE ClaimHeld'
  BY <1>4 DEF StartRun, Goto, chat
<1>5. ASSUME NEW t \in Turns, ReadChat(t) PROVE ClaimHeld'
  BY <1>5 DEF ReadChat, Goto, chat
<1>6. ASSUME NEW t \in Turns, ReadHistory(t) PROVE ClaimHeld'
  BY <1>6 DEF ReadHistory, History, Goto, chat
<1>7. ASSUME NEW t \in Turns, ReadHistoryFails(t) PROVE ClaimHeld'
  BY <1>7 DEF ReadHistoryFails, History, Fault, Goto, chat
<1>8. ASSUME NEW t \in Turns, Reply(t) PROVE ClaimHeld'
  BY <1>8 DEF Reply, Goto, chat
<1>9. ASSUME NEW t \in Turns, SaveReply(t) PROVE ClaimHeld'
  BY <1>9 DEF SaveReply, Commit, Goto, chat, turn
<1>10. ASSUME NEW t \in Turns, NoReply(t) PROVE ClaimHeld'
  BY <1>10 DEF NoReply, Goto, chat, turn, EndTurn, Forget
<1>11. ASSUME NEW t \in Turns, Skip(t) PROVE ClaimHeld'
  BY <1>11 DEF Skip, Goto, chat, turn, EndTurn, Forget
<1>12. ASSUME NEW t \in Turns, Claim(t) PROVE ClaimHeld'
  BY <1>12 DEF Claim, Claimable, Goto, turn
<1>13. ASSUME NEW t \in Turns, SummaryFails(t) PROVE ClaimHeld'
  BY <1>13 DEF SummaryFails, Goto, chat, turn, Forget
<1>14. ASSUME NEW t \in Turns, Lookup(t) PROVE ClaimHeld'
  BY <1>14 DEF Lookup, StartOfWindow, OtherDuringTurn, Goto, chat
<1>15. ASSUME NEW t \in Turns, LookupFails(t) PROVE ClaimHeld'
  BY <1>15 DEF LookupFails, Fault, Goto, chat
<1>16. ASSUME NEW t \in Turns, Persist(t) PROVE ClaimHeld'
  BY <1>16 DEF Persist, Goto, turn, Forget
<1>17. ASSUME NEW t \in Turns, PersistFails(t) PROVE ClaimHeld'
  BY <1>17 DEF PersistFails, Goto, chat, turn, Forget
<1>18. ASSUME NEW t \in Turns, Release(t) PROVE ClaimHeld'
  BY <1>18 DEF Release, Fault, Goto, turn, EndTurn, Forget
<1>19. ASSUME NEW t \in Turns, PassTime(t) PROVE ClaimHeld'
  BY <1>19 DEF PassTime, chat
<1>20. ASSUME NEW t \in Turns, Die(t) PROVE ClaimHeld'
  BY <1>20 DEF Die, Goto, chat, turn, EndTurn, Forget
<1>21. ASSUME NEW r \in Runs, EnqueueRehydration(r) PROVE ClaimHeld'
  BY <1>21 DEF EnqueueRehydration, NeedsRehydration, At, chat, turn
<1>22. ASSUME NEW r \in Runs, ReadTranscript(r) PROVE ClaimHeld'
  BY <1>22 DEF ReadTranscript, At, chat, turn
<1>23. ASSUME NEW r \in Runs, Split(r) PROVE ClaimHeld'
  BY <1>23 DEF Split, NotSummarised, Gist, At, chat, turn
<1>24. ASSUME NEW r \in Runs, NothingToSplit(r) PROVE ClaimHeld'
  BY <1>24 DEF NothingToSplit, EndRun, At, chat, turn
<1>25. ASSUME NEW r \in Runs, StoreRehydrated(r) PROVE ClaimHeld'
  BY <1>25 DEF StoreRehydrated, EndRun, At, turn
<1>26. ASSUME NEW r \in Runs, FailRehydration(r) PROVE ClaimHeld'
  BY <1>26 DEF FailRehydration, EndRun, At, chat, turn
<1>27. ASSUME NEW r \in Runs, AbandonRehydration(r) PROVE ClaimHeld'
  BY <1>27 DEF AbandonRehydration, EndRun, At, chat, turn
<1>28. CASE UNCHANGED vars
  BY <1>28 DEF vars
<1>29. QED
  BY <1>1, <1>2, <1>3, <1>4, <1>5, <1>6, <1>7, <1>8, <1>9, <1>10, <1>11, <1>12,
     <1>13, <1>14, <1>15, <1>16, <1>17, <1>18, <1>19, <1>20, <1>21, <1>22, <1>23, <1>24,
     <1>25, <1>26, <1>27, <1>28 DEF Next, TurnStep, RehydrationStep

\* Only a thread without a rehydration in flight is claimed for one.
LEMMA StepState == TypeOK /\ StateHeld /\ [Next]_vars => StateHeld'
<1> SUFFICES ASSUME TypeOK, StateHeld, [Next]_vars PROVE StateHeld'
  OBVIOUS
<1> USE ConstantsAssumption DEF TypeOK, StateHeld, States, Rehydrating, Labels,
   InPass, HasReply, HasContext, HasRead
<1>1. ASSUME NEW t \in Turns, Send(t) PROVE StateHeld'
  BY <1>1 DEF Send, Goto, chat, runs
<1>2. ASSUME NEW t \in Turns, SaveMessage(t) PROVE StateHeld'
  BY <1>2 DEF SaveMessage, Commit, Goto, chat, turn, runs
<1>3. ASSUME NEW t \in Turns, Retry(t) PROVE StateHeld'
  BY <1>3 DEF Retry, Goto, chat, runs
<1>4. ASSUME NEW t \in Turns, StartRun(t) PROVE StateHeld'
  BY <1>4 DEF StartRun, Goto, chat, runs
<1>5. ASSUME NEW t \in Turns, ReadChat(t) PROVE StateHeld'
  BY <1>5 DEF ReadChat, Goto, chat, runs
<1>6. ASSUME NEW t \in Turns, ReadHistory(t) PROVE StateHeld'
  BY <1>6 DEF ReadHistory, History, Goto, chat, runs
<1>7. ASSUME NEW t \in Turns, ReadHistoryFails(t) PROVE StateHeld'
  BY <1>7 DEF ReadHistoryFails, History, Fault, Goto, chat, runs
<1>8. ASSUME NEW t \in Turns, Reply(t) PROVE StateHeld'
  BY <1>8 DEF Reply, Goto, chat, runs
<1>9. ASSUME NEW t \in Turns, SaveReply(t) PROVE StateHeld'
  BY <1>9 DEF SaveReply, Commit, Goto, chat, turn, runs
<1>10. ASSUME NEW t \in Turns, NoReply(t) PROVE StateHeld'
  BY <1>10 DEF NoReply, Goto, chat, turn, runs, EndTurn, Forget
<1>11. ASSUME NEW t \in Turns, Skip(t) PROVE StateHeld'
  BY <1>11 DEF Skip, Goto, chat, turn, runs, EndTurn, Forget
<1>12. ASSUME NEW t \in Turns, Claim(t) PROVE StateHeld'
  BY <1>12 DEF Claim, Claimable, Goto, turn, runs
<1>13. ASSUME NEW t \in Turns, SummaryFails(t) PROVE StateHeld'
  BY <1>13 DEF SummaryFails, Goto, chat, turn, runs, Forget
<1>14. ASSUME NEW t \in Turns, Lookup(t) PROVE StateHeld'
  BY <1>14 DEF Lookup, StartOfWindow, OtherDuringTurn, Goto, chat, runs
<1>15. ASSUME NEW t \in Turns, LookupFails(t) PROVE StateHeld'
  BY <1>15 DEF LookupFails, Fault, Goto, chat, runs
<1>16. ASSUME NEW t \in Turns, Persist(t) PROVE StateHeld'
  BY <1>16 DEF Persist, Goto, turn, runs, Forget
<1>17. ASSUME NEW t \in Turns, PersistFails(t) PROVE StateHeld'
  BY <1>17 DEF PersistFails, Goto, chat, turn, runs, Forget
<1>18. ASSUME NEW t \in Turns, Release(t) PROVE StateHeld'
  BY <1>18 DEF Release, Fault, Goto, turn, runs, EndTurn, Forget
<1>19. ASSUME NEW t \in Turns, PassTime(t) PROVE StateHeld'
  BY <1>19 DEF PassTime, chat, runs
<1>20. ASSUME NEW t \in Turns, Die(t) PROVE StateHeld'
  BY <1>20 DEF Die, Goto, chat, turn, runs, EndTurn, Forget
<1>21. ASSUME NEW r \in Runs, EnqueueRehydration(r) PROVE StateHeld'
  BY <1>21 DEF EnqueueRehydration, NeedsRehydration, At, chat, turn
<1>22. ASSUME NEW r \in Runs, ReadTranscript(r) PROVE StateHeld'
  BY <1>22 DEF ReadTranscript, At, chat, turn
<1>23. ASSUME NEW r \in Runs, Split(r) PROVE StateHeld'
  BY <1>23 DEF Split, NotSummarised, Gist, At, chat, turn
<1>24. ASSUME NEW r \in Runs, NothingToSplit(r) PROVE StateHeld'
  BY <1>24 DEF NothingToSplit, EndRun, At, chat, turn
<1>25. ASSUME NEW r \in Runs, StoreRehydrated(r) PROVE StateHeld'
  BY <1>25 DEF StoreRehydrated, EndRun, At, turn
<1>26. ASSUME NEW r \in Runs, FailRehydration(r) PROVE StateHeld'
  BY <1>26 DEF FailRehydration, EndRun, At, chat, turn
<1>27. ASSUME NEW r \in Runs, AbandonRehydration(r) PROVE StateHeld'
  BY <1>27 DEF AbandonRehydration, EndRun, At, chat, turn
<1>28. CASE UNCHANGED vars
  BY <1>28 DEF vars
<1>29. QED
  BY <1>1, <1>2, <1>3, <1>4, <1>5, <1>6, <1>7, <1>8, <1>9, <1>10, <1>11, <1>12,
     <1>13, <1>14, <1>15, <1>16, <1>17, <1>18, <1>19, <1>20, <1>21, <1>22, <1>23, <1>24,
     <1>25, <1>26, <1>27, <1>28 DEF Next, TurnStep, RehydrationStep

-----------------------------------------------------------------------------
\* The strengthened invariant holds in every reachable state.
THEOREM Visibility == Spec => []VisibleInv
<1>1. Init => VisibleInv
  BY ConstantsAssumption, InitTypeOK DEF VisibleInv, Init, Stamps, NotAhead,
     CopyComplete, ContextComplete,
     StoreComplete, TranscriptComplete, GistComplete, NothingHidden, Unsummarised, Behind,
     InPass, HasReply, HasContext, HasRead
<1>2. VisibleInv /\ [Next]_vars => VisibleInv'
  BY StepTypeOK, StepStamps, StepCopy, StepContext, StepStore, StepTranscript,
     StepGist, StepHidden DEF VisibleInv
<1>3. QED
  BY <1>1, <1>2, PTL DEF Spec

\* Types hold in every reachable state.
THEOREM TypeCorrect == Spec => []TypeOK
<1>1. VisibleInv => TypeOK
  BY DEF VisibleInv
<1>2. QED
  BY <1>1, Visibility, PTL

\* However many turns, passes and rehydrations overlap, crash or take claims over, a
\* message is out of the window only if the stored summary covers it or it is excused.
THEOREM NothingIsHidden == Spec => []NothingHidden
<1>1. VisibleInv => NothingHidden
  BY DEF VisibleInv
<1>2. QED
  BY <1>1, Visibility, PTL

\* However many turns claim, die and are taken over, and rehydrations fail and are
\* started again, one pass and one rehydration at most can write.
THEOREM OnePassHolds == Spec => []OnePassAtATime
<1>1. Init => ClaimHeld /\ StateHeld
  BY DEF Init, ClaimHeld, StateHeld, InPass, Rehydrating
<1>2. TypeOK /\ ClaimHeld /\ StateHeld /\ [Next]_vars => ClaimHeld' /\ StateHeld'
  BY StepClaim, StepState
<1>3. ClaimHeld /\ StateHeld => OnePassAtATime
  BY DEF ClaimHeld, StateHeld, OnePassAtATime
<1>4. QED
  BY <1>1, <1>2, <1>3, TypeCorrect, PTL DEF Spec
=============================================================================

--------------------------- MODULE ChatTurn_proofs ---------------------------
(***************************************************************************)
(* Proofs about the turn gate, for any jobs, instances, kinds and bounds.  *)
(*                                                                         *)
(* SingleFlight is not inductive: that no earlier turn runs when a later   *)
(* one passes the gate is known only from the jobs table, so the invariant *)
(* ties a worker still before its reply to its row (LiveTurnsBlock), and a *)
(* turn past the gate to the workers of the turns before it (GateOrder).   *)
(* CompleteMeansReplied is not either: a worker's copy of its job, its row *)
(* and a shutdown each write "complete" on what another of them said, so   *)
(* the invariant says of all of them that the reply is there.              *)
(***************************************************************************)
EXTENDS ChatTurn, TLAPS

\* A worker still before its reply keeps a fresh, blocking row unless it lapsed.
LiveTurnsBlock ==
  \A j \in Jobs : pc[j] \in BeforeReply /\ j \notin lapsed => row[j] \in Blocking /\ age[j] = 0

\* Once a turn is past the gate, or has built its context, every earlier worker
\* still before its reply has lapsed.
GateOrder ==
  \A j, k \in Jobs : j < k /\ pc[j] \in BeforeReply /\ (pc[k] \in AfterGate \/ k \in built)
                       => j \in lapsed

GateInv == TypeOK /\ LiveTurnsBlock /\ GateOrder /\ ContextHasEarlierReplies

\* Whoever calls a job replied -- its row, its worker, the worker's copy, a
\* shutdown -- has its reply in the chat.
RepliesAreSaved ==
  \A j \in Jobs :
    \/ row[j] \in Replied \cup {"complete"}
    \/ mem[j] \in Replied \cup {"complete"}
    \/ shut[j] \in {"replied", "complete"}
    \/ pc[j] \in {"replied", "chain", "persist", "express", "compact", "complete", "ticketEnd"}
    => j \in saved

\* A worker past its insert, and a turn a shutdown decides on, has a row.
WorkersHaveRows ==
  \A j \in Jobs :
    shut[j] # "none" \/ pc[j] \notin {"none", "insert"} \cup Ended => row[j] # "absent"

RepliedInv == TypeOK /\ WorkersHaveRows /\ RepliesAreSaved

\* Rows commit in turn order, heartbeats get through, and nothing ends a job from outside.
Undisturbed == OrderedCommits /\ ~SlowHeartbeats /\ Budget.stops = 0 /\ Budget.shutdowns = 0

\* Then only rows of ended workers age, rows commit before a later turn arrives, and
\* nothing lapses.
NothingLapses ==
  /\ left.stops = 0 /\ left.shutdowns = 0
  /\ stopTodo = {}
  /\ \A j \in Jobs : shut[j] = "none"
  /\ \A j \in Jobs : age[j] > 0 => pc[j] \in Ended
  /\ \A j, k \in Jobs : j < k /\ pc[k] # "none" => pc[j] \notin {"none", "insert"}
  /\ \A k \in built : pc[k] # "none"
  /\ lapsed = {}

-----------------------------------------------------------------------------
\* Types: the initial values and every step keep each variable in its set.
LEMMA InitTypeOK == Init => TypeOK
BY ConstantsAssumption DEF Init, TypeOK, Status, Blocking, Replied, Terminal, Labels

\* Every step keeps the types.
LEMMA StepTypeOK == TypeOK /\ [Next]_vars => TypeOK'
<1> SUFFICES ASSUME TypeOK, [Next]_vars PROVE TypeOK'
  OBVIOUS
<1> USE ConstantsAssumption DEF TypeOK, Labels, Status, Blocking, Replied, Terminal, InTurn, AfterGate, BeforeReply, Ended
<1>1. ASSUME NEW j \in Jobs, Arrive(j) PROVE TypeOK'
  BY <1>1 DEF Arrive, Goto, ActiveFor, IsUser, db, chat, server, history
<1>2. ASSUME NEW j \in Jobs, Insert(j) PROVE TypeOK'
  BY <1>2 DEF Insert, WriteRow, Goto, chat, server
<1>3. ASSUME NEW j \in Jobs, Register(j) PROVE TypeOK'
  BY <1>3 DEF Register, Goto, IsTicket, db, chat, server, history
<1>4. ASSUME NEW j \in Jobs, Start(j) PROVE TypeOK'
  BY <1>4 DEF Start, WriteSucceeds, Save, WriteRow, Goto, chat, server, history
<1>5. ASSUME NEW j \in Jobs, StartFails(j) PROVE TypeOK'
  <2>1. left' \in [stops : Nat, crashes : Nat, shutdowns : Nat, faults : Nat]
    BY <1>5 DEF StartFails, WriteFails, Fault
  <2>2. CASE Save(j, "failed") /\ Goto(j, "over")
    BY <1>5, <2>1, <2>2 DEF StartFails, Save, WriteRow, Goto, chat, server, history
  <2>3. CASE NoSave /\ Goto(j, "unended")
    BY <1>5, <2>1, <2>3 DEF StartFails, NoSave, Goto, chat, server, history
  <2>4. QED
    BY <1>5, <2>2, <2>3 DEF StartFails
<1>6. ASSUME NEW j \in Jobs, Queue(j) PROVE TypeOK'
  BY <1>6 DEF Queue, Blockers, chat, server, history
<1>7. ASSUME NEW j \in Jobs, PassGate(j) PROVE TypeOK'
  BY <1>7 DEF PassGate, Goto, Entry, IsTicket, Blockers, db, chat, server, history
<1>8. ASSUME NEW j \in Jobs, CheckQueuedStatus(j) PROVE TypeOK'
  BY <1>8 DEF CheckQueuedStatus, Goto, Entry, IsTicket, Fault, db, chat, server, history
<1>9. ASSUME NEW j \in Jobs, LeaveQueueCancelled(j) PROVE TypeOK'
  BY <1>9 DEF LeaveQueueCancelled, WriteRow, Fault, Goto, db, chat, server, history
<1>10. ASSUME NEW j \in Jobs, GiveUp(j) PROVE TypeOK'
  BY <1>10 DEF GiveUp, WriteRow, Fault, Goto, db, chat, server, history
<1>11. ASSUME NEW j \in Jobs, MarkTicketProcessing(j) PROVE TypeOK'
  BY <1>11 DEF MarkTicketProcessing, WriteRow, Fault, Goto, db, chat, server, history
<1>12. ASSUME NEW j \in Jobs, BuildContext(j) PROVE TypeOK'
  BY <1>12 DEF BuildContext, Goto, db, chat, server
<1>13. ASSUME NEW j \in Jobs, ContextFails(j) PROVE TypeOK'
  BY <1>13 DEF ContextFails, IsUser, WriteSucceeds, WriteFails, Save, NoSave, WriteRow, Fault, Goto, chat, server, history
<1>14. ASSUME NEW j \in Jobs, Reply(j) PROVE TypeOK'
  BY <1>14 DEF Reply, Goto, db, server, history
<1>15. ASSUME NEW j \in Jobs, GenerationFails(j) PROVE TypeOK'
  BY <1>15 DEF GenerationFails, IsUser, Save, NoSave, WriteRow, Fault, Goto, chat, server, history
<1>16. ASSUME NEW j \in Jobs, RecordReply(j) PROVE TypeOK'
  BY <1>16 DEF RecordReply, IsUser, IsTicket, WriteSucceeds, Save, WriteRow, Goto, chat, server, history
<1>17. ASSUME NEW j \in Jobs, RecordReplyFails(j) PROVE TypeOK'
  BY <1>17 DEF RecordReplyFails, IsUser, IsTicket, WriteFails, Fault, Save, NoSave, WriteRow, Goto, chat, server, history
<1>18. ASSUME NEW j \in Jobs, SaveChain(j) PROVE TypeOK'
  BY <1>18 DEF SaveChain, IsUser, WriteSucceeds, Goto, db, server, history
<1>19. ASSUME NEW j \in Jobs, SaveChainFails(j) PROVE TypeOK'
  BY <1>19 DEF SaveChainFails, IsUser, WriteFails, Fault, Goto, db, chat, server, history
<1>20. ASSUME NEW j \in Jobs, Advance(j) PROVE TypeOK'
  BY <1>20 DEF Advance, IsUser, NextPhase, PhaseStatus, WriteSucceeds, Save, WriteRow, Goto, chat, server, history
<1>21. ASSUME NEW j \in Jobs, AdvanceFails(j) PROVE TypeOK'
  BY <1>21 DEF AdvanceFails, IsUser, NextPhase, WriteFails, Fault, Goto, db, chat, server, history
<1>22. ASSUME NEW j \in Jobs, EndTicket(j) PROVE TypeOK'
  BY <1>22 DEF EndTicket, WriteRow, Fault, Goto, db, chat, server, history
<1>23. ASSUME NEW j \in Jobs, Abort(j) PROVE TypeOK'
  BY <1>23 DEF Abort, WriteRow, Fault, Goto, db, chat, server, history
<1>24. ASSUME NEW j \in Jobs, Release(j) PROVE TypeOK'
  BY <1>24 DEF Release, FinishAbandoned, WriteRow, Fault, Goto, db, chat, server, history
<1>25. ASSUME NEW j \in Jobs, Age(j) PROVE TypeOK'
  BY <1>25 DEF Age, worker, chat, server
<1>26. ASSUME NEW j \in Jobs, Heartbeat(j) PROVE TypeOK'
  BY <1>26 DEF Heartbeat, Tracked, worker, chat, server, history
<1>27. ASSUME NEW j \in Jobs, Watch(j) PROVE TypeOK'
  BY <1>27 DEF Watch, db, chat, server, history
<1>28. ASSUME NEW j \in Jobs, StopJob(j) PROVE TypeOK'
  <2>1. row' \in [Jobs -> Status \cup {"absent"}] /\ age' \in [Jobs -> 0..2]
    <3>1. CASE UNCHANGED db
      BY <3>1 DEF db
    <3>2. CASE WriteRow(j, "cancelled")
      BY <3>2 DEF WriteRow
    <3>3. QED
      BY <1>28, <3>1, <3>2 DEF StopJob, db
  <2>2. stopAt' \in Instances \cup {Nobody} /\ stopTodo' \subseteq Jobs
    BY <1>28 DEF StopJob
  <2>3. cancelled' \subseteq Jobs /\ lapsed' \subseteq Jobs
    BY <1>28, ZenonT(40) DEF StopJob
  <2>4. QED
    BY <1>28, <2>1, <2>2, <2>3 DEF StopJob, chat
<1>29. ASSUME NEW j \in Jobs, ShutdownRead(j) PROVE TypeOK'
  BY <1>29 DEF ShutdownRead, db, worker, chat, history
<1>30. ASSUME NEW j \in Jobs, ShutdownWrite(j) PROVE TypeOK'
  BY <1>30 DEF ShutdownWrite, WriteRow, worker, chat
<1>31. ASSUME NEW i \in Instances, BeginShutdown(i) PROVE TypeOK'
  BY <1>31 DEF BeginShutdown, db, worker, chat, history
<1>32. ASSUME NEW i \in Instances, Exit(i) PROVE TypeOK'
  BY <1>32 DEF Exit, Down, db, chat, history
<1>33. ASSUME NEW i \in Instances, Crash(i) PROVE TypeOK'
  BY <1>33 DEF Crash, Down, db, chat, history
<1>34. ASSUME NEW i \in Instances, Restart(i) PROVE TypeOK'
  <2>1. row' \in [Jobs -> Status \cup {"absent"}] /\ age' \in [Jobs -> 0..2]
    BY <1>34 DEF Restart
  <2>2. up' \in [Instances -> {"up", "draining", "down"}] /\ lapsed' \subseteq Jobs
    BY <1>34 DEF Restart
  <2>3. QED
    BY <1>34, <2>1, <2>2 DEF Restart, worker, chat
<1>35. ASSUME NEW i \in Instances, NEW j \in Jobs, StopThread(i, j) PROVE TypeOK'
  BY <1>35 DEF StopThread, db, worker, chat, history
<1>36. CASE UNCHANGED vars
  BY <1>36 DEF vars
<1>37. QED
  BY <1>1, <1>2, <1>3, <1>4, <1>5, <1>6, <1>7, <1>8, <1>9, <1>10, <1>11, <1>12, <1>13, <1>14, <1>15, <1>16, <1>17, <1>18, <1>19, <1>20, <1>21, <1>22, <1>23, <1>24, <1>25, <1>26, <1>27, <1>28, <1>29, <1>30, <1>31, <1>32, <1>33, <1>34, <1>35, <1>36 DEF Next, Work

\* Every write that unblocks, or every lapse of time that ages, the row of a worker
\* before its reply makes it lapse; its own writes keep the row blocking.
LEMMA StepLiveTurnsBlock == TypeOK /\ LiveTurnsBlock /\ [Next]_vars => LiveTurnsBlock'
<1> SUFFICES ASSUME TypeOK, LiveTurnsBlock, [Next]_vars PROVE LiveTurnsBlock'
  OBVIOUS
<1> USE ConstantsAssumption DEF TypeOK, LiveTurnsBlock, Blocking, Terminal, InTurn, AfterGate, BeforeReply, Ended
<1>1. ASSUME NEW j \in Jobs, Arrive(j) PROVE LiveTurnsBlock'
  BY <1>1 DEF Arrive, Goto, ActiveFor, IsUser, db, chat, server, history
<1>2. ASSUME NEW j \in Jobs, Insert(j) PROVE LiveTurnsBlock'
  BY <1>2 DEF Insert, WriteRow, Goto, chat, server
<1>3. ASSUME NEW j \in Jobs, Register(j) PROVE LiveTurnsBlock'
  BY <1>3 DEF Register, Goto, IsTicket, db, chat, server, history
<1>4. ASSUME NEW j \in Jobs, Start(j) PROVE LiveTurnsBlock'
  BY <1>4 DEF Start, WriteSucceeds, Save, WriteRow, Goto, chat, server, history
<1>5. ASSUME NEW j \in Jobs, StartFails(j) PROVE LiveTurnsBlock'
  BY <1>5 DEF StartFails, WriteFails, Fault, IsUser, Save, NoSave, WriteRow, Goto, chat, server, history
<1>6. ASSUME NEW j \in Jobs, Queue(j) PROVE LiveTurnsBlock'
  BY <1>6 DEF Queue, Blockers, chat, server, history
<1>7. ASSUME NEW j \in Jobs, PassGate(j) PROVE LiveTurnsBlock'
  BY <1>7 DEF PassGate, Goto, Entry, IsTicket, Blockers, db, chat, server, history
<1>8. ASSUME NEW j \in Jobs, CheckQueuedStatus(j) PROVE LiveTurnsBlock'
  BY <1>8 DEF CheckQueuedStatus, Goto, Entry, IsTicket, Fault, db, chat, server, history
<1>9. ASSUME NEW j \in Jobs, LeaveQueueCancelled(j) PROVE LiveTurnsBlock'
  BY <1>9 DEF LeaveQueueCancelled, WriteRow, Fault, Goto, db, chat, server, history
<1>10. ASSUME NEW j \in Jobs, GiveUp(j) PROVE LiveTurnsBlock'
  BY <1>10 DEF GiveUp, WriteRow, Fault, Goto, db, chat, server, history
<1>11. ASSUME NEW j \in Jobs, MarkTicketProcessing(j) PROVE LiveTurnsBlock'
  BY <1>11 DEF MarkTicketProcessing, WriteRow, Fault, Goto, db, chat, server, history
<1>12. ASSUME NEW j \in Jobs, BuildContext(j) PROVE LiveTurnsBlock'
  BY <1>12 DEF BuildContext, Goto, db, chat, server
<1>13. ASSUME NEW j \in Jobs, ContextFails(j) PROVE LiveTurnsBlock'
  BY <1>13 DEF ContextFails, IsUser, WriteSucceeds, WriteFails, Save, NoSave, WriteRow, Fault, Goto, chat, server, history
<1>14. ASSUME NEW j \in Jobs, Reply(j) PROVE LiveTurnsBlock'
  BY <1>14 DEF Reply, Goto, db, server, history
<1>15. ASSUME NEW j \in Jobs, GenerationFails(j) PROVE LiveTurnsBlock'
  BY <1>15 DEF GenerationFails, IsUser, Save, NoSave, WriteRow, Fault, Goto, chat, server, history
<1>16. ASSUME NEW j \in Jobs, RecordReply(j) PROVE LiveTurnsBlock'
  BY <1>16 DEF RecordReply, IsUser, IsTicket, WriteSucceeds, Save, WriteRow, Goto, chat, server, history
<1>17. ASSUME NEW j \in Jobs, RecordReplyFails(j) PROVE LiveTurnsBlock'
  BY <1>17 DEF RecordReplyFails, IsUser, IsTicket, WriteFails, Fault, Save, NoSave, WriteRow, Goto, chat, server, history
<1>18. ASSUME NEW j \in Jobs, SaveChain(j) PROVE LiveTurnsBlock'
  BY <1>18 DEF SaveChain, IsUser, WriteSucceeds, Goto, db, server, history
<1>19. ASSUME NEW j \in Jobs, SaveChainFails(j) PROVE LiveTurnsBlock'
  BY <1>19 DEF SaveChainFails, IsUser, WriteFails, Fault, Goto, db, chat, server, history
<1>20. ASSUME NEW j \in Jobs, Advance(j) PROVE LiveTurnsBlock'
  BY <1>20 DEF Advance, IsUser, NextPhase, PhaseStatus, WriteSucceeds, Save, WriteRow, Goto, chat, server, history
<1>21. ASSUME NEW j \in Jobs, AdvanceFails(j) PROVE LiveTurnsBlock'
  BY <1>21 DEF AdvanceFails, IsUser, NextPhase, WriteFails, Fault, Goto, db, chat, server, history
<1>22. ASSUME NEW j \in Jobs, EndTicket(j) PROVE LiveTurnsBlock'
  BY <1>22 DEF EndTicket, WriteRow, Fault, Goto, db, chat, server, history
<1>23. ASSUME NEW j \in Jobs, Abort(j) PROVE LiveTurnsBlock'
  BY <1>23 DEF Abort, WriteRow, Fault, Goto, db, chat, server, history
<1>24. ASSUME NEW j \in Jobs, Release(j) PROVE LiveTurnsBlock'
  BY <1>24 DEF Release, FinishAbandoned, WriteRow, Fault, Goto, db, chat, server, history
<1>25. ASSUME NEW j \in Jobs, Age(j) PROVE LiveTurnsBlock'
  BY <1>25 DEF Age, worker, chat, server
<1>26. ASSUME NEW j \in Jobs, Heartbeat(j) PROVE LiveTurnsBlock'
  BY <1>26 DEF Heartbeat, Tracked, worker, chat, server, history
<1>27. ASSUME NEW j \in Jobs, Watch(j) PROVE LiveTurnsBlock'
  BY <1>27 DEF Watch, db, chat, server, history
<1>28. ASSUME NEW j \in Jobs, StopJob(j) PROVE LiveTurnsBlock'
  BY <1>28 DEF StopJob, WriteRow, db, chat
<1>29. ASSUME NEW j \in Jobs, ShutdownRead(j) PROVE LiveTurnsBlock'
  BY <1>29 DEF ShutdownRead, db, worker, chat, history
<1>30. ASSUME NEW j \in Jobs, ShutdownWrite(j) PROVE LiveTurnsBlock'
  BY <1>30 DEF ShutdownWrite, WriteRow, worker, chat
<1>31. ASSUME NEW i \in Instances, BeginShutdown(i) PROVE LiveTurnsBlock'
  BY <1>31 DEF BeginShutdown, db, worker, chat, history
<1>32. ASSUME NEW i \in Instances, Exit(i) PROVE LiveTurnsBlock'
  BY <1>32 DEF Exit, Down, db, chat, history
<1>33. ASSUME NEW i \in Instances, Crash(i) PROVE LiveTurnsBlock'
  BY <1>33 DEF Crash, Down, db, chat, history
<1>34. ASSUME NEW i \in Instances, Restart(i) PROVE LiveTurnsBlock'
  BY <1>34 DEF Restart, worker, chat
<1>35. ASSUME NEW i \in Instances, NEW j \in Jobs, StopThread(i, j) PROVE LiveTurnsBlock'
  BY <1>35 DEF StopThread, db, worker, chat, history
<1>36. CASE UNCHANGED vars
  BY <1>36 DEF vars
<1>37. QED
  BY <1>1, <1>2, <1>3, <1>4, <1>5, <1>6, <1>7, <1>8, <1>9, <1>10, <1>11, <1>12, <1>13, <1>14, <1>15, <1>16, <1>17, <1>18, <1>19, <1>20, <1>21, <1>22, <1>23, <1>24, <1>25, <1>26, <1>27, <1>28, <1>29, <1>30, <1>31, <1>32, <1>33, <1>34, <1>35, <1>36 DEF Next, Work

\* A turn passes the gate only over workers that lapsed or are past their reply, and
\* a row that commits behind it lapses at once.
LEMMA StepGateOrder == TypeOK /\ LiveTurnsBlock /\ GateOrder /\ [Next]_vars => GateOrder'
<1> SUFFICES ASSUME TypeOK, LiveTurnsBlock, GateOrder, [Next]_vars PROVE GateOrder'
  OBVIOUS
<1> USE ConstantsAssumption DEF TypeOK, LiveTurnsBlock, GateOrder, Blocking, InTurn, AfterGate, BeforeReply, Ended
<1>1. ASSUME NEW j \in Jobs, Arrive(j) PROVE GateOrder'
  BY <1>1 DEF Arrive, Goto, ActiveFor, IsUser, db, chat, server, history
<1>2. ASSUME NEW j \in Jobs, Insert(j) PROVE GateOrder'
  BY <1>2 DEF Insert, WriteRow, Goto, chat, server
<1>3. ASSUME NEW j \in Jobs, Register(j) PROVE GateOrder'
  BY <1>3 DEF Register, Goto, IsTicket, db, chat, server, history
<1>4. ASSUME NEW j \in Jobs, Start(j) PROVE GateOrder'
  BY <1>4 DEF Start, WriteSucceeds, Save, WriteRow, Goto, chat, server, history
<1>5. ASSUME NEW j \in Jobs, StartFails(j) PROVE GateOrder'
  BY <1>5 DEF StartFails, WriteFails, Fault, IsUser, Save, NoSave, WriteRow, Goto, chat, server, history
<1>6. ASSUME NEW j \in Jobs, Queue(j) PROVE GateOrder'
  BY <1>6 DEF Queue, Blockers, chat, server, history
<1>7. ASSUME NEW j \in Jobs, PassGate(j) PROVE GateOrder'
  BY <1>7 DEF PassGate, Goto, Entry, IsTicket, Blockers, db, chat, server, history
<1>8. ASSUME NEW j \in Jobs, CheckQueuedStatus(j) PROVE GateOrder'
  BY <1>8 DEF CheckQueuedStatus, Goto, Entry, IsTicket, Fault, db, chat, server, history
<1>9. ASSUME NEW j \in Jobs, LeaveQueueCancelled(j) PROVE GateOrder'
  BY <1>9 DEF LeaveQueueCancelled, WriteRow, Fault, Goto, db, chat, server, history
<1>10. ASSUME NEW j \in Jobs, GiveUp(j) PROVE GateOrder'
  BY <1>10 DEF GiveUp, WriteRow, Fault, Goto, db, chat, server, history
<1>11. ASSUME NEW j \in Jobs, MarkTicketProcessing(j) PROVE GateOrder'
  BY <1>11 DEF MarkTicketProcessing, WriteRow, Fault, Goto, db, chat, server, history
<1>12. ASSUME NEW j \in Jobs, BuildContext(j) PROVE GateOrder'
  BY <1>12 DEF BuildContext, Goto, db, chat, server
<1>13. ASSUME NEW j \in Jobs, ContextFails(j) PROVE GateOrder'
  BY <1>13 DEF ContextFails, IsUser, WriteSucceeds, WriteFails, Save, NoSave, WriteRow, Fault, Goto, chat, server, history
<1>14. ASSUME NEW j \in Jobs, Reply(j) PROVE GateOrder'
  BY <1>14 DEF Reply, Goto, db, server, history
<1>15. ASSUME NEW j \in Jobs, GenerationFails(j) PROVE GateOrder'
  BY <1>15 DEF GenerationFails, IsUser, Save, NoSave, WriteRow, Fault, Goto, chat, server, history
<1>16. ASSUME NEW j \in Jobs, RecordReply(j) PROVE GateOrder'
  BY <1>16 DEF RecordReply, IsUser, IsTicket, WriteSucceeds, Save, WriteRow, Goto, chat, server, history
<1>17. ASSUME NEW j \in Jobs, RecordReplyFails(j) PROVE GateOrder'
  BY <1>17 DEF RecordReplyFails, IsUser, IsTicket, WriteFails, Fault, Save, NoSave, WriteRow, Goto, chat, server, history
<1>18. ASSUME NEW j \in Jobs, SaveChain(j) PROVE GateOrder'
  BY <1>18 DEF SaveChain, IsUser, WriteSucceeds, Goto, db, server, history
<1>19. ASSUME NEW j \in Jobs, SaveChainFails(j) PROVE GateOrder'
  BY <1>19 DEF SaveChainFails, IsUser, WriteFails, Fault, Goto, db, chat, server, history
<1>20. ASSUME NEW j \in Jobs, Advance(j) PROVE GateOrder'
  BY <1>20 DEF Advance, IsUser, NextPhase, PhaseStatus, WriteSucceeds, Save, WriteRow, Goto, chat, server, history
<1>21. ASSUME NEW j \in Jobs, AdvanceFails(j) PROVE GateOrder'
  BY <1>21 DEF AdvanceFails, IsUser, NextPhase, WriteFails, Fault, Goto, db, chat, server, history
<1>22. ASSUME NEW j \in Jobs, EndTicket(j) PROVE GateOrder'
  BY <1>22 DEF EndTicket, WriteRow, Fault, Goto, db, chat, server, history
<1>23. ASSUME NEW j \in Jobs, Abort(j) PROVE GateOrder'
  BY <1>23 DEF Abort, WriteRow, Fault, Goto, db, chat, server, history
<1>24. ASSUME NEW j \in Jobs, Release(j) PROVE GateOrder'
  BY <1>24 DEF Release, FinishAbandoned, WriteRow, Fault, Goto, db, chat, server, history
<1>25. ASSUME NEW j \in Jobs, Age(j) PROVE GateOrder'
  BY <1>25 DEF Age, worker, chat, server
<1>26. ASSUME NEW j \in Jobs, Heartbeat(j) PROVE GateOrder'
  BY <1>26 DEF Heartbeat, Tracked, worker, chat, server, history
<1>27. ASSUME NEW j \in Jobs, Watch(j) PROVE GateOrder'
  BY <1>27 DEF Watch, db, chat, server, history
<1>28. ASSUME NEW j \in Jobs, StopJob(j) PROVE GateOrder'
  BY <1>28 DEF StopJob, WriteRow, db, chat
<1>29. ASSUME NEW j \in Jobs, ShutdownRead(j) PROVE GateOrder'
  BY <1>29 DEF ShutdownRead, db, worker, chat, history
<1>30. ASSUME NEW j \in Jobs, ShutdownWrite(j) PROVE GateOrder'
  BY <1>30 DEF ShutdownWrite, WriteRow, worker, chat
<1>31. ASSUME NEW i \in Instances, BeginShutdown(i) PROVE GateOrder'
  BY <1>31 DEF BeginShutdown, db, worker, chat, history
<1>32. ASSUME NEW i \in Instances, Exit(i) PROVE GateOrder'
  BY <1>32 DEF Exit, Down, db, chat, history
<1>33. ASSUME NEW i \in Instances, Crash(i) PROVE GateOrder'
  BY <1>33 DEF Crash, Down, db, chat, history
<1>34. ASSUME NEW i \in Instances, Restart(i) PROVE GateOrder'
  BY <1>34 DEF Restart, worker, chat
<1>35. ASSUME NEW i \in Instances, NEW j \in Jobs, StopThread(i, j) PROVE GateOrder'
  BY <1>35 DEF StopThread, db, worker, chat, history
<1>36. CASE UNCHANGED vars
  BY <1>36 DEF vars
<1>37. QED
  BY <1>1, <1>2, <1>3, <1>4, <1>5, <1>6, <1>7, <1>8, <1>9, <1>10, <1>11, <1>12, <1>13, <1>14, <1>15, <1>16, <1>17, <1>18, <1>19, <1>20, <1>21, <1>22, <1>23, <1>24, <1>25, <1>26, <1>27, <1>28, <1>29, <1>30, <1>31, <1>32, <1>33, <1>34, <1>35, <1>36 DEF Next, Work

\* A reply saved after a later turn built its context is by a worker that lapsed.
LEMMA StepContext == TypeOK /\ GateOrder /\ ContextHasEarlierReplies /\ [Next]_vars => ContextHasEarlierReplies'
<1> SUFFICES ASSUME TypeOK, GateOrder, ContextHasEarlierReplies, [Next]_vars PROVE ContextHasEarlierReplies'
  OBVIOUS
<1> USE ConstantsAssumption DEF TypeOK, GateOrder, ContextHasEarlierReplies, InTurn, AfterGate, BeforeReply, Ended
<1>1. ASSUME NEW j \in Jobs, Arrive(j) PROVE ContextHasEarlierReplies'
  BY <1>1 DEF Arrive, Goto, ActiveFor, IsUser, db, chat, server, history
<1>2. ASSUME NEW j \in Jobs, Insert(j) PROVE ContextHasEarlierReplies'
  BY <1>2 DEF Insert, WriteRow, Goto, chat, server
<1>3. ASSUME NEW j \in Jobs, Register(j) PROVE ContextHasEarlierReplies'
  BY <1>3 DEF Register, Goto, IsTicket, db, chat, server, history
<1>4. ASSUME NEW j \in Jobs, Start(j) PROVE ContextHasEarlierReplies'
  BY <1>4 DEF Start, WriteSucceeds, Save, WriteRow, Goto, chat, server, history
<1>5. ASSUME NEW j \in Jobs, StartFails(j) PROVE ContextHasEarlierReplies'
  BY <1>5 DEF StartFails, WriteFails, Fault, IsUser, Save, NoSave, WriteRow, Goto, chat, server, history
<1>6. ASSUME NEW j \in Jobs, Queue(j) PROVE ContextHasEarlierReplies'
  BY <1>6 DEF Queue, Blockers, chat, server, history
<1>7. ASSUME NEW j \in Jobs, PassGate(j) PROVE ContextHasEarlierReplies'
  BY <1>7 DEF PassGate, Goto, Entry, IsTicket, Blockers, db, chat, server, history
<1>8. ASSUME NEW j \in Jobs, CheckQueuedStatus(j) PROVE ContextHasEarlierReplies'
  BY <1>8 DEF CheckQueuedStatus, Goto, Entry, IsTicket, Fault, db, chat, server, history
<1>9. ASSUME NEW j \in Jobs, LeaveQueueCancelled(j) PROVE ContextHasEarlierReplies'
  BY <1>9 DEF LeaveQueueCancelled, WriteRow, Fault, Goto, db, chat, server, history
<1>10. ASSUME NEW j \in Jobs, GiveUp(j) PROVE ContextHasEarlierReplies'
  BY <1>10 DEF GiveUp, WriteRow, Fault, Goto, db, chat, server, history
<1>11. ASSUME NEW j \in Jobs, MarkTicketProcessing(j) PROVE ContextHasEarlierReplies'
  BY <1>11 DEF MarkTicketProcessing, WriteRow, Fault, Goto, db, chat, server, history
<1>12. ASSUME NEW j \in Jobs, BuildContext(j) PROVE ContextHasEarlierReplies'
  BY <1>12 DEF BuildContext, Goto, db, chat, server
<1>13. ASSUME NEW j \in Jobs, ContextFails(j) PROVE ContextHasEarlierReplies'
  BY <1>13 DEF ContextFails, IsUser, WriteSucceeds, WriteFails, Save, NoSave, WriteRow, Fault, Goto, chat, server, history
<1>14. ASSUME NEW j \in Jobs, Reply(j) PROVE ContextHasEarlierReplies'
  BY <1>14 DEF Reply, Goto, db, server, history
<1>15. ASSUME NEW j \in Jobs, GenerationFails(j) PROVE ContextHasEarlierReplies'
  BY <1>15 DEF GenerationFails, IsUser, Save, NoSave, WriteRow, Fault, Goto, chat, server, history
<1>16. ASSUME NEW j \in Jobs, RecordReply(j) PROVE ContextHasEarlierReplies'
  BY <1>16 DEF RecordReply, IsUser, IsTicket, WriteSucceeds, Save, WriteRow, Goto, chat, server, history
<1>17. ASSUME NEW j \in Jobs, RecordReplyFails(j) PROVE ContextHasEarlierReplies'
  BY <1>17 DEF RecordReplyFails, IsUser, IsTicket, WriteFails, Fault, Save, NoSave, WriteRow, Goto, chat, server, history
<1>18. ASSUME NEW j \in Jobs, SaveChain(j) PROVE ContextHasEarlierReplies'
  BY <1>18 DEF SaveChain, IsUser, WriteSucceeds, Goto, db, server, history
<1>19. ASSUME NEW j \in Jobs, SaveChainFails(j) PROVE ContextHasEarlierReplies'
  BY <1>19 DEF SaveChainFails, IsUser, WriteFails, Fault, Goto, db, chat, server, history
<1>20. ASSUME NEW j \in Jobs, Advance(j) PROVE ContextHasEarlierReplies'
  BY <1>20 DEF Advance, IsUser, NextPhase, PhaseStatus, WriteSucceeds, Save, WriteRow, Goto, chat, server, history
<1>21. ASSUME NEW j \in Jobs, AdvanceFails(j) PROVE ContextHasEarlierReplies'
  BY <1>21 DEF AdvanceFails, IsUser, NextPhase, WriteFails, Fault, Goto, db, chat, server, history
<1>22. ASSUME NEW j \in Jobs, EndTicket(j) PROVE ContextHasEarlierReplies'
  BY <1>22 DEF EndTicket, WriteRow, Fault, Goto, db, chat, server, history
<1>23. ASSUME NEW j \in Jobs, Abort(j) PROVE ContextHasEarlierReplies'
  BY <1>23 DEF Abort, WriteRow, Fault, Goto, db, chat, server, history
<1>24. ASSUME NEW j \in Jobs, Release(j) PROVE ContextHasEarlierReplies'
  BY <1>24 DEF Release, FinishAbandoned, WriteRow, Fault, Goto, db, chat, server, history
<1>25. ASSUME NEW j \in Jobs, Age(j) PROVE ContextHasEarlierReplies'
  BY <1>25 DEF Age, worker, chat, server
<1>26. ASSUME NEW j \in Jobs, Heartbeat(j) PROVE ContextHasEarlierReplies'
  BY <1>26 DEF Heartbeat, Tracked, worker, chat, server, history
<1>27. ASSUME NEW j \in Jobs, Watch(j) PROVE ContextHasEarlierReplies'
  BY <1>27 DEF Watch, db, chat, server, history
<1>28. ASSUME NEW j \in Jobs, StopJob(j) PROVE ContextHasEarlierReplies'
  BY <1>28 DEF StopJob, WriteRow, db, chat
<1>29. ASSUME NEW j \in Jobs, ShutdownRead(j) PROVE ContextHasEarlierReplies'
  BY <1>29 DEF ShutdownRead, db, worker, chat, history
<1>30. ASSUME NEW j \in Jobs, ShutdownWrite(j) PROVE ContextHasEarlierReplies'
  BY <1>30 DEF ShutdownWrite, WriteRow, worker, chat
<1>31. ASSUME NEW i \in Instances, BeginShutdown(i) PROVE ContextHasEarlierReplies'
  BY <1>31 DEF BeginShutdown, db, worker, chat, history
<1>32. ASSUME NEW i \in Instances, Exit(i) PROVE ContextHasEarlierReplies'
  BY <1>32 DEF Exit, Down, db, chat, history
<1>33. ASSUME NEW i \in Instances, Crash(i) PROVE ContextHasEarlierReplies'
  BY <1>33 DEF Crash, Down, db, chat, history
<1>34. ASSUME NEW i \in Instances, Restart(i) PROVE ContextHasEarlierReplies'
  BY <1>34 DEF Restart, worker, chat
<1>35. ASSUME NEW i \in Instances, NEW j \in Jobs, StopThread(i, j) PROVE ContextHasEarlierReplies'
  BY <1>35 DEF StopThread, db, worker, chat, history
<1>36. CASE UNCHANGED vars
  BY <1>36 DEF vars
<1>37. QED
  BY <1>1, <1>2, <1>3, <1>4, <1>5, <1>6, <1>7, <1>8, <1>9, <1>10, <1>11, <1>12, <1>13, <1>14, <1>15, <1>16, <1>17, <1>18, <1>19, <1>20, <1>21, <1>22, <1>23, <1>24, <1>25, <1>26, <1>27, <1>28, <1>29, <1>30, <1>31, <1>32, <1>33, <1>34, <1>35, <1>36 DEF Next, Work

\* A row never goes away.
LEMMA StepWorkersHaveRows == TypeOK /\ WorkersHaveRows /\ [Next]_vars => WorkersHaveRows'
<1> SUFFICES ASSUME TypeOK, WorkersHaveRows, [Next]_vars PROVE WorkersHaveRows'
  OBVIOUS
<1> USE ConstantsAssumption DEF TypeOK, WorkersHaveRows, Status, Blocking, Replied, Terminal, InTurn, AfterGate, Ended
<1>1. ASSUME NEW j \in Jobs, Arrive(j) PROVE WorkersHaveRows'
  BY <1>1 DEF Arrive, Goto, ActiveFor, IsUser, db, chat, server, history
<1>2. ASSUME NEW j \in Jobs, Insert(j) PROVE WorkersHaveRows'
  BY <1>2 DEF Insert, WriteRow, Goto, chat, server
<1>3. ASSUME NEW j \in Jobs, Register(j) PROVE WorkersHaveRows'
  BY <1>3 DEF Register, Goto, IsTicket, db, chat, server, history
<1>4. ASSUME NEW j \in Jobs, Start(j) PROVE WorkersHaveRows'
  BY <1>4 DEF Start, WriteSucceeds, Save, WriteRow, Goto, chat, server, history
<1>5. ASSUME NEW j \in Jobs, StartFails(j) PROVE WorkersHaveRows'
  BY <1>5 DEF StartFails, WriteFails, Fault, IsUser, Save, NoSave, WriteRow, Goto, chat, server, history
<1>6. ASSUME NEW j \in Jobs, Queue(j) PROVE WorkersHaveRows'
  BY <1>6 DEF Queue, Blockers, chat, server, history
<1>7. ASSUME NEW j \in Jobs, PassGate(j) PROVE WorkersHaveRows'
  BY <1>7 DEF PassGate, Goto, Entry, IsTicket, Blockers, db, chat, server, history
<1>8. ASSUME NEW j \in Jobs, CheckQueuedStatus(j) PROVE WorkersHaveRows'
  BY <1>8 DEF CheckQueuedStatus, Goto, Entry, IsTicket, Fault, db, chat, server, history
<1>9. ASSUME NEW j \in Jobs, LeaveQueueCancelled(j) PROVE WorkersHaveRows'
  BY <1>9 DEF LeaveQueueCancelled, WriteRow, Fault, Goto, db, chat, server, history
<1>10. ASSUME NEW j \in Jobs, GiveUp(j) PROVE WorkersHaveRows'
  BY <1>10 DEF GiveUp, WriteRow, Fault, Goto, db, chat, server, history
<1>11. ASSUME NEW j \in Jobs, MarkTicketProcessing(j) PROVE WorkersHaveRows'
  BY <1>11 DEF MarkTicketProcessing, WriteRow, Fault, Goto, db, chat, server, history
<1>12. ASSUME NEW j \in Jobs, BuildContext(j) PROVE WorkersHaveRows'
  BY <1>12 DEF BuildContext, Goto, db, chat, server
<1>13. ASSUME NEW j \in Jobs, ContextFails(j) PROVE WorkersHaveRows'
  BY <1>13 DEF ContextFails, IsUser, WriteSucceeds, WriteFails, Save, NoSave, WriteRow, Fault, Goto, chat, server, history
<1>14. ASSUME NEW j \in Jobs, Reply(j) PROVE WorkersHaveRows'
  BY <1>14 DEF Reply, Goto, db, server, history
<1>15. ASSUME NEW j \in Jobs, GenerationFails(j) PROVE WorkersHaveRows'
  BY <1>15 DEF GenerationFails, IsUser, Save, NoSave, WriteRow, Fault, Goto, chat, server, history
<1>16. ASSUME NEW j \in Jobs, RecordReply(j) PROVE WorkersHaveRows'
  BY <1>16 DEF RecordReply, IsUser, IsTicket, WriteSucceeds, Save, WriteRow, Goto, chat, server, history
<1>17. ASSUME NEW j \in Jobs, RecordReplyFails(j) PROVE WorkersHaveRows'
  BY <1>17 DEF RecordReplyFails, IsUser, IsTicket, WriteFails, Fault, Save, NoSave, WriteRow, Goto, chat, server, history
<1>18. ASSUME NEW j \in Jobs, SaveChain(j) PROVE WorkersHaveRows'
  BY <1>18 DEF SaveChain, IsUser, WriteSucceeds, Goto, db, server, history
<1>19. ASSUME NEW j \in Jobs, SaveChainFails(j) PROVE WorkersHaveRows'
  BY <1>19 DEF SaveChainFails, IsUser, WriteFails, Fault, Goto, db, chat, server, history
<1>20. ASSUME NEW j \in Jobs, Advance(j) PROVE WorkersHaveRows'
  BY <1>20 DEF Advance, IsUser, NextPhase, PhaseStatus, WriteSucceeds, Save, WriteRow, Goto, chat, server, history
<1>21. ASSUME NEW j \in Jobs, AdvanceFails(j) PROVE WorkersHaveRows'
  BY <1>21 DEF AdvanceFails, IsUser, NextPhase, WriteFails, Fault, Goto, db, chat, server, history
<1>22. ASSUME NEW j \in Jobs, EndTicket(j) PROVE WorkersHaveRows'
  BY <1>22 DEF EndTicket, WriteRow, Fault, Goto, db, chat, server, history
<1>23. ASSUME NEW j \in Jobs, Abort(j) PROVE WorkersHaveRows'
  BY <1>23 DEF Abort, WriteRow, Fault, Goto, db, chat, server, history
<1>24. ASSUME NEW j \in Jobs, Release(j) PROVE WorkersHaveRows'
  BY <1>24 DEF Release, FinishAbandoned, WriteRow, Fault, Goto, db, chat, server, history
<1>25. ASSUME NEW j \in Jobs, Age(j) PROVE WorkersHaveRows'
  BY <1>25 DEF Age, worker, chat, server
<1>26. ASSUME NEW j \in Jobs, Heartbeat(j) PROVE WorkersHaveRows'
  BY <1>26 DEF Heartbeat, Tracked, worker, chat, server, history
<1>27. ASSUME NEW j \in Jobs, Watch(j) PROVE WorkersHaveRows'
  BY <1>27 DEF Watch, db, chat, server, history
<1>28. ASSUME NEW j \in Jobs, StopJob(j) PROVE WorkersHaveRows'
  BY <1>28 DEF StopJob, WriteRow, db, chat
<1>29. ASSUME NEW j \in Jobs, ShutdownRead(j) PROVE WorkersHaveRows'
  BY <1>29 DEF ShutdownRead, db, worker, chat, history
<1>30. ASSUME NEW j \in Jobs, ShutdownWrite(j) PROVE WorkersHaveRows'
  BY <1>30 DEF ShutdownWrite, WriteRow, worker, chat
<1>31. ASSUME NEW i \in Instances, BeginShutdown(i) PROVE WorkersHaveRows'
  BY <1>31 DEF BeginShutdown, db, worker, chat, history, Tracked, IsTicket
<1>32. ASSUME NEW i \in Instances, Exit(i) PROVE WorkersHaveRows'
  BY <1>32 DEF Exit, Down, db, chat, history
<1>33. ASSUME NEW i \in Instances, Crash(i) PROVE WorkersHaveRows'
  BY <1>33 DEF Crash, Down, db, chat, history
<1>34. ASSUME NEW i \in Instances, Restart(i) PROVE WorkersHaveRows'
  BY <1>34 DEF Restart, worker, chat
<1>35. ASSUME NEW i \in Instances, NEW j \in Jobs, StopThread(i, j) PROVE WorkersHaveRows'
  BY <1>35 DEF StopThread, db, worker, chat, history
<1>36. CASE UNCHANGED vars
  BY <1>36 DEF vars
<1>37. QED
  BY <1>1, <1>2, <1>3, <1>4, <1>5, <1>6, <1>7, <1>8, <1>9, <1>10, <1>11, <1>12, <1>13, <1>14, <1>15, <1>16, <1>17, <1>18, <1>19, <1>20, <1>21, <1>22, <1>23, <1>24, <1>25, <1>26, <1>27, <1>28, <1>29, <1>30, <1>31, <1>32, <1>33, <1>34, <1>35, <1>36 DEF Next, Work

\* Nobody says of a job that it replied before its reply is saved.
LEMMA StepRepliesAreSaved == TypeOK /\ WorkersHaveRows /\ RepliesAreSaved /\ [Next]_vars => RepliesAreSaved'
<1> SUFFICES ASSUME TypeOK, WorkersHaveRows, RepliesAreSaved, [Next]_vars PROVE RepliesAreSaved'
  OBVIOUS
<1> USE ConstantsAssumption DEF TypeOK, WorkersHaveRows, RepliesAreSaved, Status, Blocking, Replied, Terminal, Ended
<1>1. ASSUME NEW j \in Jobs, Arrive(j) PROVE RepliesAreSaved'
  BY <1>1 DEF Arrive, Goto, ActiveFor, IsUser, db, chat, server, history
<1>2. ASSUME NEW j \in Jobs, Insert(j) PROVE RepliesAreSaved'
  BY <1>2 DEF Insert, WriteRow, Goto, chat, server
<1>3. ASSUME NEW j \in Jobs, Register(j) PROVE RepliesAreSaved'
  BY <1>3 DEF Register, Goto, IsTicket, db, chat, server, history
<1>4. ASSUME NEW j \in Jobs, Start(j) PROVE RepliesAreSaved'
  BY <1>4 DEF Start, WriteSucceeds, Save, WriteRow, Goto, chat, server, history
<1>5. ASSUME NEW j \in Jobs, StartFails(j) PROVE RepliesAreSaved'
  BY <1>5 DEF StartFails, WriteFails, Fault, IsUser, Save, NoSave, WriteRow, Goto, chat, server, history
<1>6. ASSUME NEW j \in Jobs, Queue(j) PROVE RepliesAreSaved'
  BY <1>6 DEF Queue, Blockers, chat, server, history
<1>7. ASSUME NEW j \in Jobs, PassGate(j) PROVE RepliesAreSaved'
  BY <1>7 DEF PassGate, Goto, Entry, IsTicket, Blockers, db, chat, server, history
<1>8. ASSUME NEW j \in Jobs, CheckQueuedStatus(j) PROVE RepliesAreSaved'
  BY <1>8 DEF CheckQueuedStatus, Goto, Entry, IsTicket, Fault, db, chat, server, history
<1>9. ASSUME NEW j \in Jobs, LeaveQueueCancelled(j) PROVE RepliesAreSaved'
  BY <1>9 DEF LeaveQueueCancelled, WriteRow, Fault, Goto, db, chat, server, history
<1>10. ASSUME NEW j \in Jobs, GiveUp(j) PROVE RepliesAreSaved'
  BY <1>10 DEF GiveUp, WriteRow, Fault, Goto, db, chat, server, history
<1>11. ASSUME NEW j \in Jobs, MarkTicketProcessing(j) PROVE RepliesAreSaved'
  BY <1>11 DEF MarkTicketProcessing, WriteRow, Fault, Goto, db, chat, server, history
<1>12. ASSUME NEW j \in Jobs, BuildContext(j) PROVE RepliesAreSaved'
  BY <1>12 DEF BuildContext, Goto, db, chat, server
<1>13. ASSUME NEW j \in Jobs, ContextFails(j) PROVE RepliesAreSaved'
  BY <1>13 DEF ContextFails, IsUser, WriteSucceeds, WriteFails, Save, NoSave, WriteRow, Fault, Goto, chat, server, history
<1>14. ASSUME NEW j \in Jobs, Reply(j) PROVE RepliesAreSaved'
  BY <1>14 DEF Reply, Goto, db, server, history
<1>15. ASSUME NEW j \in Jobs, GenerationFails(j) PROVE RepliesAreSaved'
  BY <1>15 DEF GenerationFails, IsUser, Save, NoSave, WriteRow, Fault, Goto, chat, server, history
<1>16. ASSUME NEW j \in Jobs, RecordReply(j) PROVE RepliesAreSaved'
  BY <1>16 DEF RecordReply, IsUser, IsTicket, WriteSucceeds, Save, WriteRow, Goto, chat, server, history
<1>17. ASSUME NEW j \in Jobs, RecordReplyFails(j) PROVE RepliesAreSaved'
  BY <1>17 DEF RecordReplyFails, IsUser, IsTicket, WriteFails, Fault, Save, NoSave, WriteRow, Goto, chat, server, history
<1>18. ASSUME NEW j \in Jobs, SaveChain(j) PROVE RepliesAreSaved'
  BY <1>18 DEF SaveChain, IsUser, WriteSucceeds, Goto, db, server, history
<1>19. ASSUME NEW j \in Jobs, SaveChainFails(j) PROVE RepliesAreSaved'
  BY <1>19 DEF SaveChainFails, IsUser, WriteFails, Fault, Goto, db, chat, server, history
<1>20. ASSUME NEW j \in Jobs, Advance(j) PROVE RepliesAreSaved'
  BY <1>20 DEF Advance, IsUser, NextPhase, PhaseStatus, WriteSucceeds, Save, WriteRow, Goto, chat, server, history
<1>21. ASSUME NEW j \in Jobs, AdvanceFails(j) PROVE RepliesAreSaved'
  BY <1>21 DEF AdvanceFails, IsUser, NextPhase, WriteFails, Fault, Goto, db, chat, server, history
<1>22. ASSUME NEW j \in Jobs, EndTicket(j) PROVE RepliesAreSaved'
  BY <1>22 DEF EndTicket, WriteRow, Fault, Goto, db, chat, server, history
<1>23. ASSUME NEW j \in Jobs, Abort(j) PROVE RepliesAreSaved'
  BY <1>23 DEF Abort, WriteRow, Fault, Goto, db, chat, server, history
<1>24. ASSUME NEW j \in Jobs, Release(j) PROVE RepliesAreSaved'
  BY <1>24 DEF Release, FinishAbandoned, WriteRow, Fault, Goto, db, chat, server, history
<1>25. ASSUME NEW j \in Jobs, Age(j) PROVE RepliesAreSaved'
  BY <1>25 DEF Age, worker, chat, server
<1>26. ASSUME NEW j \in Jobs, Heartbeat(j) PROVE RepliesAreSaved'
  BY <1>26 DEF Heartbeat, Tracked, worker, chat, server, history
<1>27. ASSUME NEW j \in Jobs, Watch(j) PROVE RepliesAreSaved'
  BY <1>27 DEF Watch, db, chat, server, history
<1>28. ASSUME NEW j \in Jobs, StopJob(j) PROVE RepliesAreSaved'
  BY <1>28 DEF StopJob, WriteRow, db, chat
<1>29. ASSUME NEW j \in Jobs, ShutdownRead(j) PROVE RepliesAreSaved'
  BY <1>29 DEF ShutdownRead, db, worker, chat, history
<1>30. ASSUME NEW j \in Jobs, ShutdownWrite(j) PROVE RepliesAreSaved'
  BY <1>30 DEF ShutdownWrite, WriteRow, worker, chat
<1>31. ASSUME NEW i \in Instances, BeginShutdown(i) PROVE RepliesAreSaved'
  BY <1>31 DEF BeginShutdown, db, worker, chat, history, ReplyNoted
<1>32. ASSUME NEW i \in Instances, Exit(i) PROVE RepliesAreSaved'
  BY <1>32 DEF Exit, Down, db, chat, history
<1>33. ASSUME NEW i \in Instances, Crash(i) PROVE RepliesAreSaved'
  BY <1>33 DEF Crash, Down, db, chat, history
<1>34. ASSUME NEW i \in Instances, Restart(i) PROVE RepliesAreSaved'
  BY <1>34 DEF Restart, worker, chat
<1>35. ASSUME NEW i \in Instances, NEW j \in Jobs, StopThread(i, j) PROVE RepliesAreSaved'
  BY <1>35 DEF StopThread, db, worker, chat, history
<1>36. CASE UNCHANGED vars
  BY <1>36 DEF vars
<1>37. QED
  BY <1>1, <1>2, <1>3, <1>4, <1>5, <1>6, <1>7, <1>8, <1>9, <1>10, <1>11, <1>12, <1>13, <1>14, <1>15, <1>16, <1>17, <1>18, <1>19, <1>20, <1>21, <1>22, <1>23, <1>24, <1>25, <1>26, <1>27, <1>28, <1>29, <1>30, <1>31, <1>32, <1>33, <1>34, <1>35, <1>36 DEF Next, Work

\* Undisturbed, the environment never makes a turn lapse.
LEMMA StepNothingLapses == TypeOK /\ NothingLapses /\ Undisturbed /\ [Next]_vars => NothingLapses'
<1> SUFFICES ASSUME TypeOK, NothingLapses, Undisturbed, [Next]_vars PROVE NothingLapses'
  OBVIOUS
<1> USE ConstantsAssumption DEF TypeOK, NothingLapses, Undisturbed, InTurn, AfterGate, BeforeReply, Ended
<1>1. ASSUME NEW j \in Jobs, Arrive(j) PROVE NothingLapses'
  BY <1>1 DEF Arrive, Goto, ActiveFor, IsUser, db, chat, server, history
<1>2. ASSUME NEW j \in Jobs, Insert(j) PROVE NothingLapses'
  BY <1>2 DEF Insert, WriteRow, Goto, chat, server
<1>3. ASSUME NEW j \in Jobs, Register(j) PROVE NothingLapses'
  BY <1>3 DEF Register, Goto, IsTicket, db, chat, server, history
<1>4. ASSUME NEW j \in Jobs, Start(j) PROVE NothingLapses'
  BY <1>4 DEF Start, WriteSucceeds, Save, WriteRow, Goto, chat, server, history
<1>5. ASSUME NEW j \in Jobs, StartFails(j) PROVE NothingLapses'
  BY <1>5 DEF StartFails, WriteFails, Fault, IsUser, Save, NoSave, WriteRow, Goto, chat, server, history
<1>6. ASSUME NEW j \in Jobs, Queue(j) PROVE NothingLapses'
  BY <1>6 DEF Queue, Blockers, chat, server, history
<1>7. ASSUME NEW j \in Jobs, PassGate(j) PROVE NothingLapses'
  BY <1>7 DEF PassGate, Goto, Entry, IsTicket, Blockers, db, chat, server, history
<1>8. ASSUME NEW j \in Jobs, CheckQueuedStatus(j) PROVE NothingLapses'
  BY <1>8 DEF CheckQueuedStatus, Goto, Entry, IsTicket, Fault, db, chat, server, history
<1>9. ASSUME NEW j \in Jobs, LeaveQueueCancelled(j) PROVE NothingLapses'
  BY <1>9 DEF LeaveQueueCancelled, WriteRow, Fault, Goto, db, chat, server, history
<1>10. ASSUME NEW j \in Jobs, GiveUp(j) PROVE NothingLapses'
  BY <1>10 DEF GiveUp, WriteRow, Fault, Goto, db, chat, server, history
<1>11. ASSUME NEW j \in Jobs, MarkTicketProcessing(j) PROVE NothingLapses'
  BY <1>11 DEF MarkTicketProcessing, WriteRow, Fault, Goto, db, chat, server, history
<1>12. ASSUME NEW j \in Jobs, BuildContext(j) PROVE NothingLapses'
  BY <1>12 DEF BuildContext, Goto, db, chat, server
<1>13. ASSUME NEW j \in Jobs, ContextFails(j) PROVE NothingLapses'
  BY <1>13 DEF ContextFails, IsUser, WriteSucceeds, WriteFails, Save, NoSave, WriteRow, Fault, Goto, chat, server, history
<1>14. ASSUME NEW j \in Jobs, Reply(j) PROVE NothingLapses'
  BY <1>14 DEF Reply, Goto, db, server, history
<1>15. ASSUME NEW j \in Jobs, GenerationFails(j) PROVE NothingLapses'
  BY <1>15 DEF GenerationFails, IsUser, Save, NoSave, WriteRow, Fault, Goto, chat, server, history
<1>16. ASSUME NEW j \in Jobs, RecordReply(j) PROVE NothingLapses'
  BY <1>16 DEF RecordReply, IsUser, IsTicket, WriteSucceeds, Save, WriteRow, Goto, chat, server, history
<1>17. ASSUME NEW j \in Jobs, RecordReplyFails(j) PROVE NothingLapses'
  BY <1>17 DEF RecordReplyFails, IsUser, IsTicket, WriteFails, Fault, Save, NoSave, WriteRow, Goto, chat, server, history
<1>18. ASSUME NEW j \in Jobs, SaveChain(j) PROVE NothingLapses'
  BY <1>18 DEF SaveChain, IsUser, WriteSucceeds, Goto, db, server, history
<1>19. ASSUME NEW j \in Jobs, SaveChainFails(j) PROVE NothingLapses'
  BY <1>19 DEF SaveChainFails, IsUser, WriteFails, Fault, Goto, db, chat, server, history
<1>20. ASSUME NEW j \in Jobs, Advance(j) PROVE NothingLapses'
  BY <1>20 DEF Advance, IsUser, NextPhase, PhaseStatus, WriteSucceeds, Save, WriteRow, Goto, chat, server, history
<1>21. ASSUME NEW j \in Jobs, AdvanceFails(j) PROVE NothingLapses'
  BY <1>21 DEF AdvanceFails, IsUser, NextPhase, WriteFails, Fault, Goto, db, chat, server, history
<1>22. ASSUME NEW j \in Jobs, EndTicket(j) PROVE NothingLapses'
  BY <1>22 DEF EndTicket, WriteRow, Fault, Goto, db, chat, server, history
<1>23. ASSUME NEW j \in Jobs, Abort(j) PROVE NothingLapses'
  BY <1>23 DEF Abort, WriteRow, Fault, Goto, db, chat, server, history
<1>24. ASSUME NEW j \in Jobs, Release(j) PROVE NothingLapses'
  BY <1>24 DEF Release, FinishAbandoned, WriteRow, Fault, Goto, db, chat, server, history
<1>25. ASSUME NEW j \in Jobs, Age(j) PROVE NothingLapses'
  BY <1>25 DEF Age, worker, chat, server
<1>26. ASSUME NEW j \in Jobs, Heartbeat(j) PROVE NothingLapses'
  BY <1>26 DEF Heartbeat, Tracked, worker, chat, server, history
<1>27. ASSUME NEW j \in Jobs, Watch(j) PROVE NothingLapses'
  BY <1>27 DEF Watch, db, chat, server, history
<1>28. ASSUME NEW j \in Jobs, StopJob(j) PROVE NothingLapses'
  BY <1>28 DEF StopJob, WriteRow, db, chat
<1>29. ASSUME NEW j \in Jobs, ShutdownRead(j) PROVE NothingLapses'
  BY <1>29 DEF ShutdownRead, db, worker, chat, history
<1>30. ASSUME NEW j \in Jobs, ShutdownWrite(j) PROVE NothingLapses'
  BY <1>30 DEF ShutdownWrite, WriteRow, worker, chat
<1>31. ASSUME NEW i \in Instances, BeginShutdown(i) PROVE NothingLapses'
  BY <1>31 DEF BeginShutdown, db, worker, chat, history
<1>32. ASSUME NEW i \in Instances, Exit(i) PROVE NothingLapses'
  BY <1>32 DEF Exit, Down, db, chat, history
<1>33. ASSUME NEW i \in Instances, Crash(i) PROVE NothingLapses'
  BY <1>33 DEF Crash, Down, db, chat, history
<1>34. ASSUME NEW i \in Instances, Restart(i) PROVE NothingLapses'
  <2>1. \A j \in Jobs : age[j] = 2 => pc[j] \notin BeforeReply
    BY DEF NothingLapses
  <2>2. lapsed' = {}
    BY <1>34, <2>1 DEF Restart
  <2>3. \A j \in Jobs : age'[j] > 0 => age[j] > 0
    BY <1>34 DEF Restart
  <2> QED BY <1>34, <2>2, <2>3 DEF Restart, worker, chat
<1>35. ASSUME NEW i \in Instances, NEW j \in Jobs, StopThread(i, j) PROVE NothingLapses'
  BY <1>35 DEF StopThread, db, worker, chat, history
<1>36. CASE UNCHANGED vars
  BY <1>36 DEF vars
<1>37. QED
  BY <1>1, <1>2, <1>3, <1>4, <1>5, <1>6, <1>7, <1>8, <1>9, <1>10, <1>11, <1>12, <1>13, <1>14, <1>15, <1>16, <1>17, <1>18, <1>19, <1>20, <1>21, <1>22, <1>23, <1>24, <1>25, <1>26, <1>27, <1>28, <1>29, <1>30, <1>31, <1>32, <1>33, <1>34, <1>35, <1>36 DEF Next, Work

-----------------------------------------------------------------------------
\* The inductive invariant holds in every reachable state.
THEOREM Invariance == Spec => []GateInv
<1>1. Init => GateInv
  BY InitTypeOK DEF GateInv, Init, LiveTurnsBlock, GateOrder, ContextHasEarlierReplies,
     BeforeReply, AfterGate, InTurn
<1>2. GateInv /\ [Next]_vars => GateInv'
  BY StepTypeOK, StepLiveTurnsBlock, StepGateOrder, StepContext DEF GateInv
<1>3. QED
  BY <1>1, <1>2, PTL DEF Spec

\* Types hold in every reachable state.
THEOREM TypeCorrect == Spec => []TypeOK
<1>1. GateInv => TypeOK
  BY DEF GateInv
<1>2. QED
  BY <1>1, Invariance, PTL

\* Two turns of a chat run at once only when the earlier one lapsed: stopped or
\* ended from outside, taken as dead, or committed after the later one passed.
THEOREM SingleFlightHolds == Spec => []SingleFlight
<1>1. GateInv => SingleFlight
  BY DEF GateInv, GateOrder, SingleFlight, InTurn, AfterGate, BeforeReply
<1>2. QED
  BY <1>1, Invariance, PTL

\* A turn's context holds the reply of every earlier turn that did not lapse.
THEOREM ContextIsComplete == Spec => []ContextHasEarlierReplies
<1>1. GateInv => ContextHasEarlierReplies
  BY DEF GateInv
<1>2. QED
  BY <1>1, Invariance, PTL

\* A job is reported complete only when its reply is in the chat, whichever of its
\* worker, the end-of-turn guard and a shutdown finished it.
THEOREM CompletedHaveReplied == Spec => []CompleteMeansReplied
<1>1. Init => RepliedInv
  <2> SUFFICES ASSUME Init PROVE RepliedInv
    OBVIOUS
  <2>1. WorkersHaveRows
    BY DEF Init, WorkersHaveRows
  <2>2. RepliesAreSaved
    BY DEF Init, RepliesAreSaved, Replied
  <2> QED BY <2>1, <2>2, InitTypeOK DEF RepliedInv
<1>2. RepliedInv /\ [Next]_vars => RepliedInv'
  BY StepTypeOK, StepWorkersHaveRows, StepRepliesAreSaved DEF RepliedInv
<1>3. RepliedInv => CompleteMeansReplied
  BY DEF RepliedInv, RepliesAreSaved, CompleteMeansReplied
<1>4. QED
  BY <1>1, <1>2, <1>3, PTL DEF Spec

\* Undisturbed, no two turns of a chat run at once, through crashes, restarts, failed
\* writes and waits that time out.
THEOREM StrictSingleFlightHolds ==
  ASSUME Undisturbed
  PROVE  Spec => []StrictSingleFlight
<1>1. Init => NothingLapses
  BY ConstantsAssumption DEF Init, NothingLapses, Undisturbed
<1>2. GateInv /\ NothingLapses /\ [Next]_vars => NothingLapses'
  BY StepNothingLapses DEF GateInv
<1>3. GateInv /\ NothingLapses => StrictSingleFlight
  BY ConstantsAssumption DEF GateInv, GateOrder, NothingLapses, StrictSingleFlight, InTurn, AfterGate, BeforeReply
<1>4. QED
  BY <1>1, <1>2, <1>3, Invariance, PTL DEF Spec

-----------------------------------------------------------------------------
(***************************************************************************)
(* The gate implements OrderedTurns, for any jobs, instances, kinds and    *)
(* bounds.  A poll that finds no blocking row enters a turn because a      *)
(* worker that did not lapse has such a row (LiveTurnsBlock); a reply is   *)
(* given once, on the context built once (BuiltOnce).  A commit, a poll, a *)
(* context and a reply are the steps of OrderedTurns of those names; every *)
(* other step excuses turns (Excuses), or settles some or none (Settles).  *)
(***************************************************************************)

\* A turn builds its context once, on its way to the provider.
BuiltOnce ==
  \A j \in Jobs :
    /\ pc[j] = "infer" => j \in built
    /\ j \in built => pc[j] \notin {"none", "insert", "inserted", "start", "queue",
                                  "admitted", "entered", "run"}

RefineInv == GateInv /\ BuiltOnce

\* A step that moves no turn on but to its end.
Settles ==
  /\ \A j \in Jobs : PhaseOf(pc'[j]) \in {PhaseOf(pc[j]), "settled"}
  /\ UNCHANGED <<saved, history>>

\* A step that gives up on turns before their reply, and does nothing else.
Excuses ==
  /\ \E S \in SUBSET Jobs : (\A j \in S : pc[j] \in BeforeReply) /\ lapsed' = lapsed \cup S
  /\ UNCHANGED <<pc, saved, built, seen>>

-----------------------------------------------------------------------------
\* Only BuildContext builds, and it leaves the label it needs.
LEMMA StepBuiltOnce == TypeOK /\ BuiltOnce /\ [Next]_vars => BuiltOnce'
<1> SUFFICES ASSUME TypeOK, BuiltOnce, [Next]_vars PROVE BuiltOnce'
  OBVIOUS
<1> USE ConstantsAssumption DEF TypeOK, BuiltOnce, InTurn, AfterGate, BeforeReply, Ended
<1>1. ASSUME NEW j \in Jobs, Arrive(j) PROVE BuiltOnce'
  BY <1>1 DEF Arrive, Goto, ActiveFor, IsUser, db, chat, server, history
<1>2. ASSUME NEW j \in Jobs, Insert(j) PROVE BuiltOnce'
  BY <1>2 DEF Insert, WriteRow, Goto, chat, server
<1>3. ASSUME NEW j \in Jobs, Register(j) PROVE BuiltOnce'
  BY <1>3 DEF Register, Goto, IsTicket, db, chat, server, history
<1>4. ASSUME NEW j \in Jobs, Start(j) PROVE BuiltOnce'
  BY <1>4 DEF Start, WriteSucceeds, Save, WriteRow, Goto, chat, server, history
<1>5. ASSUME NEW j \in Jobs, StartFails(j) PROVE BuiltOnce'
  BY <1>5 DEF StartFails, WriteFails, Fault, IsUser, Save, NoSave, WriteRow, Goto, chat, server, history
<1>6. ASSUME NEW j \in Jobs, Queue(j) PROVE BuiltOnce'
  BY <1>6 DEF Queue, Blockers, chat, server, history
<1>7. ASSUME NEW j \in Jobs, PassGate(j) PROVE BuiltOnce'
  BY <1>7 DEF PassGate, Goto, Entry, IsTicket, Blockers, db, chat, server, history
<1>8. ASSUME NEW j \in Jobs, CheckQueuedStatus(j) PROVE BuiltOnce'
  BY <1>8 DEF CheckQueuedStatus, Goto, Entry, IsTicket, Fault, db, chat, server, history
<1>9. ASSUME NEW j \in Jobs, LeaveQueueCancelled(j) PROVE BuiltOnce'
  BY <1>9 DEF LeaveQueueCancelled, WriteRow, Fault, Goto, db, chat, server, history
<1>10. ASSUME NEW j \in Jobs, GiveUp(j) PROVE BuiltOnce'
  BY <1>10 DEF GiveUp, WriteRow, Fault, Goto, db, chat, server, history
<1>11. ASSUME NEW j \in Jobs, MarkTicketProcessing(j) PROVE BuiltOnce'
  BY <1>11 DEF MarkTicketProcessing, WriteRow, Fault, Goto, db, chat, server, history
<1>12. ASSUME NEW j \in Jobs, BuildContext(j) PROVE BuiltOnce'
  BY <1>12 DEF BuildContext, Goto, db, chat, server
<1>13. ASSUME NEW j \in Jobs, ContextFails(j) PROVE BuiltOnce'
  BY <1>13 DEF ContextFails, IsUser, WriteSucceeds, WriteFails, Save, NoSave, WriteRow, Fault, Goto, chat, server, history
<1>14. ASSUME NEW j \in Jobs, Reply(j) PROVE BuiltOnce'
  BY <1>14 DEF Reply, Goto, db, server, history
<1>15. ASSUME NEW j \in Jobs, GenerationFails(j) PROVE BuiltOnce'
  BY <1>15 DEF GenerationFails, IsUser, Save, NoSave, WriteRow, Fault, Goto, chat, server, history
<1>16. ASSUME NEW j \in Jobs, RecordReply(j) PROVE BuiltOnce'
  BY <1>16 DEF RecordReply, IsUser, IsTicket, WriteSucceeds, Save, WriteRow, Goto, chat, server, history
<1>17. ASSUME NEW j \in Jobs, RecordReplyFails(j) PROVE BuiltOnce'
  BY <1>17 DEF RecordReplyFails, IsUser, IsTicket, WriteFails, Fault, Save, NoSave, WriteRow, Goto, chat, server, history
<1>18. ASSUME NEW j \in Jobs, SaveChain(j) PROVE BuiltOnce'
  BY <1>18 DEF SaveChain, IsUser, WriteSucceeds, Goto, db, server, history
<1>19. ASSUME NEW j \in Jobs, SaveChainFails(j) PROVE BuiltOnce'
  BY <1>19 DEF SaveChainFails, IsUser, WriteFails, Fault, Goto, db, chat, server, history
<1>20. ASSUME NEW j \in Jobs, Advance(j) PROVE BuiltOnce'
  BY <1>20 DEF Advance, IsUser, NextPhase, PhaseStatus, WriteSucceeds, Save, WriteRow, Goto, chat, server, history
<1>21. ASSUME NEW j \in Jobs, AdvanceFails(j) PROVE BuiltOnce'
  BY <1>21 DEF AdvanceFails, IsUser, NextPhase, WriteFails, Fault, Goto, db, chat, server, history
<1>22. ASSUME NEW j \in Jobs, EndTicket(j) PROVE BuiltOnce'
  BY <1>22 DEF EndTicket, WriteRow, Fault, Goto, db, chat, server, history
<1>23. ASSUME NEW j \in Jobs, Abort(j) PROVE BuiltOnce'
  BY <1>23 DEF Abort, WriteRow, Fault, Goto, db, chat, server, history
<1>24. ASSUME NEW j \in Jobs, Release(j) PROVE BuiltOnce'
  BY <1>24 DEF Release, FinishAbandoned, WriteRow, Fault, Goto, db, chat, server, history
<1>25. ASSUME NEW j \in Jobs, Age(j) PROVE BuiltOnce'
  BY <1>25 DEF Age, worker, chat, server
<1>26. ASSUME NEW j \in Jobs, Heartbeat(j) PROVE BuiltOnce'
  BY <1>26 DEF Heartbeat, Tracked, worker, chat, server, history
<1>27. ASSUME NEW j \in Jobs, Watch(j) PROVE BuiltOnce'
  BY <1>27 DEF Watch, db, chat, server, history
<1>28. ASSUME NEW j \in Jobs, StopJob(j) PROVE BuiltOnce'
  BY <1>28 DEF StopJob, WriteRow, db, chat
<1>29. ASSUME NEW j \in Jobs, ShutdownRead(j) PROVE BuiltOnce'
  BY <1>29 DEF ShutdownRead, db, worker, chat, history
<1>30. ASSUME NEW j \in Jobs, ShutdownWrite(j) PROVE BuiltOnce'
  BY <1>30 DEF ShutdownWrite, WriteRow, worker, chat
<1>31. ASSUME NEW i \in Instances, BeginShutdown(i) PROVE BuiltOnce'
  BY <1>31 DEF BeginShutdown, db, worker, chat, history
<1>32. ASSUME NEW i \in Instances, Exit(i) PROVE BuiltOnce'
  BY <1>32 DEF Exit, Down, db, chat, history
<1>33. ASSUME NEW i \in Instances, Crash(i) PROVE BuiltOnce'
  BY <1>33 DEF Crash, Down, db, chat, history
<1>34. ASSUME NEW i \in Instances, Restart(i) PROVE BuiltOnce'
  BY <1>34 DEF Restart, worker, chat
<1>35. ASSUME NEW i \in Instances, NEW j \in Jobs, StopThread(i, j) PROVE BuiltOnce'
  BY <1>35 DEF StopThread, db, worker, chat, history
<1>36. CASE UNCHANGED vars
  BY <1>36 DEF vars
<1>37. QED
  BY <1>1, <1>2, <1>3, <1>4, <1>5, <1>6, <1>7, <1>8, <1>9, <1>10, <1>11, <1>12, <1>13, <1>14, <1>15, <1>16, <1>17, <1>18, <1>19, <1>20, <1>21, <1>22, <1>23, <1>24, <1>25, <1>26, <1>27, <1>28, <1>29, <1>30, <1>31, <1>32, <1>33, <1>34, <1>35, <1>36 DEF Next, Work

-----------------------------------------------------------------------------
\* Such a step settles the turns that end in it, perhaps none.
LEMMA SettlesIs ==
  ASSUME Settles PROVE Abstract!Settle
<1> DEFINE S == {j \in Jobs : PhaseOf(pc'[j]) = "settled"}
<1>1. Phases' = [j \in Jobs |-> IF j \in S THEN "settled" ELSE Phases[j]]
  BY DEF Settles, Phases
<1>2. UNCHANGED <<lapsed, saved, built, seen>>
  BY DEF Settles, history
<1> HIDE DEF S
<1>3. S \subseteq Jobs
  BY DEF S
<1>4. \E T \in SUBSET Jobs : Phases' = [j \in Jobs |-> IF j \in T THEN "settled" ELSE Phases[j]]
  BY <1>1, <1>3
<1> QED BY <1>2, <1>4 DEF Abstract!Settle

\* The turns of OrderedTurns that are live are the workers before their reply.
LEMMA LiveIs == \A j \in Jobs : Abstract!Live(j) <=> pc[j] \in BeforeReply
BY DEF Abstract!Live, Phases, PhaseOf, BeforeReply, AfterGate, InTurn

\* Giving up on live turns is a step of OrderedTurns.
LEMMA ExcusesIs ==
  ASSUME Excuses PROVE Abstract!Excuse
<1>1. PICK S \in SUBSET Jobs : (\A j \in S : pc[j] \in BeforeReply) /\ lapsed' = lapsed \cup S
  BY DEF Excuses
<1>2. S \in SUBSET {j \in Jobs : Abstract!Live(j)}
  BY <1>1, LiveIs
<1>3. UNCHANGED <<Phases, saved, built, seen>>
  BY DEF Excuses, Phases
<1> QED BY <1>1, <1>2, <1>3 DEF Abstract!Excuse

\* A row that commits joins, excused at once when a later turn is past the gate.
LEMMA InsertJoins ==
  ASSUME TypeOK, NEW j \in Jobs, Insert(j) PROVE Abstract!Join(j)
<1> USE DEF TypeOK
<1>1. /\ pc[j] = "insert" /\ pc' = [pc EXCEPT ![j] = "inserted"]
      /\ lapsed' = IF \E k \in Jobs : j < k /\ (pc[k] \in AfterGate \/ k \in built)
                   THEN lapsed \cup {j} ELSE lapsed
      /\ UNCHANGED <<saved, built, seen>>
  BY DEF Insert, Goto, chat
<1>2. Phases[j] = "idle" /\ Phases' = [Phases EXCEPT ![j] = "waiting"]
  BY <1>1 DEF Phases, PhaseOf, BeforeReply, AfterGate, InTurn
<1>3. \A k \in Jobs : Phases[k] = "running" <=> pc[k] \in AfterGate
  BY DEF Phases, PhaseOf, BeforeReply, AfterGate, InTurn
<1> QED BY <1>1, <1>2, <1>3 DEF Abstract!Join

\* A poll that finds nothing ahead enters: whoever is ahead and live has lapsed.
LEMMA PassGateEnters ==
  ASSUME TypeOK, LiveTurnsBlock, NEW j \in Jobs, PassGate(j) PROVE Abstract!Enter(j)
<1> USE DEF TypeOK
<1>1. /\ pc[j] = "queue"
      /\ \E l \in {"admitted", "entered", "run"} : pc' = [pc EXCEPT ![j] = l]
      /\ Blockers(j) = {}
      /\ UNCHANGED <<lapsed, saved, built, seen>>
  BY DEF PassGate, Goto, Entry, history, chat
<1>2. Phases[j] = "waiting" /\ Phases' = [Phases EXCEPT ![j] = "running"]
  <2>1. PhaseOf("queue") = "waiting"
    BY DEF PhaseOf, BeforeReply, AfterGate, InTurn
  <2>2. \A l \in {"admitted", "entered", "run"} : PhaseOf(l) = "running"
    BY DEF PhaseOf, BeforeReply, AfterGate, InTurn
  <2>3. PICK l \in {"admitted", "entered", "run"} : pc' = [pc EXCEPT ![j] = l]
    BY <1>1
  <2>4. PhaseOf(l) = "running"
    BY <2>2
  <2> QED BY <1>1, <2>1, <2>3, <2>4 DEF Phases
<1>3. ASSUME NEW i \in Jobs, i < j, pc[i] \in BeforeReply PROVE i \in lapsed
  BY <1>1, <1>3 DEF LiveTurnsBlock, Blockers
<1>4. \A i \in Jobs : i < j => ~Abstract!Live(i) \/ i \in lapsed
  BY <1>3, LiveIs
<1> QED BY <1>1, <1>2, <1>4 DEF Abstract!Enter

\* A context is built on what is answered, for the first time.
LEMMA BuildContextLooks ==
  ASSUME TypeOK, BuiltOnce, NEW j \in Jobs, BuildContext(j) PROVE Abstract!Look(j)
<1> USE DEF TypeOK
<1>1. /\ pc[j] = "run" /\ pc' = [pc EXCEPT ![j] = "infer"]
      /\ built' = built \cup {j} /\ seen' = [seen EXCEPT ![j] = saved]
      /\ UNCHANGED <<lapsed, saved>>
  BY DEF BuildContext, Goto, chat
<1>2. j \notin built
  BY <1>1 DEF BuiltOnce
<1>3. Phases[j] = "running" /\ Phases' = Phases
  BY <1>1 DEF Phases, PhaseOf, BeforeReply, AfterGate, InTurn
<1> QED BY <1>1, <1>2, <1>3 DEF Abstract!Look

\* A reply answers a turn that looked.
LEMMA ReplyAnswers ==
  ASSUME TypeOK, BuiltOnce, NEW j \in Jobs, Reply(j) PROVE Abstract!Answer(j)
<1> USE DEF TypeOK
<1>1. /\ pc[j] = "infer" /\ pc' = [pc EXCEPT ![j] = "replied"]
      /\ saved' = saved \cup {j}
      /\ UNCHANGED <<lapsed, built, seen>>
  BY DEF Reply, Goto, history
<1>2. j \in built
  BY <1>1 DEF BuiltOnce
<1>3. Phases[j] = "running" /\ Phases' = Phases
  BY <1>1 DEF Phases, PhaseOf, BeforeReply, AfterGate, InTurn
<1> QED BY <1>1, <1>2, <1>3 DEF Abstract!Answer

\* Every step is one of these.
LEMMA KindsOfSteps ==
  ASSUME TypeOK, [Next]_vars
  PROVE  \/ Settles \/ Excuses
         \/ \E j \in Jobs : Insert(j) \/ PassGate(j) \/ BuildContext(j) \/ Reply(j)
<1> USE ConstantsAssumption DEF TypeOK, Blocking, InTurn, AfterGate, BeforeReply, Ended
<1>1. ASSUME NEW j \in Jobs, Arrive(j) PROVE Settles
  BY <1>1 DEF Arrive, Goto, ActiveFor, IsUser, db, server, chat, history, Settles, PhaseOf
<1>2. ASSUME NEW j \in Jobs, Register(j) PROVE Settles
  BY <1>2 DEF Register, Goto, IsTicket, db, server, chat, history, Settles, PhaseOf
<1>3. ASSUME NEW j \in Jobs, Start(j) PROVE Settles
  BY <1>3 DEF Start, WriteSucceeds, Save, WriteRow, Goto, server, chat, history, Settles, PhaseOf
<1>4. ASSUME NEW j \in Jobs, StartFails(j) PROVE Settles
  BY <1>4 DEF StartFails, WriteFails, Fault, IsUser, Save, NoSave, WriteRow, Goto, server, chat, history, Settles, PhaseOf
<1>5. ASSUME NEW j \in Jobs, Queue(j) PROVE Settles
  BY <1>5 DEF Queue, Blockers, server, chat, history, Settles, PhaseOf
<1>6. ASSUME NEW j \in Jobs, CheckQueuedStatus(j) PROVE Settles
  BY <1>6 DEF CheckQueuedStatus, Goto, Entry, IsTicket, Fault, db, server, chat, history, Settles, PhaseOf
<1>7. ASSUME NEW j \in Jobs, LeaveQueueCancelled(j) PROVE Settles
  BY <1>7 DEF LeaveQueueCancelled, WriteRow, Fault, Goto, db, server, chat, history, Settles, PhaseOf
<1>8. ASSUME NEW j \in Jobs, GiveUp(j) PROVE Settles
  BY <1>8 DEF GiveUp, WriteRow, Fault, Goto, db, server, chat, history, Settles, PhaseOf
<1>9. ASSUME NEW j \in Jobs, MarkTicketProcessing(j) PROVE Settles
  BY <1>9 DEF MarkTicketProcessing, WriteRow, Fault, Goto, db, server, chat, history, Settles, PhaseOf
<1>10. ASSUME NEW j \in Jobs, ContextFails(j) PROVE Settles
  BY <1>10 DEF ContextFails, IsUser, WriteSucceeds, WriteFails, Save, NoSave, WriteRow, Fault, Goto, server, chat, history, Settles, PhaseOf
<1>11. ASSUME NEW j \in Jobs, GenerationFails(j) PROVE Settles
  BY <1>11 DEF GenerationFails, IsUser, Save, NoSave, WriteRow, Fault, Goto, server, chat, history, Settles, PhaseOf
<1>12. ASSUME NEW j \in Jobs, RecordReply(j) PROVE Settles
  BY <1>12 DEF RecordReply, IsUser, IsTicket, WriteSucceeds, Save, WriteRow, Goto, server, chat, history, Settles, PhaseOf
<1>13. ASSUME NEW j \in Jobs, RecordReplyFails(j) PROVE Settles
  BY <1>13 DEF RecordReplyFails, IsUser, IsTicket, WriteFails, Fault, Save, NoSave, WriteRow, Goto, server, chat, history, Settles, PhaseOf
<1>14. ASSUME NEW j \in Jobs, SaveChain(j) PROVE Settles
  BY <1>14 DEF SaveChain, IsUser, WriteSucceeds, Goto, db, server, chat, history, Settles, PhaseOf
<1>15. ASSUME NEW j \in Jobs, SaveChainFails(j) PROVE Settles
  BY <1>15 DEF SaveChainFails, IsUser, WriteFails, Fault, Goto, db, server, chat, history, Settles, PhaseOf
<1>16. ASSUME NEW j \in Jobs, Advance(j) PROVE Settles
  BY <1>16 DEF Advance, IsUser, NextPhase, PhaseStatus, WriteSucceeds, Save, WriteRow, Goto, server, chat, history, Settles, PhaseOf
<1>17. ASSUME NEW j \in Jobs, AdvanceFails(j) PROVE Settles
  BY <1>17 DEF AdvanceFails, IsUser, NextPhase, WriteFails, Fault, Goto, db, server, chat, history, Settles, PhaseOf
<1>18. ASSUME NEW j \in Jobs, EndTicket(j) PROVE Settles
  BY <1>18 DEF EndTicket, WriteRow, Fault, Goto, db, server, chat, history, Settles, PhaseOf
<1>19. ASSUME NEW j \in Jobs, Abort(j) PROVE Settles
  BY <1>19 DEF Abort, WriteRow, Fault, Goto, db, server, chat, history, Settles, PhaseOf
<1>20. ASSUME NEW j \in Jobs, Release(j) PROVE Settles
  BY <1>20 DEF Release, FinishAbandoned, WriteRow, Fault, Goto, db, server, chat, history, Settles, PhaseOf
<1>21. ASSUME NEW j \in Jobs, Age(j) PROVE Excuses
  <2>1. lapsed' = lapsed \cup (IF pc[j] \in BeforeReply THEN {j} ELSE {}) \/ lapsed' = lapsed \cup {}
    BY <1>21 DEF Age
  <2>2. UNCHANGED <<pc, saved, built, seen>>
    BY <1>21 DEF Age, chat, worker
  <2> QED BY <2>1, <2>2 DEF Excuses
<1>22. ASSUME NEW j \in Jobs, Heartbeat(j) PROVE Settles
  BY <1>22 DEF Heartbeat, Tracked, worker, server, chat, history, Settles, PhaseOf
<1>23. ASSUME NEW j \in Jobs, Watch(j) PROVE Settles
  BY <1>23 DEF Watch, db, server, chat, history, Settles, PhaseOf
<1>24. ASSUME NEW j \in Jobs, StopJob(j) PROVE Excuses
  <2>1. lapsed' = lapsed \cup (IF pc[j] \in BeforeReply THEN {j} ELSE {}) \/ lapsed' = lapsed \cup {}
    BY <1>24 DEF StopJob
  <2>2. UNCHANGED <<pc, saved, built, seen>>
    BY <1>24 DEF StopJob, chat
  <2> QED BY <2>1, <2>2 DEF Excuses
<1>25. ASSUME NEW j \in Jobs, ShutdownRead(j) PROVE Settles
  BY <1>25 DEF ShutdownRead, db, worker, chat, history, Settles, PhaseOf
<1>26. ASSUME NEW j \in Jobs, ShutdownWrite(j) PROVE Excuses
  <2>1. lapsed' = lapsed \cup (IF pc[j] \in BeforeReply THEN {j} ELSE {}) \/ lapsed' = lapsed \cup {}
    BY <1>26 DEF ShutdownWrite
  <2>2. UNCHANGED <<pc, saved, built, seen>>
    BY <1>26 DEF ShutdownWrite, chat, worker
  <2> QED BY <2>1, <2>2 DEF Excuses
<1>27. ASSUME NEW i \in Instances, BeginShutdown(i) PROVE Settles
  BY <1>27 DEF BeginShutdown, db, worker, chat, history, Settles, PhaseOf
<1>28. ASSUME NEW i \in Instances, Exit(i) PROVE Settles
  BY <1>28 DEF Exit, Down, db, chat, history, Settles, PhaseOf
<1>29. ASSUME NEW i \in Instances, Crash(i) PROVE Settles
  BY <1>29 DEF Crash, Down, db, chat, history, Settles, PhaseOf
<1>30. ASSUME NEW i \in Instances, Restart(i) PROVE Excuses
  BY <1>30 DEF Restart, worker, chat, history, Excuses
<1>31. ASSUME NEW i \in Instances, NEW j \in Jobs, StopThread(i, j) PROVE Settles
  BY <1>31 DEF StopThread, db, worker, chat, history, Settles, PhaseOf
<1>32. CASE UNCHANGED vars
  BY <1>32 DEF vars, chat, history, Settles, PhaseOf
<1>33. QED
  BY <1>1, <1>2, <1>3, <1>4, <1>5, <1>6, <1>7, <1>8, <1>9, <1>10, <1>11, <1>12, <1>13, <1>14, <1>15, <1>16, <1>17, <1>18, <1>19, <1>20, <1>21, <1>22, <1>23, <1>24, <1>25, <1>26, <1>27, <1>28, <1>29, <1>30, <1>31, <1>32 DEF Next, Work

-----------------------------------------------------------------------------
\* Every behaviour of the gate is one of the ordered queue: the polling workers, with
\* stops, crashes, shutdowns and slow heartbeats, run their turns one at a time, in turn
\* order, each on the replies before it, once what lapsed is excused.
THEOREM ImplementsAlways == Spec => ImplementsOrderedTurns
<1>1. Init => BuiltOnce /\ Abstract!Init
  <2> SUFFICES ASSUME Init PROVE BuiltOnce /\ Abstract!Init
    OBVIOUS
  <2>1. PhaseOf("none") = "idle"
    BY DEF PhaseOf, BeforeReply, AfterGate, InTurn
  <2>2. Phases = [j \in Jobs |-> "idle"]
    BY <2>1 DEF Init, Phases
  <2>3. BuiltOnce
    BY DEF Init, BuiltOnce
  <2> QED BY <2>2, <2>3 DEF Init, Abstract!Init
<1>2. RefineInv /\ [Next]_vars => BuiltOnce'
  BY StepBuiltOnce DEF RefineInv, GateInv
<1>3. RefineInv /\ [Next]_vars => [Abstract!TNext]_(Abstract!tvars)
  <2> SUFFICES ASSUME RefineInv, [Next]_vars PROVE Abstract!TNext
    OBVIOUS
  <2>1. TypeOK /\ LiveTurnsBlock /\ BuiltOnce
    BY DEF RefineInv, GateInv
  <2>2. CASE Settles
    BY <2>2, SettlesIs DEF Abstract!TNext
  <2>3. CASE Excuses
    BY <2>3, ExcusesIs DEF Abstract!TNext
  <2>4. ASSUME NEW j \in Jobs, Insert(j) \/ PassGate(j) \/ BuildContext(j) \/ Reply(j)
        PROVE  Abstract!TNext
    <3>1. Abstract!Join(j) \/ Abstract!Enter(j) \/ Abstract!Look(j) \/ Abstract!Answer(j)
      BY <2>1, <2>4, InsertJoins, PassGateEnters, BuildContextLooks, ReplyAnswers
    <3> QED BY <3>1 DEF Abstract!TNext
  <2> QED BY <2>1, <2>2, <2>3, <2>4, KindsOfSteps
<1>4. QED
  BY <1>1, <1>2, <1>3, Invariance, PTL DEF Spec, RefineInv, ImplementsOrderedTurns, Abstract!TSpec

=============================================================================

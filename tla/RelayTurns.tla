------------------------------ MODULE RelayTurns ------------------------------
(***************************************************************************)
(* The turn queue of one relay thread (relaykit.TurnQueue).  The first     *)
(* message of a thread without an entry in the threads map gives it one    *)
(* and starts its worker; what arrives while a turn runs waits in batches, *)
(* one per place, each held back until it is a gather time old; a worker   *)
(* with nothing to do sleeps until it is woken or retires.                 *)
(*                                                                         *)
(* Messages are numbered in the order Enqueue takes the lock.  An entry is *)
(* named after the message that made it, and so is its worker; a critical  *)
(* section under q.mu is one action.  ctx is the relay's own context,      *)
(* which every Enqueue passes and the worker keeps.                        *)
(***************************************************************************)
EXTENDS Integers, Sequences, FiniteSets

CONSTANTS
  MaxMsgs,   \* bound: messages that arrive
  Places,    \* where replies go
  MaxWaiting \* TurnQueue.Max

ASSUME ConstantsAssumption == MaxMsgs \in Nat /\ MaxWaiting \in Nat \ {0} /\ Places # {}

Msgs == 1..MaxMsgs
NoEntry == 0

VARIABLES
  placeOf,   \* Place(w) of each message
  arrived,   \* messages 1..arrived were offered
  entry,     \* the thread's entry in q.threads, or NoEntry
  pc,        \* each worker: "none", "loop", "run", "idle", "gather" or "gone"
  running,   \* threadTurns.running, per entry
  batches,   \* threadTurns.batches
  waiting,   \* threadTurns.waiting
  wake,      \* a token in threadTurns.wake
  turn,      \* the batch each worker is running
  answered,  \* history: messages of finished turns
  refused,   \* history: messages Enqueue returned false for
  ended      \* ctx is done

thread == <<running, batches, waiting, wake>>
vars == <<placeOf, arrived, entry, pc, thread, turn, answered, refused, ended>>

Init ==
  /\ placeOf \in [Msgs -> Places]
  /\ arrived = 0
  /\ entry = NoEntry
  /\ pc = [w \in Msgs |-> "none"]
  /\ running = [w \in Msgs |-> FALSE]
  /\ batches = [w \in Msgs |-> <<>>]
  /\ waiting = [w \in Msgs |-> 0]
  /\ wake = [w \in Msgs |-> FALSE]
  /\ turn = [w \in Msgs |-> {}]
  /\ answered = {}
  /\ refused = {}
  /\ ended = FALSE

-----------------------------------------------------------------------------
(* Enqueue.                                                                 *)

Idle(w) == ~running[w] /\ waiting[w] = 0

\* Mutant: one message too many may wait.
FullOffByOne(w) == ~Idle(w) /\ waiting[w] > MaxWaiting

Full(w) == ~Idle(w) /\ waiting[w] >= MaxWaiting

\* Mutant: a batch takes messages of every place.
OpenAnyPlace(w, p) == {i \in DOMAIN batches[w] : ~batches[w][i].now}

\* The waiting batches of a place; the first message of an idle thread is alone.
Open(w, p) == {i \in DOMAIN batches[w] : batches[w][i].place = p /\ ~batches[w][i].now}

\* The message joins its place's batch, or opens one, ...
Queued(w, m) ==
  IF Open(w, placeOf[m]) # {}
  THEN LET i == CHOOSE i \in Open(w, placeOf[m]) : TRUE
       IN  [batches[w] EXCEPT ![i].items = @ \cup {m}]
  ELSE Append(batches[w],
              [place |-> placeOf[m], items |-> {m}, now |-> Idle(w), ripe |-> FALSE])

\* ... and the worker is woken.
Add(w, m) ==
  /\ batches' = [batches EXCEPT ![w] = Queued(w, m)]
  /\ waiting' = [waiting EXCEPT ![w] = @ + 1]
  /\ wake' = [wake EXCEPT ![w] = TRUE]
  /\ UNCHANGED running

\* Mutant: a thread without a running turn gets a worker, whether or not it has one.
NeedsWorkerIfNotRunning == entry # NoEntry => ~running[entry]

NeedsWorker == entry = NoEntry

StartThread ==
  /\ arrived < MaxMsgs
  /\ NeedsWorker
  /\ arrived' = arrived + 1
  /\ entry' = arrived'
  /\ pc' = [pc EXCEPT ![arrived'] = "loop"]
  /\ Add(arrived', arrived')
  /\ UNCHANGED <<placeOf, turn, answered, refused, ended>>

Join ==
  /\ arrived < MaxMsgs
  /\ ~NeedsWorker
  /\ ~Full(entry)
  /\ arrived' = arrived + 1
  /\ Add(entry, arrived')
  /\ UNCHANGED <<placeOf, entry, pc, turn, answered, refused, ended>>

Refuse ==
  /\ arrived < MaxMsgs
  /\ ~NeedsWorker
  /\ Full(entry)
  /\ arrived' = arrived + 1
  /\ refused' = refused \cup {arrived'}
  /\ UNCHANGED <<placeOf, entry, pc, thread, turn, answered, ended>>

-----------------------------------------------------------------------------
(* The worker.                                                              *)

Due(b) == b.now \/ b.ripe

\* next: the oldest batch runs if it may.
Take(w) ==
  /\ pc[w] = "loop"
  /\ batches[w] # <<>>
  /\ Due(Head(batches[w]))
  /\ turn' = [turn EXCEPT ![w] = Head(batches[w]).items]
  /\ batches' = [batches EXCEPT ![w] = Tail(@)]
  /\ waiting' = [waiting EXCEPT ![w] = @ - Cardinality(Head(batches[w]).items)]
  /\ running' = [running EXCEPT ![w] = TRUE]
  /\ pc' = [pc EXCEPT ![w] = "run"]
  /\ UNCHANGED <<placeOf, arrived, entry, wake, answered, refused, ended>>

\* Otherwise the worker sleeps: for the rest of the gather time, or its idle time.
Sleep(w) ==
  /\ pc[w] = "loop"
  /\ batches[w] # <<>> => ~Due(Head(batches[w]))
  /\ pc' = [pc EXCEPT ![w] = IF batches[w] = <<>> THEN "idle" ELSE "gather"]
  /\ UNCHANGED <<placeOf, arrived, entry, thread, turn, answered, refused, ended>>

Finish(w) ==
  /\ pc[w] = "run"
  /\ running' = [running EXCEPT ![w] = FALSE]
  /\ answered' = answered \cup turn[w]
  /\ turn' = [turn EXCEPT ![w] = {}]
  /\ pc' = [pc EXCEPT ![w] = "loop"]
  /\ UNCHANGED <<placeOf, arrived, entry, batches, waiting, wake, refused, ended>>

Woken(w) ==
  /\ pc[w] \in {"idle", "gather"}
  /\ wake[w]
  /\ wake' = [wake EXCEPT ![w] = FALSE]
  /\ pc' = [pc EXCEPT ![w] = "loop"]
  /\ UNCHANGED <<placeOf, arrived, entry, running, batches, waiting, turn, answered, refused, ended>>

GatherOver(w) ==
  /\ pc[w] = "gather"
  /\ Head(batches[w]).ripe
  /\ pc' = [pc EXCEPT ![w] = "loop"]
  /\ UNCHANGED <<placeOf, arrived, entry, thread, turn, answered, refused, ended>>

\* Mutant: the worker retires when its idle time is over, whatever came.
MayRetireAlways(w) == TRUE

MayRetire(w) == waiting[w] = 0

\* The idle time is over: the worker retires, under the lock, if nothing waits.
IdleOver(w) ==
  /\ pc[w] = "idle"
  /\ entry' = IF MayRetire(w) THEN NoEntry ELSE entry
  /\ pc' = [pc EXCEPT ![w] = IF MayRetire(w) THEN "gone" ELSE "loop"]
  /\ UNCHANGED <<placeOf, arrived, thread, turn, answered, refused, ended>>

CtxDone(w) ==
  /\ pc[w] \in {"idle", "gather"}
  /\ ended
  /\ entry' = NoEntry
  /\ pc' = [pc EXCEPT ![w] = "gone"]
  /\ UNCHANGED <<placeOf, arrived, thread, turn, answered, refused, ended>>

-----------------------------------------------------------------------------
(* Time and shutdown.                                                       *)

\* The oldest batch still gathering becomes old enough.
Ripen(w) ==
  /\ pc[w] # "gone"
  /\ \E i \in DOMAIN batches[w] :
       /\ ~Due(batches[w][i])
       /\ \A k \in 1..(i - 1) : Due(batches[w][k])
       /\ batches' = [batches EXCEPT ![w][i].ripe = TRUE]
  /\ UNCHANGED <<placeOf, arrived, entry, pc, running, waiting, wake, turn, answered, refused, ended>>

EndCtx ==
  /\ ~ended
  /\ ended' = TRUE
  /\ UNCHANGED <<placeOf, arrived, entry, pc, thread, turn, answered, refused>>

Worker(w) ==
  Take(w) \/ Sleep(w) \/ Finish(w) \/ Woken(w) \/ GatherOver(w) \/ IdleOver(w) \/ CtxDone(w)

Next ==
  \/ StartThread \/ Join \/ Refuse \/ EndCtx
  \/ \E w \in Msgs : Worker(w) \/ Ripen(w)

Spec == Init /\ [][Next]_vars

\* The runtime keeps running a worker, time passes and a turn returns (it waits
\* for its reply with a timeout).  Nothing is assumed of idle timers.
FairSpec ==
  /\ Spec
  /\ \A w \in Msgs :
       /\ WF_vars(Take(w) \/ Sleep(w) \/ Finish(w) \/ Woken(w) \/ GatherOver(w))
       /\ WF_vars(Ripen(w))

-----------------------------------------------------------------------------
(* Properties.                                                              *)

Items(w) == UNION {batches[w][i].items : i \in DOMAIN batches[w]}

TypeOK ==
  /\ placeOf \in [Msgs -> Places]
  /\ arrived \in 0..MaxMsgs
  /\ entry \in 0..arrived
  /\ pc \in [Msgs -> {"none", "loop", "run", "idle", "gather", "gone"}]
  /\ running \in [Msgs -> BOOLEAN]
  /\ \A w \in Msgs : \A i \in DOMAIN batches[w] :
       batches[w][i] \in [place : Places, items : (SUBSET (1..arrived)) \ {{}},
                          now : BOOLEAN, ripe : BOOLEAN]
  /\ waiting \in [Msgs -> 0..MaxWaiting]
  /\ wake \in [Msgs -> BOOLEAN]
  /\ turn \in [Msgs -> SUBSET (1..arrived)]
  /\ answered \subseteq 1..arrived
  /\ refused \subseteq 1..arrived
  /\ ended \in BOOLEAN

\* Turns of one thread never overlap, whichever worker runs them and however often
\* the thread's worker retired and was started again.
OneTurnAtATime ==
  \A v, w \in Msgs : pc[v] = "run" /\ pc[w] = "run" => v = w

\* A message Enqueue accepted is answered, unless the relay ends: none is left in
\* a thread whose worker has just retired, or behind a wake-up that was lost.
AcceptedIsAnswered ==
  \A m \in Msgs : m <= arrived /\ m \notin refused ~> m \in answered \/ ended

\* What waits for the thread, and what the running turn answers.
Waits == IF entry = NoEntry THEN {} ELSE Items(entry)
Running == UNION {turn[w] : w \in Msgs}

\* The queue implements its promise: bounded, one turn at a time, in order, one
\* place per turn, nobody passed over.
Promise == INSTANCE PlaceQueues WITH
  Bound <- MaxWaiting,
  came <- arrived,
  waiting <- Waits,
  turn <- Running,
  over <- ended

ImplementsPlaceQueues == Promise!QSpec
=============================================================================

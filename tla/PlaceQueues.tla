----------------------------- MODULE PlaceQueues -----------------------------
(***************************************************************************)
(* What a relay thread's turn queue promises, without workers, batches,    *)
(* timers or wake-ups: at most Bound messages wait, one turn runs at a     *)
(* time, it answers messages of one place in the order they came and the   *)
(* message that waited longest is among them, and waiting messages are     *)
(* dropped only once the relay has ended.                                  *)
(***************************************************************************)
EXTENDS Integers, FiniteSets

CONSTANT Bound     \* how many messages may wait

VARIABLES
  placeOf,   \* where each message's reply goes
  came,      \* messages 1..came were offered
  waiting,   \* accepted, not in a turn yet
  turn,      \* what the running turn answers
  answered,  \* what finished turns answered
  over       \* the relay has ended

qvars == <<placeOf, came, waiting, turn, answered, over>>

QInit ==
  /\ came = 0
  /\ waiting = {}
  /\ turn = {}
  /\ answered = {}
  /\ over = FALSE

Accept ==
  /\ Cardinality(waiting) < Bound
  /\ came' = came + 1
  /\ waiting' = waiting \cup {came + 1}
  /\ UNCHANGED <<placeOf, turn, answered, over>>

\* Only a thread that has its fill refuses.
RefuseFull ==
  /\ Cardinality(waiting) = Bound
  /\ came' = came + 1
  /\ UNCHANGED <<placeOf, waiting, turn, answered, over>>

StartTurn ==
  /\ turn = {}
  /\ turn' # {}
  /\ turn' \subseteq waiting
  /\ \E m \in turn' : \A n \in waiting : m <= n
  /\ \A m \in turn', n \in waiting :
       /\ n \in turn' => placeOf[n] = placeOf[m]
       /\ placeOf[n] = placeOf[m] /\ n < m => n \in turn'
  /\ waiting' = waiting \ turn'
  /\ UNCHANGED <<placeOf, came, answered, over>>

FinishTurn ==
  /\ turn # {}
  /\ answered' = answered \cup turn
  /\ turn' = {}
  /\ UNCHANGED <<placeOf, came, waiting, over>>

Finish ==
  /\ over' = TRUE
  /\ UNCHANGED <<placeOf, came, waiting, turn, answered>>

Drop ==
  /\ over
  /\ waiting' = {}
  /\ UNCHANGED <<placeOf, came, turn, answered, over>>

QNext == Accept \/ RefuseFull \/ StartTurn \/ FinishTurn \/ Finish \/ Drop

QSpec == QInit /\ [][QNext]_qvars
=============================================================================

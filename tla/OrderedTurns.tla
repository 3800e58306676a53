---------------------------- MODULE OrderedTurns ----------------------------
(***************************************************************************)
(* What the turn gate of a chat promises, without the jobs table, the      *)
(* statuses, the polls or the processes: turns run one at a time in turn   *)
(* order, each on the replies of the turns before it.  A turn that waits   *)
(* or runs may be EXCUSED (given up on by the rest of the system); the     *)
(* promise then no longer protects it, or later turns from it.             *)
(***************************************************************************)
EXTENDS Naturals

CONSTANT Turns     \* numbered in turn order

VARIABLES
  phase,     \* "idle", "waiting", "running" or "settled"
  excused,   \* turns given up on
  answers,   \* turns whose reply is in the chat
  looked,    \* turns that built their context
  context    \* the replies in it

tvars == <<phase, excused, answers, looked, context>>

Live(j) == phase[j] \in {"waiting", "running"}

Init ==
  /\ phase = [j \in Turns |-> "idle"]
  /\ excused = {}
  /\ answers = {}
  /\ looked = {}
  /\ context = [j \in Turns |-> {}]

\* A turn that joins behind its place is excused at once.
Join(j) ==
  /\ phase[j] = "idle"
  /\ phase' = [phase EXCEPT ![j] = "waiting"]
  /\ excused' = IF \E k \in Turns : j < k /\ (phase[k] = "running" \/ k \in looked)
                THEN excused \cup {j} ELSE excused
  /\ UNCHANGED <<answers, looked, context>>

\* One or several live turns are given up on.
Excuse ==
  /\ \E S \in SUBSET {j \in Turns : Live(j)} : excused' = excused \cup S
  /\ UNCHANGED <<phase, answers, looked, context>>

\* A turn starts when every earlier one has settled, has not joined, or is excused.
Enter(k) ==
  /\ phase[k] = "waiting"
  /\ \A j \in Turns : j < k => ~Live(j) \/ j \in excused
  /\ phase' = [phase EXCEPT ![k] = "running"]
  /\ UNCHANGED <<excused, answers, looked, context>>

Look(k) ==
  /\ phase[k] = "running"
  /\ k \notin looked
  /\ looked' = looked \cup {k}
  /\ context' = [context EXCEPT ![k] = answers]
  /\ UNCHANGED <<phase, excused, answers>>

Answer(k) ==
  /\ phase[k] = "running"
  /\ k \in looked
  /\ answers' = answers \cup {k}
  /\ UNCHANGED <<phase, excused, looked, context>>

\* Turns settle: they replied, failed, were stopped or refused, or their
\* process died.
Settle ==
  /\ \E S \in SUBSET Turns :
       phase' = [j \in Turns |-> IF j \in S THEN "settled" ELSE phase[j]]
  /\ UNCHANGED <<excused, answers, looked, context>>

TNext ==
  \/ \E j \in Turns : Join(j) \/ Enter(j) \/ Look(j) \/ Answer(j)
  \/ Excuse \/ Settle

TSpec == Init /\ [][TNext]_tvars
=============================================================================

-------------------------- MODULE RelayTurns_proofs --------------------------
(***************************************************************************)
(* A relay thread's turns never overlap, for any number of messages and    *)
(* places.  The worker that may run is the one the entry names: a worker   *)
(* is started only when there is no entry, and leaves only with its entry. *)
(*                                                                         *)
(* And TypeOK, which bounds what waits: the counter Enqueue compares with  *)
(* Max is kept apart from the batches, so the bound holds because the      *)
(* counter is the number of messages in them at every step.                *)
(***************************************************************************)
EXTENDS RelayTurns, TLAPS, FiniteSetTheorems

\* The only worker that is not gone is the entry's.
WorkerHasEntry ==
  /\ arrived \in 0..MaxMsgs
  /\ pc \in [Msgs -> {"none", "loop", "run", "idle", "gather", "gone"}]
  /\ \A w \in Msgs : pc[w] \notin {"none", "gone"} => entry = w

-----------------------------------------------------------------------------
\* Every step keeps one worker per entry.
LEMMA StepWorkerHasEntry == WorkerHasEntry /\ [Next]_vars => WorkerHasEntry'
<1> SUFFICES ASSUME WorkerHasEntry, [Next]_vars PROVE WorkerHasEntry'
  OBVIOUS
<1> USE ConstantsAssumption DEF WorkerHasEntry, Msgs, NoEntry
<1>1. CASE StartThread
  <2>1. arrived + 1 \in Msgs /\ entry = 0
    BY <1>1 DEF StartThread, NeedsWorker
  <2>2. \A w \in Msgs : pc[w] \in {"none", "gone"}
    BY <2>1
  <2>3. arrived' = arrived + 1 /\ entry' = arrived + 1 /\ pc' = [pc EXCEPT ![arrived + 1] = "loop"]
    BY <1>1 DEF StartThread
  <2>4. QED
    BY <2>1, <2>2, <2>3
<1>2. CASE Join
  BY <1>2 DEF Join
<1>3. CASE Refuse
  BY <1>3 DEF Refuse
<1>4. CASE EndCtx
  BY <1>4 DEF EndCtx
<1>5. ASSUME NEW w \in Msgs, Take(w) PROVE WorkerHasEntry'
  BY <1>5 DEF Take
<1>6. ASSUME NEW w \in Msgs, Sleep(w) PROVE WorkerHasEntry'
  BY <1>6 DEF Sleep
<1>7. ASSUME NEW w \in Msgs, Finish(w) PROVE WorkerHasEntry'
  BY <1>7 DEF Finish
<1>8. ASSUME NEW w \in Msgs, Woken(w) PROVE WorkerHasEntry'
  BY <1>8 DEF Woken
<1>9. ASSUME NEW w \in Msgs, GatherOver(w) PROVE WorkerHasEntry'
  BY <1>9 DEF GatherOver
<1>10. ASSUME NEW w \in Msgs, IdleOver(w) PROVE WorkerHasEntry'
  BY <1>10 DEF IdleOver
<1>11. ASSUME NEW w \in Msgs, CtxDone(w) PROVE WorkerHasEntry'
  BY <1>11 DEF CtxDone
<1>12. ASSUME NEW w \in Msgs, Ripen(w) PROVE WorkerHasEntry'
  BY <1>12 DEF Ripen
<1>13. CASE UNCHANGED vars
  BY <1>13 DEF vars
<1>14. QED
  BY <1>1, <1>2, <1>3, <1>4, <1>5, <1>6, <1>7, <1>8, <1>9, <1>10, <1>11, <1>12, <1>13 DEF Next, Worker

\* Two turns of a relay thread never run at once, however many workers the thread
\* has had.
THEOREM OneTurnHolds == Spec => []OneTurnAtATime
<1>1. Init => WorkerHasEntry
  BY ConstantsAssumption DEF Init, WorkerHasEntry, Msgs
<1>2. WorkerHasEntry /\ [Next]_vars => WorkerHasEntry'
  BY StepWorkerHasEntry
<1>3. WorkerHasEntry => OneTurnAtATime
  BY DEF WorkerHasEntry, OneTurnAtATime
<1>4. QED
  BY <1>1, <1>2, <1>3, PTL DEF Spec

-----------------------------------------------------------------------------
(* What a queue of batches holds.                                           *)

Batch(n) ==
  [place : Places, items : (SUBSET (1..n)) \ {{}}, now : BOOLEAN, ripe : BOOLEAN]

In(b) == UNION {b[i].items : i \in DOMAIN b}

\* A part of T that is not empty is one of its non-empty parts.
LEMMA SomeOf == ASSUME NEW S, NEW T, S \subseteq T, S # {} PROVE S \in (SUBSET T) \ {{}}
  OBVIOUS

\* The batches b hold k of the messages 1..n, each in one of them.
Holds(b, n, k) ==
  /\ b \in Seq(Batch(n))
  /\ \A i, j \in DOMAIN b : i # j => b[i].items \cap b[j].items = {}
  /\ k = Cardinality(In(b))

\* They are messages, and a finite number of them.
LEMMA HoldsFinite ==
  ASSUME NEW n \in Nat, NEW b, NEW k, Holds(b, n, k)
  PROVE  In(b) \subseteq 1..n /\ IsFiniteSet(In(b)) /\ k \in Nat
<1>1. \A i \in DOMAIN b : b[i] \in Batch(n)
  BY DEF Holds
<1>2. In(b) \subseteq 1..n
  BY <1>1 DEF In, Batch
<1>3. IsFiniteSet(1..n)
  BY FS_Interval
<1>4. IsFiniteSet(In(b))
  BY <1>2, <1>3, FS_Subset
<1> QED BY <1>2, <1>4, FS_CardinalityType DEF Holds

\* Messages that arrive elsewhere change nothing.
LEMMA HoldsOn ==
  ASSUME NEW n \in Nat, NEW m \in Nat, n <= m, NEW b, NEW k, Holds(b, n, k)
  PROVE  Holds(b, m, k)
<1>1. 1..n \subseteq 1..m
  OBVIOUS
<1>2. Batch(n) \subseteq Batch(m)
  BY <1>1 DEF Batch
<1> QED BY <1>2 DEF Holds

\* A new message joins the i-th batch, ...
LEMMA HoldsJoined ==
  ASSUME NEW n \in Nat, NEW b, NEW k, Holds(b, n, k), NEW i \in DOMAIN b
  PROVE  /\ Holds([b EXCEPT ![i].items = @ \cup {n + 1}], n + 1, k + 1)
         /\ In([b EXCEPT ![i].items = @ \cup {n + 1}]) = In(b) \cup {n + 1}
<1> DEFINE c == [b EXCEPT ![i].items = @ \cup {n + 1}]
<1>1. Holds(b, n + 1, k) /\ In(b) \subseteq 1..n /\ IsFiniteSet(In(b))
  BY HoldsOn, HoldsFinite
<1> DEFINE x == [b[i] EXCEPT !.items = @ \cup {n + 1}]
<1>0. b[i] \in Batch(n + 1)
  BY <1>1 DEF Holds
<1>3. x \in Batch(n + 1) /\ x.items = b[i].items \cup {n + 1}
  <2>1. b[i].items \in SUBSET (1..(n + 1))
    BY <1>0 DEF Batch
  <2>2. n + 1 \in 1..(n + 1)
    OBVIOUS
  <2>3. b[i].items \cup {n + 1} \subseteq 1..(n + 1) /\ b[i].items \cup {n + 1} # {}
    BY <2>1, <2>2
  <2>4. b[i].items \cup {n + 1} \in (SUBSET (1..(n + 1))) \ {{}}
    BY <2>3, SomeOf, Zenon
  <2> QED BY <1>0, <2>4 DEF Batch
<1>2. DOMAIN c = DOMAIN b /\ c[i] = x
      /\ \A j \in DOMAIN b : j # i => c[j] = b[j]
  BY <1>1 DEF Holds
<1>4. c \in Seq(Batch(n + 1))
  BY <1>1, <1>2, <1>3 DEF Holds
<1>5. \A j \in DOMAIN b : b[j].items \subseteq 1..n
  BY <1>1 DEF In
<1>6. \A j, l \in DOMAIN c : j # l => c[j].items \cap c[l].items = {}
  BY <1>1, <1>2, <1>5 DEF Holds
<1>7. In(c) = In(b) \cup {n + 1}
  BY <1>2 DEF In
<1>8. Cardinality(In(c)) = k + 1
  <2>1. n + 1 \notin In(b)
    BY <1>1
  <2>2. Cardinality(In(b) \cup {n + 1}) = Cardinality(In(b)) + 1
    BY <1>1, <2>1, FS_AddElement
  <2> QED BY <1>1, <1>7, <2>2 DEF Holds
<1> QED BY <1>4, <1>6, <1>7, <1>8 DEF Holds

\* ... or opens one.
LEMMA HoldsOpened ==
  ASSUME NEW n \in Nat, NEW b, NEW k, Holds(b, n, k), NEW p \in Places, NEW now \in BOOLEAN,
         NEW c, c = Append(b, [place |-> p, items |-> {n + 1}, now |-> now, ripe |-> FALSE])
  PROVE  Holds(c, n + 1, k + 1) /\ In(c) = In(b) \cup {n + 1}
<1> DEFINE x == [place |-> p, items |-> {n + 1}, now |-> now, ripe |-> FALSE]
<1>0. c = Append(b, x)
  OBVIOUS
<1>1. Holds(b, n + 1, k) /\ In(b) \subseteq 1..n /\ IsFiniteSet(In(b))
  BY HoldsOn, HoldsFinite
<1>2. x \in Batch(n + 1)
  <2>1. n + 1 \in 1..(n + 1)
    OBVIOUS
  <2>2. {n + 1} \subseteq 1..(n + 1) /\ {n + 1} # {}
    BY <2>1
  <2>3. {n + 1} \in (SUBSET (1..(n + 1))) \ {{}}
    BY <2>2, SomeOf, Zenon
  <2> QED BY <2>3 DEF Batch
<1>3. c \in Seq(Batch(n + 1))
  BY <1>0, <1>1, <1>2 DEF Holds
<1>4. /\ DOMAIN b = 1..Len(b) /\ DOMAIN c = 1..(Len(b) + 1) /\ Len(b) \in Nat
      /\ c[Len(b) + 1] = x
      /\ \A j \in DOMAIN b : c[j] = b[j]
  BY <1>0, <1>1, <1>2 DEF Holds
<1>5. \A j \in DOMAIN b : b[j].items \subseteq 1..n
  BY <1>1 DEF In
<1>6. \A j, l \in DOMAIN c : j # l => c[j].items \cap c[l].items = {}
  <2>1. \A j \in DOMAIN c : j \in DOMAIN b \/ j = Len(b) + 1
    BY <1>4
  <2>2. \A j \in DOMAIN b : c[j].items \cap {n + 1} = {}
    BY <1>4, <1>5
  <2>3. x.items = {n + 1}
    OBVIOUS
  <2> QED BY <1>1, <1>4, <2>1, <2>2, <2>3 DEF Holds
<1>7. In(c) = In(b) \cup {n + 1}
  <2>1. \A j \in DOMAIN c : j \in DOMAIN b \/ j = Len(b) + 1
    BY <1>4
  <2>2. DOMAIN b \subseteq DOMAIN c /\ Len(b) + 1 \in DOMAIN c
    BY <1>4
  <2>3. x.items = {n + 1}
    OBVIOUS
  <2> QED BY <1>4, <2>1, <2>2, <2>3 DEF In
<1>8. Cardinality(In(c)) = k + 1
  <2>1. n + 1 \notin In(b)
    BY <1>1
  <2>2. Cardinality(In(b) \cup {n + 1}) = Cardinality(In(b)) + 1
    BY <1>1, <2>1, FS_AddElement
  <2> QED BY <1>1, <1>7, <2>2 DEF Holds
<1> QED BY <1>3, <1>6, <1>7, <1>8 DEF Holds

\* The first batch is taken.
LEMMA HoldsTaken ==
  ASSUME NEW n \in Nat, NEW b, NEW k, Holds(b, n, k), b # <<>>
  PROVE  /\ Holds(Tail(b), n, k - Cardinality(Head(b).items))
         /\ k - Cardinality(Head(b).items) \in 0..k
         /\ Head(b).items \subseteq 1..n
         /\ In(Tail(b)) = In(b) \ Head(b).items
<1> DEFINE c == Tail(b)
           h == Head(b).items
<1>1. In(b) \subseteq 1..n /\ IsFiniteSet(In(b)) /\ k \in Nat
  BY HoldsFinite
<1>2. /\ b \in Seq(Batch(n)) /\ Len(b) \in Nat \ {0} /\ DOMAIN b = 1..Len(b)
      /\ h = b[1].items
      /\ c \in Seq(Batch(n)) /\ DOMAIN c = 1..(Len(b) - 1)
      /\ \A j \in DOMAIN c : c[j] = b[j + 1]
  BY DEF Holds
<1>3. h \subseteq In(b)
  BY <1>2 DEF In
<1>4. \A i, j \in DOMAIN c : i # j => c[i].items \cap c[j].items = {}
  BY <1>2 DEF Holds
<1>5. In(c) = In(b) \ h
  <2>1. \A j \in DOMAIN c : j + 1 \in DOMAIN b /\ j + 1 # 1
    BY <1>2
  <2>2. \A j \in DOMAIN b : j = 1 \/ (j - 1 \in DOMAIN c /\ c[j - 1] = b[j])
    BY <1>2
  <2>3. \A j \in DOMAIN c : c[j].items \cap h = {}
    BY <1>2, <2>1 DEF Holds
  <2>4. In(c) \subseteq In(b) \ h
    BY <1>2, <2>1, <2>3 DEF In
  <2>5. In(b) \ h \subseteq In(c)
    <3>1. ASSUME NEW m \in In(b), m \notin h PROVE m \in In(c)
      <4>1. PICK j \in DOMAIN b : m \in b[j].items
        BY DEF In
      <4>2. j # 1
        BY <1>2, <3>1, <4>1
      <4>3. j - 1 \in DOMAIN c /\ m \in c[j - 1].items
        BY <2>2, <4>1, <4>2
      <4> QED BY <4>3 DEF In
    <3> QED BY <3>1
  <2> QED BY <2>4, <2>5
<1>6. Cardinality(In(c)) = k - Cardinality(h)
  <2>1. In(b) \cap h = h
    BY <1>3
  <2> QED BY <1>1, <1>5, <2>1, FS_Difference, ZenonT(40) DEF Holds
<1>7. Cardinality(In(c)) \in Nat /\ Cardinality(h) \in Nat
  BY <1>1, <1>3, <1>5, FS_Subset, FS_CardinalityType
<1>8. k - Cardinality(h) \in 0..k
  BY <1>1, <1>6, <1>7
<1> QED BY <1>1, <1>2, <1>3, <1>4, <1>5, <1>6, <1>8 DEF Holds

\* A batch becomes old enough.
LEMMA HoldsRipened ==
  ASSUME NEW n \in Nat, NEW b, NEW k, Holds(b, n, k), NEW i \in DOMAIN b
  PROVE  /\ Holds([b EXCEPT ![i].ripe = TRUE], n, k)
         /\ In([b EXCEPT ![i].ripe = TRUE]) = In(b)
<1> DEFINE c == [b EXCEPT ![i].ripe = TRUE]
<1> DEFINE x == [b[i] EXCEPT !.ripe = TRUE]
<1>0. x \in Batch(n) /\ x.items = b[i].items
  <2>1. b[i] \in Batch(n)
    BY DEF Holds
  <2> QED BY <2>1 DEF Batch
<1>1. DOMAIN c = DOMAIN b /\ \A j \in DOMAIN b : c[j].items = b[j].items
  BY <1>0 DEF Holds
<1>2. c[i] \in Batch(n)
  BY <1>0 DEF Holds
<1>3. c \in Seq(Batch(n))
  BY <1>2 DEF Holds
<1>4. In(c) = In(b)
  BY <1>1 DEF In
<1> QED BY <1>1, <1>3, <1>4 DEF Holds

-----------------------------------------------------------------------------
(* The types and the count together.                                        *)

\* What every variable is, but for the bounds on what waits.
Plain ==
  /\ placeOf \in [Msgs -> Places]
  /\ arrived \in 0..MaxMsgs
  /\ entry \in 0..arrived
  /\ pc \in [Msgs -> {"none", "loop", "run", "idle", "gather", "gone"}]
  /\ running \in [Msgs -> BOOLEAN]
  /\ wake \in [Msgs -> BOOLEAN]
  /\ turn \in [Msgs -> SUBSET (1..arrived)]
  /\ answered \subseteq 1..arrived
  /\ refused \subseteq 1..arrived
  /\ ended \in BOOLEAN

\* The counter is the number of messages that wait, and is within Max.
Counted(w) == Holds(batches[w], arrived, waiting[w]) /\ waiting[w] <= MaxWaiting

\* Nothing waits for a worker that has no message yet.
Unused(w) == batches[w] = <<>> /\ waiting[w] = 0

QueueInv ==
  /\ Plain
  /\ DOMAIN batches = Msgs /\ waiting \in [Msgs -> Nat]
  /\ \A w \in Msgs : Counted(w) /\ (w > arrived => Unused(w))

\* At the start no message has arrived.
LEMMA QueueInit == Init => QueueInv
<1> SUFFICES ASSUME Init PROVE QueueInv
  OBVIOUS
<1> USE ConstantsAssumption DEF Msgs, NoEntry
<1>1. Plain
  <2>1. arrived \in 0..MaxMsgs /\ entry \in 0..arrived
    BY DEF Init
  <2>2. turn \in [Msgs -> SUBSET (1..arrived)]
    BY DEF Init
  <2> QED BY <2>1, <2>2 DEF Init, Plain
<1>2. Holds(<<>>, 0, 0)
  <2>1. In(<<>>) = {}
    BY DEF In
  <2>2. <<>> \in Seq(Batch(0)) /\ DOMAIN <<>> = {}
    OBVIOUS
  <2> QED BY <2>1, <2>2, FS_EmptySet DEF Holds
<1>3. \A w \in Msgs : Counted(w) /\ Unused(w)
  BY <1>2 DEF Init, Counted, Unused
<1> QED BY <1>1, <1>3 DEF QueueInv, Init

\* They are what TypeOK says.
LEMMA QueueTypes == QueueInv => TypeOK
<1> SUFFICES ASSUME QueueInv PROVE TypeOK
  OBVIOUS
<1>1. arrived \in Nat
  BY ConstantsAssumption DEF QueueInv, Plain
<1>2. \A w \in Msgs : waiting[w] \in 0..MaxWaiting
  <2>1. ASSUME NEW w \in Msgs PROVE waiting[w] \in 0..MaxWaiting
    <3>1. Holds(batches[w], arrived, waiting[w]) /\ waiting[w] <= MaxWaiting
      BY DEF QueueInv, Counted
    <3>2. waiting[w] \in Nat
      BY <1>1, <3>1, HoldsFinite
    <3> QED BY <3>1, <3>2, ConstantsAssumption
  <2> QED BY <2>1
<1>3. \A w \in Msgs : \A i \in DOMAIN batches[w] : batches[w][i] \in Batch(arrived)
  BY DEF QueueInv, Counted, Holds
<1>4. waiting \in [Msgs -> 0..MaxWaiting]
  BY <1>2 DEF QueueInv
<1> QED BY <1>3, <1>4 DEF QueueInv, Plain, TypeOK, Batch

\* A step that leaves what waits, and what has arrived, alone.
LEMMA QueueAway ==
  ASSUME QueueInv, Plain', UNCHANGED <<batches, waiting, arrived>>
  PROVE  QueueInv'
  BY DEF QueueInv, Counted, Unused

\* A step of one worker's queue.
LEMMA QueuePut ==
  ASSUME QueueInv, Plain', NEW w \in Msgs, arrived' \in arrived..MaxMsgs,
         w <= arrived',
         NEW b, NEW k, batches' = [batches EXCEPT ![w] = b],
         waiting' = [waiting EXCEPT ![w] = k],
         Holds(b, arrived', k), k <= MaxWaiting
  PROVE  QueueInv'
<1>1. arrived \in Nat /\ arrived' \in Nat /\ arrived <= arrived' /\ w \in Int
  BY ConstantsAssumption DEF QueueInv, Plain, Msgs
<1>2. batches'[w] = b /\ waiting'[w] = k
      /\ \A v \in Msgs : v # w => batches'[v] = batches[v] /\ waiting'[v] = waiting[v]
  BY DEF QueueInv
<1>3. \A v \in Msgs : v # w => Holds(batches[v], arrived', waiting[v])
  BY <1>1, HoldsOn DEF QueueInv, Counted
<1>4. \A v \in Msgs : Counted(v)'
  BY <1>2, <1>3 DEF QueueInv, Counted
<1>5. \A v \in Msgs : v > arrived' => Unused(v)'
  BY <1>1, <1>2 DEF QueueInv, Unused, Msgs
<1>6. DOMAIN batches' = Msgs /\ waiting' \in [Msgs -> Nat]
  BY <1>1, HoldsFinite DEF QueueInv
<1> QED BY <1>4, <1>5, <1>6 DEF QueueInv

\* What Add does to the queue of a worker that is not full.
LEMMA QueueAdd ==
  ASSUME QueueInv, Plain', NEW w \in Msgs, arrived < MaxMsgs, arrived' = arrived + 1,
         w <= arrived + 1, waiting[w] < MaxWaiting, Add(w, arrived + 1)
  PROVE  QueueInv'
<1> DEFINE p == placeOf[arrived + 1]
           b == batches[w]
<1>1. arrived \in Nat /\ arrived + 1 \in Msgs /\ MaxWaiting \in Nat
  BY ConstantsAssumption DEF QueueInv, Plain, Msgs
<1>2. Holds(b, arrived, waiting[w]) /\ waiting[w] \in Nat
  BY <1>1, HoldsFinite DEF QueueInv, Counted
<1>3. p \in Places /\ Idle(w) \in BOOLEAN
  BY <1>1, <1>2 DEF QueueInv, Plain, Idle
<1>4. waiting' = [waiting EXCEPT ![w] = waiting[w] + 1]
  BY DEF Add
<1>5. Holds(Queued(w, arrived + 1), arrived + 1, waiting[w] + 1)
  <2>1. CASE Open(w, p) # {}
    <3>1. (CHOOSE i \in Open(w, p) : TRUE) \in Open(w, p)
      BY <2>1
    <3>2. PICK i \in Open(w, p) :
            Queued(w, arrived + 1) = [b EXCEPT ![i].items = @ \cup {arrived + 1}]
      BY <2>1, <3>1 DEF Queued
    <3>3. i \in DOMAIN b
      BY DEF Open
    <3> HIDE DEF p, b
    <3> QED BY <1>1, <1>2, <3>2, <3>3, HoldsJoined
  <2>2. CASE Open(w, p) = {}
    <3>1. Queued(w, arrived + 1) =
            Append(b, [place |-> p, items |-> {arrived + 1}, now |-> Idle(w), ripe |-> FALSE])
      BY <2>2 DEF Queued
    <3> QED BY <1>1, <1>2, <1>3, <3>1, HoldsOpened
  <2> QED BY <2>1, <2>2
<1>6. waiting[w] + 1 <= MaxWaiting /\ arrived + 1 \in arrived..MaxMsgs
  BY <1>1, <1>2, ConstantsAssumption
<1>7. batches' = [batches EXCEPT ![w] = Queued(w, arrived + 1)]
  BY DEF Add
<1> QED BY <1>4, <1>5, <1>6, <1>7, QueuePut

\* One more message has arrived.
LEMMA PlainGrows ==
  ASSUME QueueInv, arrived < MaxMsgs, arrived' = arrived + 1,
         UNCHANGED <<placeOf, running, turn, answered, ended>>,
         entry' \in {entry, arrived'}, wake' \in [Msgs -> BOOLEAN],
         pc' \in [Msgs -> {"none", "loop", "run", "idle", "gather", "gone"}],
         refused' \subseteq refused \cup {arrived'}
  PROVE  Plain'
<1>1. Plain /\ arrived \in Nat /\ arrived' \in 0..MaxMsgs
  BY ConstantsAssumption DEF QueueInv, Plain
<1>2. 1..arrived \subseteq 1..arrived' /\ arrived' \in 1..arrived' /\ entry' \in 0..arrived'
  BY <1>1 DEF Plain
<1>3. turn' \in [Msgs -> SUBSET (1..arrived')]
  BY <1>1, <1>2 DEF Plain
<1>4. answered' \subseteq 1..arrived' /\ refused' \subseteq 1..arrived'
  BY <1>1, <1>2 DEF Plain
<1> QED BY <1>1, <1>2, <1>3, <1>4 DEF Plain

\* Every step keeps the count.
LEMMA QueueStep == QueueInv /\ [Next]_vars => QueueInv'
<1> SUFFICES ASSUME QueueInv, [Next]_vars PROVE QueueInv'
  OBVIOUS
<1> USE DEF thread
<1>0. /\ Plain /\ arrived \in Nat /\ MaxMsgs \in Nat /\ MaxWaiting \in Nat \ {0}
      /\ \A w \in Msgs : Counted(w) /\ waiting[w] \in Nat
  BY ConstantsAssumption, HoldsFinite DEF QueueInv, Plain, Counted
<1>1. CASE StartThread
  <2>1. Plain'
    BY <1>0, <1>1, PlainGrows DEF Plain, StartThread, Add, Msgs
  <2>2. arrived + 1 \in Msgs /\ Unused(arrived + 1)
    BY <1>0, <1>1 DEF StartThread, QueueInv, Msgs
  <2> QED BY <1>0, <1>1, <2>1, <2>2, QueueAdd DEF StartThread, Unused
<1>2. CASE Join
  <2>1. Plain'
    BY <1>0, <1>2, PlainGrows DEF Plain, Join, Add
  <2>2. entry \in Msgs /\ entry <= arrived + 1
    BY <1>0, <1>2 DEF Join, NeedsWorker, NoEntry, Plain, Msgs
  <2>3. waiting[entry] < MaxWaiting
    BY <1>0, <1>2, <2>2 DEF Join, Full, Idle
  <2> QED BY <1>0, <1>2, <2>1, <2>2, <2>3, QueueAdd DEF Join
<1>3. CASE Refuse
  <2>1. Plain'
    BY <1>0, <1>3, PlainGrows DEF Plain, Refuse
  <2>4. arrived' = arrived + 1 /\ UNCHANGED <<batches, waiting>>
    BY <1>3 DEF Refuse
  <2>5. \A w \in Msgs : Holds(batches[w], arrived + 1, waiting[w])
    BY <1>0, HoldsOn DEF Counted
  <2>2. \A w \in Msgs : Counted(w)'
    BY <1>0, <2>4, <2>5 DEF Counted
  <2>3. \A w \in Msgs : w > arrived' => Unused(w)'
    BY <1>0, <1>3 DEF Refuse, QueueInv, Unused, Msgs
  <2> QED BY <1>3, <2>1, <2>2, <2>3 DEF QueueInv, Refuse
<1>4. CASE EndCtx
  <2>1. Plain'
    BY <1>0, <1>4 DEF Plain, EndCtx
  <2> QED BY <1>4, <2>1, QueueAway DEF EndCtx
<1>5. ASSUME NEW w \in Msgs, Take(w) PROVE QueueInv'
  <2>1. Holds(batches[w], arrived, waiting[w]) /\ waiting[w] <= MaxWaiting /\ batches[w] # <<>>
    BY <1>0, <1>5 DEF Counted, Take
  <2> DEFINE k == waiting[w] - Cardinality(Head(batches[w]).items)
  <2>2. /\ Holds(Tail(batches[w]), arrived, k) /\ k \in 0..waiting[w]
        /\ Head(batches[w]).items \subseteq 1..arrived
    BY <1>0, <2>1, HoldsTaken
  <2>3. Plain'
    BY <1>0, <1>5, <2>2 DEF Plain, Take
  <2>4. w <= arrived
    BY <1>0, <2>1 DEF QueueInv, Unused, Msgs
  <2>5. /\ batches' = [batches EXCEPT ![w] = Tail(batches[w])]
        /\ waiting' = [waiting EXCEPT ![w] = k] /\ arrived' = arrived
    BY <1>5 DEF Take
  <2>6. k <= MaxWaiting /\ arrived' \in arrived..MaxMsgs
    BY <1>0, <2>1, <2>2, <2>5 DEF Plain
  <2> QED BY <2>2, <2>3, <2>4, <2>5, <2>6, QueuePut
<1>6. ASSUME NEW w \in Msgs,
             Sleep(w) \/ Finish(w) \/ Woken(w) \/ GatherOver(w) \/ IdleOver(w) \/ CtxDone(w)
      PROVE  QueueInv'
  <2>1. Plain'
    <3>1. CASE Sleep(w) \/ Woken(w) \/ GatherOver(w)
      BY <1>0, <3>1 DEF Plain, Sleep, Woken, GatherOver
    <3>2. CASE Finish(w)
      BY <1>0, <3>2 DEF Plain, Finish
    <3>3. CASE IdleOver(w) \/ CtxDone(w)
      <4>1. entry' \in {entry, 0} /\ 0 \in 0..arrived
        BY <1>0, <3>3 DEF IdleOver, CtxDone, NoEntry
      <4>2. pc' \in [Msgs -> {"none", "loop", "run", "idle", "gather", "gone"}]
        BY <1>0, <3>3 DEF Plain, IdleOver, CtxDone
      <4> QED BY <1>0, <3>3, <4>1, <4>2 DEF Plain, IdleOver, CtxDone
    <3> QED BY <1>6, <3>1, <3>2, <3>3
  <2> QED BY <1>6, <2>1, QueueAway DEF Sleep, Finish, Woken, GatherOver, IdleOver, CtxDone
<1>7. ASSUME NEW w \in Msgs, Ripen(w) PROVE QueueInv'
  <2>1. PICK i \in DOMAIN batches[w] : batches' = [batches EXCEPT ![w][i].ripe = TRUE]
    BY <1>7 DEF Ripen
  <2>2. UNCHANGED <<placeOf, arrived, entry, pc, running, waiting, wake, turn, answered,
                    refused, ended>>
    BY <1>7 DEF Ripen
  <2>3. Plain'
    BY <1>0, <2>2 DEF Plain
  <2>4. Holds([batches[w] EXCEPT ![i].ripe = TRUE], arrived, waiting[w])
    BY <1>0, HoldsRipened DEF Counted
  <2>5. batches' = [batches EXCEPT ![w] = [batches[w] EXCEPT ![i].ripe = TRUE]]
        /\ waiting' = [waiting EXCEPT ![w] = waiting[w]]
    BY <2>1, <2>2, Zenon DEF QueueInv
  <2>6. w <= arrived
    BY <1>0 DEF QueueInv, Unused, Msgs
  <2>7. waiting[w] <= MaxWaiting /\ arrived' \in arrived..MaxMsgs
    BY <1>0, <2>2 DEF Plain, Counted
  <2> QED BY <2>2, <2>3, <2>4, <2>5, <2>6, <2>7, QueuePut
<1>8. CASE UNCHANGED vars
  <2>1. Plain'
    BY <1>0, <1>8 DEF Plain, vars
  <2> QED BY <1>8, <2>1, QueueAway DEF vars
<1> QED
  BY <1>1, <1>2, <1>3, <1>4, <1>5, <1>6, <1>7, <1>8 DEF Next, Worker

\* Every variable of the thread keeps its type, and no more than Max messages ever
\* wait: the counter Enqueue and the worker keep is what the batches hold.
THEOREM TypeCorrect == Spec => []TypeOK
<1>1. QueueInv /\ [Next]_vars => QueueInv'
  BY QueueStep
<1>2. QueueInv => TypeOK
  BY QueueTypes
<1> QED BY QueueInit, <1>1, <1>2, PTL DEF Spec

-----------------------------------------------------------------------------
(***************************************************************************)
(* The turn queue implements PlaceQueues, for any number of messages,      *)
(* places and waiting messages.  What PlaceQueues says of a set of waiting *)
(* messages the code does with a list of batches; the proof is that the    *)
(* list stays sorted: the oldest message of all is in the first batch, and *)
(* of two batches of one place the earlier one is closed and older.        *)
(***************************************************************************)

\* The batches b of messages whose places are given by at.
Sorted(b, at) ==
  /\ \A i \in DOMAIN b : \A m \in b[i].items : at[m] = b[i].place
  /\ \A i \in DOMAIN b : b[i].now => i = 1
  /\ \A i \in DOMAIN b : \E m \in b[i].items :
       \A j \in DOMAIN b : j >= i => \A n \in b[j].items : m <= n
  /\ \A i, j \in DOMAIN b : i < j /\ b[i].place = b[j].place =>
       b[i].now /\ \A m \in b[i].items, n \in b[j].items : m < n

\* What a queue of batches is, seen from one batch.
LEMMA BatchOf ==
  ASSUME NEW n \in Nat, NEW b, NEW k, Holds(b, n, k)
  PROVE  /\ b \in Seq(Batch(n))
         /\ \A i \in DOMAIN b : /\ b[i] \in Batch(n) /\ i \in Nat \ {0}
                                /\ b[i].items \subseteq 1..n /\ b[i].items # {}
<1>1. b \in Seq(Batch(n)) /\ \A i \in DOMAIN b : b[i] \in Batch(n) /\ i \in Nat \ {0}
  BY DEF Holds
<1>2. \A i \in DOMAIN b : b[i].items \in (SUBSET (1..n)) \ {{}}
  BY <1>1 DEF Batch
<1> QED BY <1>1, <1>2

\* The newest message joins the open batch of its place.
LEMMA SortedJoined ==
  ASSUME NEW n \in Nat, NEW b, NEW k, NEW at, Holds(b, n, k), Sorted(b, at),
         NEW i \in DOMAIN b, b[i].place = at[n + 1], ~b[i].now
  PROVE  Sorted([b EXCEPT ![i].items = @ \cup {n + 1}], at)
<1> DEFINE x == [b[i] EXCEPT !.items = @ \cup {n + 1}]
           c == [b EXCEPT ![i].items = @ \cup {n + 1}]
<1>1. \A j \in DOMAIN b : /\ b[j] \in Batch(n) /\ j \in Nat \ {0}
                          /\ b[j].items \subseteq 1..n /\ b[j].items # {}
  BY BatchOf
<1>2. x.items = b[i].items \cup {n + 1} /\ x.place = b[i].place /\ x.now = b[i].now
  BY <1>1 DEF Batch
<1>3. DOMAIN c = DOMAIN b /\ c[i] = x /\ \A j \in DOMAIN b : j # i => c[j] = b[j]
  BY DEF Holds
<1>4. \A j \in DOMAIN b : /\ c[j].place = b[j].place /\ c[j].now = b[j].now
                          /\ b[j].items \subseteq c[j].items
                          /\ \A m \in c[j].items : m \in b[j].items \/ (j = i /\ m = n + 1)
  BY <1>2, <1>3
<1> HIDE DEF x, c
<1>5. \A j \in DOMAIN c : \A m \in c[j].items : at[m] = c[j].place
  BY <1>3, <1>4 DEF Sorted
<1>6. \A j \in DOMAIN c : c[j].now => j = 1
  BY <1>3, <1>4 DEF Sorted
<1>7. ASSUME NEW j \in DOMAIN c
      PROVE  \E m \in c[j].items : \A l \in DOMAIN c : l >= j => \A o \in c[l].items : m <= o
  <2>1. PICK m \in b[j].items : \A l \in DOMAIN b : l >= j => \A o \in b[l].items : m <= o
    BY <1>3 DEF Sorted
  <2>2. m \in c[j].items /\ m \in 1..n
    BY <1>1, <1>3, <1>4, <2>1
  <2>3. \A l \in DOMAIN c : l >= j => \A o \in c[l].items : m <= o
    BY <1>3, <1>4, <2>1, <2>2
  <2> QED BY <2>2, <2>3
<1>8. ASSUME NEW j \in DOMAIN c, NEW l \in DOMAIN c, j < l, c[j].place = c[l].place
      PROVE  c[j].now /\ \A m \in c[j].items, o \in c[l].items : m < o
  <2>1. b[j].now /\ \A m \in b[j].items, o \in b[l].items : m < o
    BY <1>3, <1>4, <1>8 DEF Sorted
  <2>2. j # i
    BY <2>1
  <2>3. \A m \in c[j].items : m \in b[j].items /\ m \in 1..n
    BY <1>1, <1>3, <1>4, <2>2
  <2> QED BY <1>3, <1>4, <2>1, <2>3
<1> QED BY <1>5, <1>6, <1>7, <1>8 DEF Sorted, c

\* It opens a batch: its place has none, or one that runs at once.
LEMMA SortedOpened ==
  ASSUME NEW n \in Nat, NEW b, NEW k, NEW at, Holds(b, n, k), Sorted(b, at),
         NEW now \in BOOLEAN, now => b = <<>>,
         \A j \in DOMAIN b : b[j].place = at[n + 1] => b[j].now,
         NEW x, x = [place |-> at[n + 1], items |-> {n + 1}, now |-> now, ripe |-> FALSE]
  PROVE  Sorted(Append(b, x), at)
<1> DEFINE c == Append(b, x)
           e == Len(b) + 1
<1>1. \A j \in DOMAIN b : /\ j \in Nat \ {0}
                          /\ b[j].items \subseteq 1..n /\ b[j].items # {}
  BY BatchOf
<1>2. x.place = at[n + 1] /\ x.items = {n + 1} /\ x.now = now
  OBVIOUS
<1>3. /\ DOMAIN c = DOMAIN b \cup {e} /\ e \in Nat \ {0} /\ c[e] = x
      /\ \A j \in DOMAIN b : j < e /\ c[j] = b[j]
  BY BatchOf
<1>4. now => e = 1
  OBVIOUS
<1> HIDE DEF c, e
<1>5. \A j \in DOMAIN c : \A m \in c[j].items : at[m] = c[j].place
  BY <1>2, <1>3 DEF Sorted
<1>6. \A j \in DOMAIN c : c[j].now => j = 1
  BY <1>2, <1>3, <1>4 DEF Sorted
<1>7. ASSUME NEW j \in DOMAIN c
      PROVE  \E m \in c[j].items : \A l \in DOMAIN c : l >= j => \A o \in c[l].items : m <= o
  <2>1. CASE j = e
    <3>1. n + 1 \in c[j].items /\ \A o \in c[j].items : n + 1 <= o
      BY <1>2, <1>3, <2>1
    <3>2. \A l \in DOMAIN c : l >= j => l = j
      BY <1>1, <1>3, <2>1
    <3> QED BY <3>1, <3>2
  <2>2. CASE j \in DOMAIN b
    <3>1. PICK m \in b[j].items : \A l \in DOMAIN b : l >= j => \A o \in b[l].items : m <= o
      BY <2>2 DEF Sorted
    <3>2. m \in c[j].items /\ m \in 1..n
      BY <1>1, <1>3, <2>2, <3>1
    <3>3. \A l \in DOMAIN c : l >= j => \A o \in c[l].items : m <= o
      BY <1>2, <1>3, <3>1, <3>2
    <3> QED BY <3>2, <3>3
  <2> QED BY <1>3, <2>1, <2>2
<1>8. ASSUME NEW j \in DOMAIN c, NEW l \in DOMAIN c, j < l, c[j].place = c[l].place
      PROVE  c[j].now /\ \A m \in c[j].items, o \in c[l].items : m < o
  <2>1. j \in DOMAIN b /\ c[j] = b[j]
    BY <1>1, <1>3, <1>8
  <2>2. CASE l = e
    BY <1>1, <1>2, <1>3, <1>8, <2>1, <2>2
  <2>3. CASE l \in DOMAIN b
    BY <1>3, <1>8, <2>1, <2>3 DEF Sorted
  <2> QED BY <1>3, <2>2, <2>3
<1> QED BY <1>5, <1>6, <1>7, <1>8 DEF Sorted, c

\* A turn of h answers messages of one place in the order they came, and the one of
\* all that waited longest.
TurnOf(h, all, at) ==
  /\ h # {} /\ h \subseteq all
  /\ \E m \in h : \A o \in all : m <= o
  /\ \A m \in h, o \in all :
       /\ o \in h => at[o] = at[m]
       /\ at[o] = at[m] /\ o < m => o \in h

\* The first batch is taken: nothing that waited longer is left, and nothing of its
\* place that came before any of it.
LEMMA SortedTaken ==
  ASSUME NEW n \in Nat, NEW b, NEW k, NEW at, Holds(b, n, k), Sorted(b, at), b # <<>>
  PROVE  Sorted(Tail(b), at) /\ TurnOf(Head(b).items, In(b), at)
<1> DEFINE c == Tail(b)
           h == Head(b).items
<1>1. \A j \in DOMAIN b : /\ j \in Nat \ {0}
                          /\ b[j].items \subseteq 1..n /\ b[j].items # {}
  BY BatchOf
<1>2. /\ 1 \in DOMAIN b /\ h = b[1].items
      /\ \A j \in DOMAIN c : j \in Nat \ {0} /\ j + 1 \in DOMAIN b /\ c[j] = b[j + 1]
      /\ \A j \in DOMAIN b : j = 1 \/ (j - 1 \in DOMAIN c /\ c[j - 1] = b[j])
  BY BatchOf
<1> HIDE DEF c, h
<1>3. \A o \in In(b) : \E j \in DOMAIN b : o \in b[j].items
  BY DEF In
<1>4. h # {} /\ h \subseteq In(b)
  BY <1>1, <1>2 DEF In
<1>6. \E m \in h : \A o \in In(b) : m <= o
  <2>1. PICK m \in b[1].items : \A j \in DOMAIN b : j >= 1 => \A o \in b[j].items : m <= o
    BY <1>2 DEF Sorted
  <2> QED BY <1>1, <1>2, <1>3, <2>1
<1>7. ASSUME NEW m \in h, NEW o \in In(b)
      PROVE  /\ o \in h => at[o] = at[m]
             /\ at[o] = at[m] /\ o < m => o \in h
  <2>1. PICK j \in DOMAIN b : o \in b[j].items
    BY <1>3
  <2>2. at[m] = b[1].place /\ at[o] = b[j].place /\ \A q \in h : at[q] = b[1].place
    BY <1>2, <2>1 DEF Sorted
  <2>3. j # 1 /\ at[o] = at[m] => m < o
    BY <1>1, <1>2, <2>1, <2>2 DEF Sorted
  <2>4. m \in 1..n /\ o \in 1..n
    BY <1>1, <1>2, <2>1
  <2> QED BY <1>2, <2>1, <2>2, <2>3, <2>4
<1>8. Sorted(c, at)
  <2>1. \A j \in DOMAIN c : \A m \in c[j].items : at[m] = c[j].place
    BY <1>2 DEF Sorted
  <2>2. \A j \in DOMAIN c : ~c[j].now
    BY <1>2 DEF Sorted
  <2>3. ASSUME NEW j \in DOMAIN c
        PROVE  \E m \in c[j].items : \A l \in DOMAIN c : l >= j => \A o \in c[l].items : m <= o
    <3>1. PICK m \in b[j + 1].items :
            \A l \in DOMAIN b : l >= j + 1 => \A o \in b[l].items : m <= o
      BY <1>2 DEF Sorted
    <3> QED BY <1>2, <3>1
  <2>4. ASSUME NEW j \in DOMAIN c, NEW l \in DOMAIN c, j < l, c[j].place = c[l].place
        PROVE  c[j].now /\ \A m \in c[j].items, o \in c[l].items : m < o
    BY <1>2, <2>4 DEF Sorted
  <2> QED BY <2>1, <2>2, <2>3, <2>4 DEF Sorted
<1>9. TurnOf(h, In(b), at)
  BY <1>4, <1>6, <1>7 DEF TurnOf
<1> QED BY <1>8, <1>9 DEF c, h

\* A batch becomes old enough.
LEMMA SortedRipened ==
  ASSUME NEW n \in Nat, NEW b, NEW k, NEW at, Holds(b, n, k), Sorted(b, at),
         NEW i \in DOMAIN b
  PROVE  Sorted([b EXCEPT ![i].ripe = TRUE], at)
<1> DEFINE x == [b[i] EXCEPT !.ripe = TRUE]
           c == [b EXCEPT ![i].ripe = TRUE]
<1>1. b[i] \in Batch(n)
  BY BatchOf
<1>2. x.items = b[i].items /\ x.place = b[i].place /\ x.now = b[i].now
  BY <1>1 DEF Batch
<1>3. DOMAIN c = DOMAIN b /\ c[i] = x /\ \A j \in DOMAIN b : j # i => c[j] = b[j]
  BY DEF Holds
<1>4. \A j \in DOMAIN b : c[j].items = b[j].items /\ c[j].place = b[j].place /\ c[j].now = b[j].now
  BY <1>2, <1>3
<1> HIDE DEF x, c
<1>5. Sorted(c, at)
  BY <1>3, <1>4 DEF Sorted
<1> QED BY <1>5 DEF c

-----------------------------------------------------------------------------
(* The invariant the refinement needs.                                      *)

QueuesSorted == \A w \in Msgs : Sorted(batches[w], placeOf)

\* A worker has a turn while it runs one.
TurnsRun == \A w \in Msgs : turn[w] # {} <=> pc[w] = "run"

RefineInv == QueueInv /\ WorkerHasEntry /\ QueuesSorted /\ TurnsRun

\* At first nothing waits and nothing runs.
LEMMA RefineInit == Init => RefineInv
<1> SUFFICES ASSUME Init PROVE RefineInv
  OBVIOUS
<1>1. QueueInv
  BY QueueInit
<1>2. WorkerHasEntry
  BY ConstantsAssumption DEF Init, WorkerHasEntry, Msgs
<1>3. QueuesSorted
  BY DEF Init, QueuesSorted, Sorted
<1>4. TurnsRun
  BY DEF Init, TurnsRun
<1> QED BY <1>1, <1>2, <1>3, <1>4 DEF RefineInv

\* What the count says of one queue.
LEMMA QueueHas ==
  ASSUME QueueInv, NEW w \in Msgs
  PROVE  /\ Holds(batches[w], arrived, waiting[w]) /\ arrived \in Nat
         /\ waiting[w] \in Nat /\ waiting[w] <= MaxWaiting
         /\ waiting[w] = Cardinality(Items(w)) /\ Items(w) = In(batches[w])
         /\ waiting[w] = 0 => Items(w) = {} /\ batches[w] = <<>>
<1>1. arrived \in Nat
  BY ConstantsAssumption DEF QueueInv, Plain
<1>2. Holds(batches[w], arrived, waiting[w]) /\ waiting[w] <= MaxWaiting
  BY DEF QueueInv, Counted
<1>3. IsFiniteSet(In(batches[w])) /\ waiting[w] \in Nat
  BY <1>1, <1>2, HoldsFinite
<1>4. Items(w) = In(batches[w])
  BY DEF Items, In
<1>5. ASSUME waiting[w] = 0 PROVE In(batches[w]) = {} /\ batches[w] = <<>>
  <2>1. In(batches[w]) = {}
    BY <1>2, <1>3, <1>5, FS_EmptySet DEF Holds
  <2>2. /\ batches[w] \in Seq(Batch(arrived))
        /\ \A i \in DOMAIN batches[w] : batches[w][i].items # {}
    BY <1>1, <1>2, BatchOf
  <2>3. DOMAIN batches[w] = {}
    BY <2>1, <2>2 DEF In
  <2>4. DOMAIN batches[w] = 1..Len(batches[w]) /\ Len(batches[w]) \in Nat
    BY <2>2
  <2>5. Len(batches[w]) = 0
    BY <2>3, <2>4
  <2> QED BY <2>1, <2>2, <2>5
<1> QED BY <1>1, <1>2, <1>3, <1>4, <1>5 DEF Holds

\* What a message does to the queue it joins.
LEMMA QueuedIs ==
  ASSUME QueueInv, QueuesSorted, NEW w \in Msgs, arrived < MaxMsgs
  PROVE  /\ Sorted(Queued(w, arrived + 1), placeOf)
         /\ In(Queued(w, arrived + 1)) = Items(w) \cup {arrived + 1}
<1> DEFINE p == placeOf[arrived + 1]
           b == batches[w]
<1>1. /\ Holds(b, arrived, waiting[w]) /\ arrived \in Nat /\ waiting[w] \in Nat
      /\ Items(w) = In(b) /\ (waiting[w] = 0 => b = <<>>) /\ Sorted(b, placeOf)
  BY QueueHas DEF QueuesSorted
<1>2. p \in Places /\ Idle(w) \in BOOLEAN
  <2>1. arrived + 1 \in Msgs
    BY <1>1, ConstantsAssumption DEF Msgs
  <2> QED BY <2>1 DEF QueueInv, Plain, Idle
<1>3. CASE Open(w, p) # {}
  <2>1. (CHOOSE i \in Open(w, p) : TRUE) \in Open(w, p)
    BY <1>3
  <2>2. PICK i \in Open(w, p) :
          Queued(w, arrived + 1) = [b EXCEPT ![i].items = @ \cup {arrived + 1}]
    BY <1>3, <2>1 DEF Queued
  <2>3. i \in DOMAIN b /\ b[i].place = placeOf[arrived + 1] /\ ~b[i].now
    BY DEF Open
  <2> HIDE DEF p, b
  <2> QED BY <1>1, <2>2, <2>3, HoldsJoined, SortedJoined
<1>4. CASE Open(w, p) = {}
  <2>1. Queued(w, arrived + 1) =
          Append(b, [place |-> p, items |-> {arrived + 1}, now |-> Idle(w), ripe |-> FALSE])
    BY <1>4 DEF Queued
  <2>2. Idle(w) => b = <<>>
    BY <1>1 DEF Idle
  <2>3. \A j \in DOMAIN b : b[j].place = placeOf[arrived + 1] => b[j].now
    BY <1>4 DEF Open
  <2>4. In(Queued(w, arrived + 1)) = In(b) \cup {arrived + 1}
    BY <1>1, <1>2, <2>1, HoldsOpened, SMTT(30)
  <2>5. Sorted(Queued(w, arrived + 1), placeOf)
    <3>1. Holds(b, arrived, waiting[w]) /\ Sorted(b, placeOf) /\ arrived \in Nat
      BY <1>1
    <3>2. PICK x : x = [place |-> placeOf[arrived + 1], items |-> {arrived + 1},
                        now |-> Idle(w), ripe |-> FALSE]
      OBVIOUS
    <3>3. Queued(w, arrived + 1) = Append(b, x)
      BY <2>1, <3>2
    <3>4. PICK now \in BOOLEAN : now = Idle(w)
      BY <1>2
    <3> HIDE DEF b, p
    <3>5. Sorted(Append(b, x), placeOf)
      BY <2>2, <2>3, <3>1, <3>2, <3>4, SortedOpened
    <3> QED BY <3>3, <3>5
  <2> QED BY <1>1, <2>4, <2>5
<1> QED BY <1>3, <1>4

\* Every step keeps the queues sorted.
LEMMA StepSorted == QueueInv /\ QueuesSorted /\ [Next]_vars => QueuesSorted'
<1> SUFFICES ASSUME QueueInv, QueuesSorted, [Next]_vars PROVE QueuesSorted'
  OBVIOUS
<1> USE DEF thread
<1>0. DOMAIN batches = Msgs /\ arrived \in Nat /\ MaxMsgs \in Nat
  BY ConstantsAssumption DEF QueueInv, Plain
<1>1. ASSUME NEW w \in Msgs, NEW b, batches' = [batches EXCEPT ![w] = b], placeOf' = placeOf,
             Sorted(b, placeOf)
      PROVE  QueuesSorted'
  BY <1>0, <1>1 DEF QueuesSorted
<1>2. CASE StartThread
  <2>1. arrived + 1 \in Msgs /\ arrived < MaxMsgs
    BY <1>0, <1>2 DEF StartThread, Msgs
  <2>2. batches' = [batches EXCEPT ![arrived + 1] = Queued(arrived + 1, arrived + 1)]
        /\ placeOf' = placeOf
    BY <1>2 DEF StartThread, Add
  <2> QED BY <1>1, <2>1, <2>2, QueuedIs
<1>3. CASE Join
  <2>1. entry \in Msgs /\ arrived < MaxMsgs
    BY <1>0, <1>3 DEF Join, NeedsWorker, NoEntry, QueueInv, Plain, Msgs
  <2>2. batches' = [batches EXCEPT ![entry] = Queued(entry, arrived + 1)]
        /\ placeOf' = placeOf
    BY <1>3 DEF Join, Add
  <2> QED BY <1>1, <2>1, <2>2, QueuedIs
<1>4. ASSUME NEW w \in Msgs, Take(w) PROVE QueuesSorted'
  <2>1. batches[w] # <<>> /\ batches' = [batches EXCEPT ![w] = Tail(batches[w])]
        /\ placeOf' = placeOf
    BY <1>4 DEF Take
  <2>2. Sorted(Tail(batches[w]), placeOf)
    BY <2>1, QueueHas, SortedTaken DEF QueuesSorted
  <2> QED BY <1>1, <2>1, <2>2
<1>5. ASSUME NEW w \in Msgs, Ripen(w) PROVE QueuesSorted'
  <2>1. PICK i \in DOMAIN batches[w] : batches' = [batches EXCEPT ![w][i].ripe = TRUE]
    BY <1>5 DEF Ripen
  <2>2. batches' = [batches EXCEPT ![w] = [batches[w] EXCEPT ![i].ripe = TRUE]]
        /\ placeOf' = placeOf
    BY <1>5, <2>1 DEF Ripen
  <2>3. Sorted([batches[w] EXCEPT ![i].ripe = TRUE], placeOf)
    BY QueueHas, SortedRipened DEF QueuesSorted
  <2> QED BY <1>1, <2>2, <2>3
<1>6. CASE UNCHANGED <<batches, placeOf>>
  BY <1>6 DEF QueuesSorted
<1>7. ASSUME NEW w \in Msgs,
             Sleep(w) \/ Finish(w) \/ Woken(w) \/ GatherOver(w) \/ IdleOver(w) \/ CtxDone(w)
      PROVE  UNCHANGED <<batches, placeOf>>
  BY <1>7 DEF Sleep, Finish, Woken, GatherOver, IdleOver, CtxDone
<1> QED
  BY <1>2, <1>3, <1>4, <1>5, <1>6, <1>7 DEF Next, Worker, Refuse, EndCtx, vars

\* Every step keeps turns with the workers that run them.
LEMMA StepTurns == QueueInv /\ WorkerHasEntry /\ TurnsRun /\ [Next]_vars => TurnsRun'
<1> SUFFICES ASSUME QueueInv, WorkerHasEntry, TurnsRun, [Next]_vars PROVE TurnsRun'
  OBVIOUS
<1>0. /\ turn \in [Msgs -> SUBSET (1..arrived)]
      /\ pc \in [Msgs -> {"none", "loop", "run", "idle", "gather", "gone"}]
      /\ arrived \in Nat /\ entry \in 0..arrived
  BY ConstantsAssumption DEF QueueInv, Plain
<1>1. CASE StartThread
  <2>1. pc' = [pc EXCEPT ![arrived + 1] = "loop"] /\ turn' = turn /\ entry = 0
    BY <1>1 DEF StartThread, NeedsWorker, NoEntry
  <2>2. arrived + 1 \in Msgs => pc[arrived + 1] # "run"
    BY <1>0, <2>1 DEF WorkerHasEntry, Msgs
  <2> QED BY <1>0, <2>1, <2>2 DEF TurnsRun
<1>2. CASE Join \/ Refuse \/ EndCtx \/ UNCHANGED vars
  BY <1>2 DEF Join, Refuse, EndCtx, vars, TurnsRun
<1>3. ASSUME NEW w \in Msgs, Take(w) PROVE TurnsRun'
  <2>1. batches[w] # <<>> /\ turn' = [turn EXCEPT ![w] = Head(batches[w]).items]
        /\ pc' = [pc EXCEPT ![w] = "run"]
    BY <1>3 DEF Take
  <2>2. Head(batches[w]).items # {}
    BY <2>1, QueueHas, BatchOf
  <2> QED BY <1>0, <2>1, <2>2 DEF TurnsRun
<1>4. ASSUME NEW w \in Msgs, Finish(w) PROVE TurnsRun'
  BY <1>0, <1>4 DEF Finish, TurnsRun
<1>5. ASSUME NEW w \in Msgs,
             Sleep(w) \/ Woken(w) \/ GatherOver(w) \/ IdleOver(w) \/ CtxDone(w)
      PROVE  TurnsRun'
  <2>1. PICK l \in {"idle", "gather", "loop", "gone"} : pc' = [pc EXCEPT ![w] = l]
    BY <1>5 DEF Sleep, Woken, GatherOver, IdleOver, CtxDone
  <2>2. pc[w] # "run" /\ turn' = turn
    BY <1>5 DEF Sleep, Woken, GatherOver, IdleOver, CtxDone
  <2> QED BY <1>0, <2>1, <2>2 DEF TurnsRun
<1>6. ASSUME NEW w \in Msgs, Ripen(w) PROVE TurnsRun'
  BY <1>6 DEF Ripen, TurnsRun
<1> QED BY <1>1, <1>2, <1>3, <1>4, <1>5, <1>6 DEF Next, Worker

\* So every step keeps the invariant.
LEMMA RefineStep == RefineInv /\ [Next]_vars => RefineInv'
  BY QueueStep, StepWorkerHasEntry, StepSorted, StepTurns DEF RefineInv

-----------------------------------------------------------------------------
(* Each step is a step of PlaceQueues or none.                              *)

\* PlaceQueues counts as this module does.
LEMMA SameCount == ASSUME NEW S PROVE Promise!Cardinality(S) = Cardinality(S)
  BY DEF Cardinality, Promise!Cardinality

\* At most one worker's turn is what runs.
LEMMA RunningIs ==
  ASSUME WorkerHasEntry, TurnsRun, NEW w \in Msgs, entry = w
  PROVE  Running = turn[w]
<1>1. \A v \in Msgs : v # w => turn[v] = {}
  BY DEF WorkerHasEntry, TurnsRun
<1> QED BY <1>1 DEF Running

\* A message that is accepted is PlaceQueues's Accept.
LEMMA AcceptStep ==
  ASSUME RefineInv, StartThread \/ Join
  PROVE  Promise!Accept
<1>0. QueueInv /\ QueuesSorted /\ Plain /\ arrived \in Nat /\ MaxWaiting \in Nat \ {0}
  BY ConstantsAssumption DEF RefineInv, QueueInv, Plain
<1>1. CASE StartThread
  <2>1. /\ arrived < MaxMsgs /\ arrived + 1 \in Msgs /\ entry = NoEntry
        /\ entry' = arrived + 1 /\ arrived' = arrived + 1 /\ entry' # NoEntry
        /\ batches' = [batches EXCEPT ![arrived + 1] = Queued(arrived + 1, arrived + 1)]
        /\ UNCHANGED <<placeOf, turn, answered, ended>>
    BY <1>0, <1>1, ConstantsAssumption DEF StartThread, NeedsWorker, Add, Msgs, NoEntry
  <2>2. Items(arrived + 1) = {}
    BY <1>0, <2>1, QueueHas DEF QueueInv, Unused, Msgs
  <2>3. In(batches'[arrived + 1]) = {arrived + 1}
    BY <1>0, <2>1, <2>2, QueuedIs DEF QueueInv
  <2>4. Waits = {} /\ Waits' = {arrived + 1}
    BY <2>1, <2>3 DEF Waits, Items, In
  <2>5. Cardinality(Waits) < MaxWaiting
    BY <1>0, <2>4, FS_EmptySet
  <2>6. Waits' = Waits \cup {arrived + 1} /\ Running' = Running
    BY <2>1, <2>4 DEF Running
  <2> QED BY <2>1, <2>5, <2>6, SameCount DEF Promise!Accept
<1>2. CASE Join
  <2>1. /\ arrived < MaxMsgs /\ entry \in Msgs /\ entry # NoEntry /\ ~Full(entry)
        /\ entry' = entry /\ arrived' = arrived + 1
        /\ batches' = [batches EXCEPT ![entry] = Queued(entry, arrived + 1)]
        /\ UNCHANGED <<placeOf, turn, answered, ended>>
    BY <1>0, <1>2, ConstantsAssumption DEF Join, NeedsWorker, Add, Msgs, NoEntry, Plain
  <2>2. In(batches'[entry]) = Items(entry) \cup {arrived + 1}
    BY <1>0, <2>1, QueuedIs DEF QueueInv
  <2>3. Waits = Items(entry) /\ Waits' = Items(entry) \cup {arrived + 1}
    BY <2>1, <2>2 DEF Waits, Items, In
  <2>4. waiting[entry] = Cardinality(Items(entry)) /\ waiting[entry] \in Nat
    BY <1>0, <2>1, QueueHas
  <2>5. waiting[entry] < MaxWaiting
    BY <1>0, <2>1, <2>4 DEF Full, Idle
  <2>6. Cardinality(Waits) < MaxWaiting /\ Waits' = Waits \cup {arrived + 1}
        /\ Running' = Running
    BY <2>1, <2>3, <2>4, <2>5 DEF Running
  <2> QED BY <2>1, <2>6, SameCount DEF Promise!Accept
<1> QED BY <1>1, <1>2

\* One that is refused finds Max waiting.
LEMMA RefuseStep ==
  ASSUME RefineInv, Refuse
  PROVE  Promise!RefuseFull
<1>0. QueueInv /\ Plain /\ arrived \in Nat /\ MaxWaiting \in Nat \ {0}
  BY ConstantsAssumption DEF RefineInv, QueueInv, Plain
<1>1. /\ entry \in Msgs /\ entry # NoEntry /\ Full(entry) /\ arrived' = arrived + 1
      /\ UNCHANGED <<placeOf, entry, batches, turn, answered, ended>>
  BY <1>0, ConstantsAssumption DEF Refuse, NeedsWorker, NoEntry, Plain, Msgs, thread
<1>2. waiting[entry] = Cardinality(Items(entry)) /\ waiting[entry] \in Nat
      /\ waiting[entry] <= MaxWaiting
  BY <1>0, <1>1, QueueHas
<1>3. Cardinality(Waits) = MaxWaiting
  BY <1>0, <1>1, <1>2 DEF Full, Waits
<1>4. Waits' = Waits /\ Running' = Running
  BY <1>1 DEF Waits, Items, Running
<1> QED BY <1>1, <1>3, <1>4, SameCount DEF Promise!RefuseFull

\* A batch that is taken is a turn of its place, oldest first.
LEMMA TakeStep ==
  ASSUME RefineInv, NEW w \in Msgs, Take(w)
  PROVE  Promise!StartTurn
<1> DEFINE h == Head(batches[w]).items
<1>0. QueueInv /\ QueuesSorted /\ WorkerHasEntry /\ TurnsRun
  BY DEF RefineInv
<1>1. /\ pc[w] = "loop" /\ batches[w] # <<>> /\ batches' = [batches EXCEPT ![w] = Tail(batches[w])]
      /\ turn' = [turn EXCEPT ![w] = h]
      /\ UNCHANGED <<placeOf, arrived, entry, answered, ended>>
  BY DEF Take
<1>2. entry = w /\ w # NoEntry /\ turn[w] = {} /\ Running = {}
  BY <1>0, <1>1, RunningIs DEF WorkerHasEntry, TurnsRun, Msgs, NoEntry
<1>3. Running' = h
  <2>1. \A v \in Msgs : v # w => turn[v] = {}
    BY <1>0, <1>2 DEF WorkerHasEntry, TurnsRun
  <2>2. turn'[w] = h /\ \A v \in Msgs : v # w => turn'[v] = {}
    BY <1>0, <1>1, <2>1 DEF QueueInv, Plain
  <2> HIDE DEF h
  <2> QED BY <2>2 DEF Running
<1>4. /\ Holds(batches[w], arrived, waiting[w]) /\ arrived \in Nat
      /\ Sorted(batches[w], placeOf) /\ Items(w) = In(batches[w])
  BY <1>0, QueueHas DEF QueuesSorted
<1>5. TurnOf(h, In(batches[w]), placeOf)
  BY <1>1, <1>4, SortedTaken
<1>6. In(Tail(batches[w])) = In(batches[w]) \ h
  BY <1>1, <1>4, HoldsTaken
<1>7. Waits = In(batches[w]) /\ Waits' = In(batches[w]) \ h
  <2>1. batches'[w] = Tail(batches[w])
    BY <1>0, <1>1 DEF QueueInv
  <2>2. Items(w)' = In(batches'[w])
    BY DEF Items, In
  <2>3. Waits = Items(w) /\ Waits' = Items(w)'
    BY <1>1, <1>2 DEF Waits
  <2> QED BY <1>4, <1>6, <2>1, <2>2, <2>3
<1> HIDE DEF h
<1>8. /\ Running = {} /\ Running' # {} /\ Running' \subseteq Waits
      /\ \E m \in Running' : \A n \in Waits : m <= n
      /\ \A m \in Running', n \in Waits :
           /\ n \in Running' => placeOf[n] = placeOf[m]
           /\ placeOf[n] = placeOf[m] /\ n < m => n \in Running'
      /\ Waits' = Waits \ Running'
  BY <1>2, <1>3, <1>5, <1>7 DEF TurnOf
<1> QED BY <1>1, <1>8 DEF Promise!StartTurn

\* A turn that returns is finished.
LEMMA FinishStep ==
  ASSUME RefineInv, NEW w \in Msgs, Finish(w)
  PROVE  Promise!FinishTurn
<1>0. QueueInv /\ WorkerHasEntry /\ TurnsRun
  BY DEF RefineInv
<1>1. /\ pc[w] = "run" /\ turn' = [turn EXCEPT ![w] = {}] /\ answered' = answered \cup turn[w]
      /\ UNCHANGED <<placeOf, arrived, entry, batches, ended>>
  BY DEF Finish
<1>2. entry = w /\ turn[w] # {} /\ Running = turn[w]
  BY <1>0, <1>1, RunningIs DEF WorkerHasEntry, TurnsRun
<1>3. \A v \in Msgs : turn'[v] = {}
  BY <1>0, <1>1, <1>2 DEF WorkerHasEntry, TurnsRun, QueueInv, Plain
<1>4. Running' = {} /\ Waits' = Waits
  BY <1>1, <1>3 DEF Running, Waits, Items
<1> QED BY <1>1, <1>2, <1>4 DEF Promise!FinishTurn

\* Sleeping, waking, ripening and an idle worker that retires are nothing to
\* PlaceQueues.
LEMMA StutterStep ==
  ASSUME RefineInv, NEW w \in Msgs,
         Sleep(w) \/ Woken(w) \/ GatherOver(w) \/ IdleOver(w) \/ Ripen(w)
  PROVE  UNCHANGED Promise!qvars
<1>0. QueueInv /\ WorkerHasEntry /\ arrived \in Nat
  BY ConstantsAssumption DEF RefineInv, QueueInv, Plain
<1>1. UNCHANGED <<placeOf, arrived, turn, answered, ended>>
  BY DEF Sleep, Woken, GatherOver, IdleOver, Ripen, thread
<1>2. Waits' = Waits
  <2>1. CASE Sleep(w) \/ Woken(w) \/ GatherOver(w)
    BY <2>1 DEF Sleep, Woken, GatherOver, thread, Waits, Items
  <2>2. CASE IdleOver(w)
    <3>1. entry = w /\ w # NoEntry /\ UNCHANGED <<batches, waiting>>
      BY <1>0, <2>2 DEF IdleOver, thread, WorkerHasEntry, Msgs, NoEntry
    <3>2. CASE MayRetire(w)
      <4>1. waiting[w] = 0 /\ entry' = NoEntry
        BY <2>2, <3>2 DEF IdleOver, MayRetire
      <4>2. Items(w) = {}
        BY <1>0, <4>1, QueueHas
      <4> QED BY <3>1, <4>1, <4>2 DEF Waits
    <3>3. CASE ~MayRetire(w)
      BY <2>2, <3>1, <3>3 DEF IdleOver, Waits, Items
    <3> QED BY <3>2, <3>3
  <2>3. CASE Ripen(w)
    <3>1. PICK i \in DOMAIN batches[w] : batches' = [batches EXCEPT ![w][i].ripe = TRUE]
      BY <2>3 DEF Ripen
    <3>2. entry' = entry
          /\ batches' = [batches EXCEPT ![w] = [batches[w] EXCEPT ![i].ripe = TRUE]]
      BY <2>3, <3>1 DEF Ripen
    <3>3. In([batches[w] EXCEPT ![i].ripe = TRUE]) = In(batches[w])
      BY <1>0, QueueHas, HoldsRipened
    <3>4. \A v \in Msgs : In(batches'[v]) = In(batches[v])
      BY <1>0, <3>2, <3>3 DEF QueueInv
    <3>5. entry \in Msgs \cup {NoEntry}
      BY <1>0, ConstantsAssumption DEF QueueInv, Plain, Msgs, NoEntry
    <3>6. \A v \in Msgs : Items(v)' = Items(v)
      BY <3>4 DEF Items, In
    <3> QED BY <3>2, <3>5, <3>6 DEF Waits
  <2> QED BY <2>1, <2>2, <2>3
<1>3. Running' = Running
  BY <1>1 DEF Running
<1> QED BY <1>1, <1>2, <1>3 DEF Promise!qvars

\* A worker whose relay ends drops what waits.
LEMMA CtxDoneStep ==
  ASSUME RefineInv, NEW w \in Msgs, CtxDone(w)
  PROVE  Promise!Drop
<1>1. ended /\ entry' = NoEntry /\ UNCHANGED <<placeOf, arrived, turn, answered, ended>>
  BY DEF CtxDone
<1>2. Waits' = {} /\ Running' = Running
  BY <1>1 DEF Waits, Running
<1> QED BY <1>1, <1>2 DEF Promise!Drop

\* The relay ends.
LEMMA EndStep ==
  ASSUME EndCtx
  PROVE  Promise!Finish
<1>1. ended' = TRUE /\ UNCHANGED <<placeOf, arrived, entry, batches, turn, answered>>
  BY DEF EndCtx, thread
<1>2. Waits' = Waits /\ Running' = Running
  BY <1>1 DEF Waits, Items, Running
<1> QED BY <1>1, <1>2 DEF Promise!Finish

\* The turn queue keeps its promise: at most Max messages wait, one turn runs at a
\* time and answers messages of one place in the order they came, the one that
\* waited longest among them, and none is dropped while the relay lives.
THEOREM ImplementsAlways == Spec => ImplementsPlaceQueues
<1>1. Init => Promise!QInit
  <2> SUFFICES ASSUME Init PROVE Promise!QInit
    OBVIOUS
  <2>1. Waits = {} /\ Running = {}
    BY DEF Init, Waits, Running
  <2> QED BY <2>1 DEF Init, Promise!QInit
<1>2. RefineInv /\ [Next]_vars => [Promise!QNext]_(Promise!qvars)
  <2> SUFFICES ASSUME RefineInv, [Next]_vars PROVE [Promise!QNext]_(Promise!qvars)
    OBVIOUS
  <2>1. CASE StartThread \/ Join
    BY <2>1, AcceptStep DEF Promise!QNext
  <2>2. CASE Refuse
    BY <2>2, RefuseStep DEF Promise!QNext
  <2>3. CASE EndCtx
    BY <2>3, EndStep DEF Promise!QNext
  <2>4. ASSUME NEW w \in Msgs, Worker(w) \/ Ripen(w)
        PROVE  [Promise!QNext]_(Promise!qvars)
    <3>1. CASE Take(w)
      BY <3>1, TakeStep DEF Promise!QNext
    <3>2. CASE Finish(w)
      BY <3>2, FinishStep DEF Promise!QNext
    <3>3. CASE CtxDone(w)
      BY <3>3, CtxDoneStep DEF Promise!QNext
    <3>4. CASE Sleep(w) \/ Woken(w) \/ GatherOver(w) \/ IdleOver(w) \/ Ripen(w)
      BY <3>4, StutterStep
    <3> QED BY <2>4, <3>1, <3>2, <3>3, <3>4 DEF Worker
  <2>5. CASE UNCHANGED vars
    BY <2>5 DEF vars, thread, Promise!qvars, Waits, Items, Running
  <2> QED BY <2>1, <2>2, <2>3, <2>4, <2>5 DEF Next
<1>3. RefineInv /\ [Next]_vars => RefineInv'
  BY RefineStep
<1> QED
  BY <1>1, <1>2, <1>3, RefineInit, PTL DEF Spec, ImplementsPlaceQueues, Promise!QSpec
=============================================================================

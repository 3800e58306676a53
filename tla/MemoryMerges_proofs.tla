-------------------------- MODULE MemoryMerges_proofs --------------------------
(***************************************************************************)
(* Proofs about the merging of memories, for any number of rows, folds,    *)
(* undos, edits and open transactions.                                     *)
(*                                                                         *)
(* A survivor is locked from a fold's reads to its writes, so it is still  *)
(* active when the fold commits (SurvivorsAreActive): FactsAreKept needs   *)
(* no more.  TextIsEmbedded has to be said of what undo would bring back,  *)
(* too (PriorIsEmbedded).  UndoneIsAsBefore needs the history: the standing*)
(* events on a memory form a chain from the row as created to the row as it*)
(* is, each having found what the one before it left (Chained).            *)
(* StandsForItsGroup follows from the same chains: a chain of counts adds  *)
(* up to the sum over its events (ChainAddsUp), by induction on the number *)
(* of events, as a least counterexample.                                   *)
(***************************************************************************)
EXTENDS MemoryMerges, FiniteSetTheorems, WellFoundedInduction, TLAPS

There == {"active", "inactive"}
Labels == {"user", "external"}
PartialFcn(S) == UNION {[D -> S] : D \in SUBSET Memories}

Patches == ({"text"} \X Wordings) \cup ({"status"} \X There)
             \cup ({"starred"} \X BOOLEAN) \cup ({"origin"} \X Labels)

\* The records a transaction and an event are.
FoldTx == [op : {"fold"}, into : Memories, saw : PartialFcn([status : There, origin : Labels]),
           external : BOOLEAN, added : Nat, text : Texts, embedded : BOOLEAN]
UndoTx == [op : {"undo"}, of : Nat]
EditTx == [op : {"edit"}, of : Memories, row : Row, field : {"text", "status", "starred", "origin"},
           value : Wordings \cup There \cup BOOLEAN \cup Labels]
EmbedTx == [op : {"embed"}, of : Memories, text : Texts]

EventRecords ==
  [into : Memories, prior : PartialFcn(There), rewritten : BOOLEAN, text : Texts,
   priorText : Texts, priorVec : Texts \cup {NoVec}, priorCount : Nat, relabelled : BOOLEAN,
   external : BOOLEAN, added : Nat, reverted : BOOLEAN]

TxOK(t) ==
  \/ tx[t] = Idle
  \/ tx[t] \in FoldTx /\ tx[t].into \notin DOMAIN tx[t].saw
  \/ tx[t] \in UndoTx /\ tx[t].of \in DOMAIN events
  \/ tx[t] \in EditTx /\ tx[t].row.status \in There /\ <<tx[t].field, tx[t].value>> \in Patches
  \/ tx[t] \in EmbedTx

TypeInv ==
  /\ mem \in [Memories -> Row] /\ born \in [Memories -> Row]
  /\ \A m \in Memories : mem[m].vec # NoVec => Exists(m)
  /\ edited \subseteq tangled /\ tangled \subseteq Memories /\ lost \subseteq edited
  /\ events \in Seq(EventRecords)
  /\ DOMAIN tx = Threads
  /\ \A t \in Threads : TxOK(t)

\* A survivor of an open fold is active.
SurvivorsAreActive ==
  \A t \in Threads : tx[t].op = "fold" => mem[tx[t].into].status = "active"

Shape == TypeInv /\ SurvivorsAreActive

\* Only the user deletes.
DeletedAreEdited == \A m \in Memories : mem[m].status = "deleted" => m \in edited

\* The wording an undo may bring back has its own embedding.
PriorIsEmbedded ==
  \A i \in DOMAIN events :
    events[i].priorVec \in {NoVec, events[i].priorText} \/ events[i].into \in lost
-----------------------------------------------------------------------------

\* A row with one field changed is a row.
LEMMA RowPatched ==
  ASSUME NEW row \in Row,
         NEW status \in {"unborn", "active", "inactive", "deleted"}, NEW text \in Texts,
         NEW vec \in Texts \cup {NoVec}, NEW count \in Nat, NEW origin \in Labels, NEW starred \in BOOLEAN
  PROVE  [row EXCEPT !.status = status, !.text = text, !.vec = vec, !.count = count,
                     !.origin = origin, !.starred = starred] \in Row
BY DEF Row, Labels

\* A thread's transaction ends, and no transaction depends on a shorter history.
LEMMA ClosedOK ==
  ASSUME TypeInv, NEW t \in Threads, Close(t), events \in Seq(EventRecords), events' \in Seq(EventRecords),
         DOMAIN events \subseteq DOMAIN events'
  PROVE  DOMAIN tx' = Threads /\ \A u \in Threads : TxOK(u)'
BY DEF TypeInv, TxOK, Close, Idle

\* A transaction is opened.
LEMMA OpenedOK ==
  ASSUME TypeInv, NEW t \in Threads, NEW x, Open(t, x), UNCHANGED events,
         \/ x \in FoldTx /\ x.into \notin DOMAIN x.saw
         \/ x \in UndoTx /\ x.of \in DOMAIN events
         \/ x \in EditTx /\ x.row.status \in There /\ <<x.field, x.value>> \in Patches
         \/ x \in EmbedTx
  PROVE  DOMAIN tx' = Threads /\ \A u \in Threads : TxOK(u)'
BY DEF TypeInv, TxOK, Open, Idle

LEMMA InitShape == Init => Shape
<1> SUFFICES ASSUME Init PROVE Shape
  OBVIOUS
<1>1. mem \in [Memories -> Row]
  <2>1. PICK label \in [Stored -> Labels] :
          mem = [m \in Memories |->
                   IF m \in Stored THEN [NewRow(m, "active", label[m]) EXCEPT !.vec = m]
                   ELSE NewRow(m, "unborn", "user")]
    BY DEF Init, Labels
  <2>2. ASSUME NEW m \in Stored PROVE [NewRow(m, "active", label[m]) EXCEPT !.vec = m] \in Row
    <3>1. m \in Texts /\ label[m] \in Labels
      BY <2>1, ConstantsAssumption DEF Texts
    <3> QED
      BY <3>1 DEF NewRow, Row, Labels
  <2>3. ASSUME NEW m \in Memories PROVE NewRow(m, "unborn", "user") \in Row
    BY DEF NewRow, Row, Texts
  <2> QED
    BY <2>1, <2>2, <2>3
<1>2. \A m \in Memories : mem[m].vec # NoVec => Exists(m)
  BY ConstantsAssumption DEF Init, NewRow, Exists
<1> QED
  BY <1>1, <1>2 DEF Init, Shape, TypeInv, TypeOK, TxOK, SurvivorsAreActive, Idle

\* The rows of an event, and what it says of them.
LEMMA EventIs ==
  ASSUME NEW e \in EventRecords
  PROVE  /\ Members(e) \subseteq Memories
         /\ \A m \in DOMAIN e.prior : e.prior[m] \in There
BY DEF EventRecords, PartialFcn, Members

\* What each kind of transaction is called.
LEMMA Ops ==
  /\ \A x \in FoldTx : x.op = "fold" /\ x.into \in Memories
  /\ \A x \in UndoTx : x.op = "undo"
  /\ \A x \in EditTx : x.op = "edit" /\ x.of \in Memories /\ x.row \in Row
  /\ \A x \in EmbedTx : x.op = "embed" /\ x.of \in Memories /\ x.text \in Texts
<1>1. \A x \in FoldTx : x.op = "fold" /\ x.into \in Memories
  BY DEF FoldTx
<1>2. \A x \in UndoTx : x.op = "undo"
  BY DEF UndoTx
<1>3. \A x \in EditTx : x.op = "edit" /\ x.of \in Memories /\ x.row \in Row
  BY DEF EditTx
<1>4. \A x \in EmbedTx : x.op = "embed" /\ x.of \in Memories /\ x.text \in Texts
  BY DEF EmbedTx
<1> QED
  BY <1>1, <1>2, <1>3, <1>4

LEMMA OpOf ==
  ASSUME NEW t \in Threads, TxOK(t)
  PROVE  /\ tx[t].op \in {"none", "fold", "undo", "edit", "embed"}
         /\ tx[t].op = "fold" => tx[t] \in FoldTx /\ tx[t].into \in Memories /\ tx[t].into \notin DOMAIN tx[t].saw
         /\ tx[t].op = "undo" => tx[t].of \in DOMAIN events
         /\ tx[t].op = "edit" => /\ tx[t] \in EditTx /\ tx[t].of \in Memories /\ tx[t].row \in Row
                                 /\ tx[t].row.status \in There /\ <<tx[t].field, tx[t].value>> \in Patches
         /\ tx[t].op = "embed" => tx[t].of \in Memories /\ tx[t].text \in Texts
<1>1. CASE tx[t] = Idle
  BY <1>1 DEF Idle
<1>2. CASE tx[t] \in FoldTx /\ tx[t].into \notin DOMAIN tx[t].saw
  BY <1>2, Ops
<1>3. CASE tx[t] \in UndoTx /\ tx[t].of \in DOMAIN events
  BY <1>3, Ops
<1>4. CASE tx[t] \in EditTx /\ tx[t].row.status \in There /\ <<tx[t].field, tx[t].value>> \in Patches
  BY <1>4, Ops
<1>5. CASE tx[t] \in EmbedTx
  BY <1>5, Ops
<1> QED
  BY <1>1, <1>2, <1>3, <1>4, <1>5 DEF TxOK

LEMMA TypeInvImplies == TypeInv => TypeOK
<1> SUFFICES ASSUME TypeInv PROVE TypeOK
  OBVIOUS
<1>1. \A i \in DOMAIN events : Members(events[i]) \subseteq Memories
  <2>1. ASSUME NEW i \in DOMAIN events PROVE events[i] \in EventRecords
    BY DEF TypeInv
  <2> QED
    BY <2>1, EventIs
<1>2. \A t \in Threads : tx[t].op \in {"none", "fold", "undo", "edit", "embed"}
  BY OpOf DEF TypeInv
<1> QED
  BY <1>1, <1>2 DEF TypeInv, TypeOK

\* Nobody retires the survivor of an open fold.
LEMMA SurvivorsKept ==
  ASSUME Shape, \A m \in Memories : mem'[m].status = mem[m].status \/ ~Locked(m),
         \A u \in Threads : tx'[u].op = "fold" => tx'[u] = tx[u]
  PROVE  SurvivorsAreActive'
<1> SUFFICES ASSUME NEW u \in Threads, tx'[u].op = "fold" PROVE mem'[tx[u].into].status = "active"
  BY DEF SurvivorsAreActive
<1>1. tx[u].op = "fold" /\ mem[tx[u].into].status = "active"
  BY DEF Shape, SurvivorsAreActive
<1>2. tx[u].into \in Memories
  BY <1>1, OpOf DEF Shape, TypeInv
<1>3. Locked(tx[u].into)
  BY <1>1 DEF Locked
<1> QED
  BY <1>1, <1>2, <1>3

\* When no row changes, what is opened or closed decides.
LEMMA RowsUnchanged ==
  ASSUME Shape, UNCHANGED <<mem, events, born, edited, tangled, lost>>,
         DOMAIN tx' = Threads, \A t \in Threads : TxOK(t)', SurvivorsAreActive'
  PROVE  Shape'
BY DEF Shape, TypeInv, Exists

\* One row takes a new value.
LEMMA PutRow ==
  ASSUME TypeInv, NEW m \in Memories, NEW row \in Row, mem' = [mem EXCEPT ![m] = row],
         row.vec # NoVec => row.status \in There
  PROVE  mem' \in [Memories -> Row] /\ \A n \in Memories : (mem[n].vec # NoVec => Exists(n))'
BY DEF TypeInv, Exists, There

\* A survivor after a fold, the fold's event, a survivor after its undo and a row
\* after an edit.
LEMMA FoldedOK ==
  ASSUME NEW row \in Row, NEW f \in FoldTx
  PROVE  Folded(row, f) \in Row /\ Folded(row, f).status = row.status
<1>1. /\ f.text \in Texts /\ f.added \in Nat /\ f.external \in BOOLEAN
  BY DEF FoldTx
<1>2. Tally(row) \in Nat
  BY DEF Tally, Row
<1> DEFINE count == Tally(row) + f.added
           origin == IF f.external THEN "external" ELSE row.origin
           text == IF Rewrites(row, f) THEN f.text ELSE row.text
           vec == IF Rewrites(row, f) THEN f.text ELSE row.vec
<1>3. count \in Nat /\ origin \in {"user", "external"} /\ text \in Texts /\ vec \in Texts \cup {NoVec}
  BY <1>1, <1>2 DEF Row
<1>4. Folded(row, f) = [row EXCEPT !.count = count, !.origin = origin, !.text = text, !.vec = vec]
  BY DEF Folded, Row
<1> HIDE DEF count, origin, text, vec
<1> QED
  BY <1>3, <1>4 DEF Row

LEMMA EventOK ==
  ASSUME NEW row \in Row, NEW f \in FoldTx
  PROVE  Event(row, f) \in EventRecords
<1>1. /\ f.text \in Texts /\ f.added \in Nat /\ f.external \in BOOLEAN /\ f.embedded \in BOOLEAN
      /\ f.into \in Memories
  BY DEF FoldTx
<1>2. row.text \in Texts /\ row.vec \in Texts \cup {NoVec} /\ row.count \in Nat /\ row.starred \in BOOLEAN
  BY DEF Row
<1>3. Folded(row, f).text \in Texts
  BY FoldedOK DEF Row
<1>4. [m \in DOMAIN f.saw |-> f.saw[m].status] \in PartialFcn(There)
  <2>1. PICK D \in SUBSET Memories : f.saw \in [D -> [status : There, origin : Labels]]
    BY DEF FoldTx, PartialFcn
  <2>2. [m \in D |-> f.saw[m].status] \in [D -> There]
    BY <2>1
  <2> QED
    BY <2>1, <2>2 DEF PartialFcn
<1>5. Rewrites(row, f) \in BOOLEAN
  BY <1>1, <1>2 DEF Rewrites
<1> QED
  BY <1>1, <1>2, <1>3, <1>4, <1>5 DEF Event, EventRecords

LEMMA RestoredOK ==
  ASSUME NEW row \in Row, NEW e \in EventRecords
  PROVE  Restored(row, e) \in Row /\ Restored(row, e).status = row.status
<1>1. e.priorText \in Texts /\ e.priorVec \in Texts \cup {NoVec} /\ e.priorCount \in Nat
  BY DEF EventRecords
<1> QED
  BY <1>1 DEF Restored, Row, Texts

LEMMA EditedOK ==
  ASSUME NEW row \in Row, NEW p, p.row \in Row, p.row.status \in There, <<p.field, p.value>> \in Patches
  PROVE  Edited(row, p) \in Row /\ Edited(row, p).status \in There
<1> DEFINE next == [p.row EXCEPT ![p.field] = p.value]
<1>1. next \in Row /\ next.status \in There
  <2>1. CASE p.field = "text" /\ p.value \in Wordings
    BY <2>1 DEF Row, Texts
  <2>2. CASE p.field = "status" /\ p.value \in There
    BY <2>2 DEF Row, There
  <2>3. CASE p.field = "starred" /\ p.value \in BOOLEAN
    BY <2>3 DEF Row
  <2>4. CASE p.field = "origin" /\ p.value \in Labels
    BY <2>4 DEF Row, Labels
  <2> QED
    BY <2>1, <2>2, <2>3, <2>4 DEF Patches
<1>2. next.status \in There /\ next.text \in Texts /\ next.origin \in Labels /\ next.starred \in BOOLEAN
  BY <1>1 DEF Row, Labels
<1> HIDE DEF next
<1>3. Edited(row, p) = [row EXCEPT !.status = next.status, !.text = next.text, !.origin = next.origin,
                                  !.starred = next.starred, !.vec = IF p.field = "text" THEN NoVec ELSE @]
  BY DEF Edited, next
<1> QED
  BY <1>2, <1>3 DEF Row, There, Labels

LEMMA StepShape == Shape /\ [Next]_vars => Shape'
<1> SUFFICES ASSUME Shape, [Next]_vars PROVE Shape'
  OBVIOUS
<1> USE DEF Shape
<1>1. ASSUME NEW m \in Memories, NEW p \in Proposals, CreateMerged(m, p) PROVE Shape'
  <2> DEFINE row == [NewRow(m, "active", p.new) EXCEPT !.vec = m, !.count = IF p.reword THEN 2 ELSE 0]
  <2>1. row \in Row /\ row.status = "active"
    BY <1>1, ConstantsAssumption DEF CreateMerged, NewRow, Row, Texts
  <2>2. mem' = [mem EXCEPT ![m] = row]
    BY <1>1 DEF CreateMerged
  <2>3. mem' \in [Memories -> Row] /\ \A n \in Memories : (mem[n].vec # NoVec => Exists(n))'
    BY <2>1, <2>2, PutRow DEF There
  <2>4. SurvivorsAreActive'
    <3>1. mem[m].status = "unborn" /\ UNCHANGED tx
      BY <1>1 DEF CreateMerged
    <3> QED
      BY <2>1, <2>2, <3>1, OpOf DEF SurvivorsAreActive, TypeInv
  <2>5. born' \in [Memories -> Row]
    BY <1>1, <2>3 DEF CreateMerged, TypeInv
  <2> QED
    BY <1>1, <2>3, <2>4, <2>5 DEF CreateMerged, TypeInv, TxOK
<1>2. ASSUME NEW m \in Memories, CreateByUser(m) PROVE Shape'
  <2> DEFINE row == NewRow(m, "active", "user")
  <2>1. row \in Row /\ row.status = "active"
    BY DEF NewRow, Row, Texts
  <2>2. mem' = [mem EXCEPT ![m] = row]
    BY <1>2 DEF CreateByUser
  <2>3. mem' \in [Memories -> Row] /\ \A n \in Memories : (mem[n].vec # NoVec => Exists(n))'
    BY <2>1, <2>2, PutRow DEF There
  <2>4. SurvivorsAreActive'
    <3>1. mem[m].status = "unborn" /\ UNCHANGED tx
      BY <1>2 DEF CreateByUser
    <3> QED
      BY <2>1, <2>2, <3>1, OpOf DEF SurvivorsAreActive, TypeInv
  <2>5. born' \in [Memories -> Row]
    BY <1>2, <2>3 DEF CreateByUser, TypeInv
  <2> QED
    BY <1>2, <2>3, <2>4, <2>5 DEF CreateByUser, TypeInv, TxOK
<1>3. ASSUME NEW m \in Memories, Delete(m) PROVE Shape'
  <2> DEFINE row == [mem[m] EXCEPT !.status = "deleted", !.vec = NoVec]
  <2>1. row \in Row /\ row.vec = NoVec
    BY ZenonT(40) DEF TypeInv, Row
  <2>2. mem' = [mem EXCEPT ![m] = row]
    BY <1>3 DEF Delete, TypeInv
  <2>3. mem' \in [Memories -> Row] /\ \A n \in Memories : (mem[n].vec # NoVec => Exists(n))'
    BY <2>1, <2>2, PutRow
  <2>4. SurvivorsAreActive'
    <3>1. \A n \in Memories : mem'[n].status = mem[n].status \/ ~Locked(n)
      BY <1>3, <2>2 DEF Delete, TypeInv
    <3> QED
      BY <1>3, <3>1, SurvivorsKept DEF Delete
  <2> QED
    BY <1>3, <2>3, <2>4 DEF Delete, TypeInv, TxOK
<1>4. ASSUME NEW t \in Threads, NEW into \in Memories, NEW from \in SUBSET (Known \ {into}),
             NEW p \in Proposals, NEW w \in Wordings, BeginFold(t, into, from, p, w)
      PROVE Shape'
  <2> DEFINE there == {m \in from : Exists(m)}
             x == [op |-> "fold", into |-> into,
                   saw |-> [m \in there |-> [status |-> mem[m].status, origin |-> mem[m].origin]],
                   external |-> p.new = "external" \/ \E m \in there : mem[m].origin = "external",
                   added |-> Cardinality(from) + (IF p.new = "none" THEN 0 ELSE 1),
                   text |-> IF p.reword THEN w ELSE mem[into].text,
                   embedded |-> p.embedded]
  <2>1. Open(t, x) /\ UNCHANGED <<mem, events, born, edited, tangled, lost>> /\ mem[into].status = "active"
    BY <1>4 DEF BeginFold
  <2>2. from \subseteq Memories /\ into \notin from
    BY DEF Known
  <2>3. x.saw \in PartialFcn([status : There, origin : Labels])
    <3>1. ASSUME NEW m \in there
          PROVE [status |-> mem[m].status, origin |-> mem[m].origin] \in [status : There, origin : Labels]
      <4>1. mem[m] \in Row /\ Exists(m)
        BY <2>2 DEF TypeInv
      <4> QED
        BY <4>1 DEF Row, Exists, There, Labels
    <3>2. x.saw \in [there -> [status : There, origin : Labels]]
      BY <3>1
    <3> QED
      BY <2>2, <3>2 DEF PartialFcn
  <2>4. x.added \in Nat
    <3>1. Cardinality(from) \in Nat
      BY <2>2, ConstantsAssumption, FS_Subset, FS_CardinalityType
    <3> QED
      BY <3>1
  <2>5. x.text \in Texts /\ x.embedded \in BOOLEAN /\ x.external \in BOOLEAN
    BY ConstantsAssumption DEF Texts, TypeInv, Row
  <2>6. x \in FoldTx /\ x.into \notin DOMAIN x.saw
    BY <2>2, <2>3, <2>4, <2>5 DEF FoldTx
  <2>7. DOMAIN tx' = Threads /\ \A u \in Threads : TxOK(u)'
    BY <2>1, <2>6, OpenedOK
  <2>8. SurvivorsAreActive'
    BY <2>1 DEF SurvivorsAreActive, Open, TypeInv
  <2> QED
    BY <2>1, <2>7, <2>8, RowsUnchanged
<1>5. ASSUME NEW t \in Threads, CommitFold(t) PROVE Shape'
  <2> DEFINE f == tx[t]
             from == DOMAIN f.saw
  <2>1. f.op = "fold" /\ f \in FoldTx /\ f.into \in Memories /\ f.into \notin from
    BY <1>5, OpOf DEF CommitFold, TypeInv
  <2>2. from \subseteq Memories
    BY <2>1 DEF FoldTx, PartialFcn
  <2>3. mem' = [m \in Memories |->
                  IF m = f.into THEN Folded(mem[m], f)
                  ELSE IF m \in from /\ Exists(m) THEN [mem[m] EXCEPT !.status = "inactive"]
                  ELSE mem[m]]
    BY <1>5 DEF CommitFold
  <2>4. ASSUME NEW m \in Memories
        PROVE  /\ mem'[m] \in Row
               /\ mem'[m].vec # NoVec => mem'[m].status \in There
               /\ mem'[m].status = mem[m].status \/ ~Locked(m)
    <3>1. mem[m] \in Row /\ (mem[m].vec # NoVec => mem[m].status \in There)
      BY DEF TypeInv, Exists, There
    <3>2. CASE m = f.into
      <4>1. mem[m].status = "active"
        BY <2>1, <3>2 DEF SurvivorsAreActive
      <4>2. Folded(mem[m], f) \in Row /\ Folded(mem[m], f).status = "active"
        BY <2>1, <3>1, <4>1, FoldedOK
      <4> QED
        BY <2>3, <3>2, <4>1, <4>2 DEF There
    <3>3. CASE m # f.into /\ m \in from /\ Exists(m)
      <4>1. mem'[m] = [mem[m] EXCEPT !.status = "inactive"]
        BY <2>3, <3>3
      <4>2. ~Locked(m)
        BY <1>5, <3>3 DEF CommitFold
      <4> QED
        BY <3>1, <4>1, <4>2 DEF Row, There
    <3>4. CASE m # f.into /\ ~(m \in from /\ Exists(m))
      BY <2>3, <3>1, <3>4
    <3> QED
      BY <3>2, <3>3, <3>4
  <2>5. Event(mem[f.into], f) \in EventRecords
    BY <2>1, EventOK DEF TypeInv
  <2>6. events' \in Seq(EventRecords) /\ DOMAIN events \subseteq DOMAIN events'
    BY <1>5, <2>5 DEF CommitFold, TypeInv
  <2>7. DOMAIN tx' = Threads /\ \A u \in Threads : TxOK(u)'
    BY <1>5, <2>6, ClosedOK DEF CommitFold, TypeInv
  <2>8. SurvivorsAreActive'
    <3>1. \A u \in Threads : tx'[u].op = "fold" => tx'[u] = tx[u]
      BY <1>5 DEF CommitFold, Close, Idle, TypeInv
    <3> QED
      BY <2>4, <3>1, SurvivorsKept
  <2>9. tangled' \subseteq Memories /\ tangled \subseteq tangled' /\ UNCHANGED <<born, edited, lost>>
    BY <1>5, <2>1, <2>2 DEF CommitFold, TypeInv
  <2>10. mem' \in [Memories -> Row] /\ \A m \in Memories : (mem[m].vec # NoVec => Exists(m))'
    BY <2>3, <2>4 DEF Exists, There
  <2> QED
    BY <2>6, <2>7, <2>8, <2>9, <2>10 DEF TypeInv
<1>6. ASSUME NEW t \in Threads, NEW i \in DOMAIN events, BeginUndo(t, i) PROVE Shape'
  <2> DEFINE x == [op |-> "undo", of |-> i]
  <2>1. Open(t, x) /\ UNCHANGED <<mem, events, born, edited, tangled, lost>>
    BY <1>6 DEF BeginUndo
  <2>2. x \in UndoTx /\ x.of \in DOMAIN events
    BY DEF UndoTx, TypeInv
  <2>3. DOMAIN tx' = Threads /\ \A u \in Threads : TxOK(u)'
    BY <2>1, <2>2, OpenedOK
  <2>4. SurvivorsAreActive'
    BY <2>1 DEF SurvivorsAreActive, Open, TypeInv
  <2> QED
    BY <2>1, <2>3, <2>4, RowsUnchanged
<1>7. ASSUME NEW t \in Threads, CommitUndo(t) PROVE Shape'
  <2> DEFINE i == tx[t].of
             e == events[i]
  <2>1. i \in DOMAIN events /\ e \in EventRecords
    <3>1. tx[t].op = "undo" /\ TxOK(t)
      BY <1>7 DEF CommitUndo, TypeInv
    <3>2. i \in DOMAIN events
      BY <3>1, OpOf
    <3> QED
      BY <3>2 DEF TypeInv
  <2>2. Members(e) \subseteq Memories /\ (\A m \in DOMAIN e.prior : e.prior[m] \in There) /\ e.into \in Members(e)
    BY <2>1, EventIs DEF Members
  <2>3. mem' = [m \in Memories |->
                  IF m = e.into THEN Restored(mem[m], e)
                  ELSE IF m \in DOMAIN e.prior /\ Exists(m)
                       THEN [mem[m] EXCEPT !.status = e.prior[m]]
                  ELSE mem[m]]
    BY <1>7 DEF CommitUndo, Prior
  <2>4. ASSUME NEW m \in Memories
        PROVE  /\ mem'[m] \in Row
               /\ mem'[m].vec # NoVec => mem'[m].status \in There
               /\ mem'[m].status = mem[m].status \/ ~Locked(m)
    <3>1. mem[m] \in Row /\ (mem[m].vec # NoVec => mem[m].status \in There)
      BY DEF TypeInv, Exists, There
    <3>2. CASE m = e.into
      <4>1. mem[m].status \in There
        BY <1>7, <3>2 DEF CommitUndo, Exists, There
      <4>2. Restored(mem[m], e) \in Row /\ Restored(mem[m], e).status = mem[m].status
        BY <2>1, <3>1, RestoredOK
      <4> QED
        BY <2>3, <3>2, <4>1, <4>2
    <3>3. CASE m # e.into /\ m \in DOMAIN e.prior /\ Exists(m)
      <4>1. mem'[m] = [mem[m] EXCEPT !.status = e.prior[m]] /\ e.prior[m] \in There
        BY <2>2, <2>3, <3>3
      <4>2. ~Locked(m)
        BY <1>7, <3>3 DEF CommitUndo, Members
      <4> QED
        BY <3>1, <4>1, <4>2 DEF Row, There
    <3>4. CASE m # e.into /\ ~(m \in DOMAIN e.prior /\ Exists(m))
      BY <2>3, <3>1, <3>4
    <3> QED
      BY <3>2, <3>3, <3>4
  <2>5. [e EXCEPT !.reverted = TRUE] \in EventRecords
    BY <2>1 DEF EventRecords
  <2>6. events' = [events EXCEPT ![i] = [e EXCEPT !.reverted = TRUE]]
    BY <1>7, <2>1 DEF CommitUndo, TypeInv
  <2>7. events' \in Seq(EventRecords) /\ DOMAIN events \subseteq DOMAIN events'
    BY <2>1, <2>5, <2>6 DEF TypeInv
  <2>8. DOMAIN tx' = Threads /\ \A u \in Threads : TxOK(u)'
    BY <1>7, <2>7, ClosedOK DEF CommitUndo, TypeInv
  <2>9. SurvivorsAreActive'
    <3>1. \A u \in Threads : tx'[u].op = "fold" => tx'[u] = tx[u]
      BY <1>7 DEF CommitUndo, Close, Idle, TypeInv
    <3> QED
      BY <2>4, <3>1, SurvivorsKept
  <2>10. tangled' \subseteq Memories /\ tangled \subseteq tangled' /\ UNCHANGED <<born, edited, lost>>
    <3>1. \A j \in DOMAIN events : events[j] \in EventRecords
      BY DEF TypeInv
    <3>2. \A j \in Above(i) : Members(events[j]) \subseteq Memories
      BY <3>1, EventIs DEF Above
    <3> QED
      BY <1>7, <2>2, <3>2 DEF CommitUndo, TypeInv
  <2>11. mem' \in [Memories -> Row] /\ \A m \in Memories : (mem[m].vec # NoVec => Exists(m))'
    BY <2>3, <2>4 DEF Exists, There
  <2> QED
    BY <2>7, <2>8, <2>9, <2>10, <2>11 DEF TypeInv
<1>8. ASSUME NEW t \in Threads, NEW e \in Edits, BeginEdit(t, e[1], e[2][1], e[2][2]) PROVE Shape'
  <2> DEFINE m == e[1]
             x == [op |-> "edit", of |-> m, row |-> mem[m], field |-> e[2][1], value |-> e[2][2]]
  <2>1. /\ Open(t, x) /\ UNCHANGED <<mem, events, born, edited, tangled, lost>>
        /\ Exists(m)
    BY <1>8 DEF BeginEdit
  <2>2. m \in Memories /\ <<e[2][1], e[2][2]>> \in Patches
    BY ConstantsAssumption DEF Patches, There, Labels
  <2>3. mem[m] \in Row /\ mem[m].status \in There
    BY <2>1, <2>2 DEF TypeInv, Exists, There
  <2>4. /\ e[2][1] \in {"text", "status", "starred", "origin"}
        /\ e[2][2] \in Wordings \cup There \cup BOOLEAN \cup Labels
    BY <2>2 DEF Patches
  <2>5. x \in EditTx /\ x.row.status \in There /\ <<x.field, x.value>> \in Patches
    BY <2>2, <2>3, <2>4 DEF EditTx
  <2>6. DOMAIN tx' = Threads /\ \A u \in Threads : TxOK(u)'
    BY <2>1, <2>5, OpenedOK
  <2>7. SurvivorsAreActive'
    BY <2>1 DEF SurvivorsAreActive, Open, TypeInv
  <2> QED
    BY <2>1, <2>6, <2>7, RowsUnchanged
<1>9. ASSUME NEW t \in Threads, CommitEdit(t) PROVE Shape'
  <2> DEFINE p == tx[t]
             m == p.of
             row == Edited(mem[m], p)
  <2>1. /\ p.op = "edit" /\ p \in EditTx /\ m \in Memories /\ p.row \in Row
        /\ p.row.status \in There /\ <<p.field, p.value>> \in Patches
    BY <1>9, OpOf DEF CommitEdit, TypeInv
  <2>2. row \in Row /\ row.status \in There
    BY <2>1, EditedOK DEF TypeInv
  <2>3. mem' = [mem EXCEPT ![m] = row]
    BY <1>9 DEF CommitEdit
  <2>4. mem' \in [Memories -> Row] /\ \A n \in Memories : (mem[n].vec # NoVec => Exists(n))'
    BY <2>1, <2>2, <2>3, PutRow
  <2>5. events' = events /\ events \in Seq(EventRecords)
    BY <1>9 DEF CommitEdit, TypeInv
  <2>6. DOMAIN tx' = Threads /\ \A u \in Threads : TxOK(u)'
    BY <1>9, <2>5, ClosedOK DEF CommitEdit
  <2>7. SurvivorsAreActive'
    <3>1. \A u \in Threads : tx'[u].op = "fold" => tx'[u] = tx[u]
      BY <1>9 DEF CommitEdit, Close, Idle, TypeInv
    <3>2. \A n \in Memories : mem'[n].status = mem[n].status \/ ~Locked(n)
      BY <1>9, <2>3 DEF CommitEdit, TypeInv
    <3> QED
      BY <3>1, <3>2, SurvivorsKept
  <2>8. edited' \subseteq tangled' /\ tangled' \subseteq Memories /\ lost' \subseteq edited' /\ UNCHANGED born
    BY <1>9, <2>1 DEF CommitEdit, TypeInv
  <2> QED
    BY <2>4, <2>5, <2>6, <2>7, <2>8 DEF TypeInv
<1>10. ASSUME NEW t \in Threads, NEW m \in Memories, BeginEmbed(t, m) PROVE Shape'
  <2> DEFINE x == [op |-> "embed", of |-> m, text |-> mem[m].text]
  <2>1. Open(t, x) /\ UNCHANGED <<mem, events, born, edited, tangled, lost>>
    BY <1>10 DEF BeginEmbed
  <2>2. x \in EmbedTx
    BY DEF EmbedTx, TypeInv, Row
  <2>3. DOMAIN tx' = Threads /\ \A u \in Threads : TxOK(u)'
    BY <2>1, <2>2, OpenedOK
  <2>4. SurvivorsAreActive'
    BY <2>1 DEF SurvivorsAreActive, Open, TypeInv
  <2> QED
    BY <2>1, <2>3, <2>4, RowsUnchanged
<1>11. ASSUME NEW t \in Threads, CommitEmbed(t) PROVE Shape'
  <2> DEFINE p == tx[t]
             m == p.of
             row == [mem[m] EXCEPT !.vec = p.text]
  <2>1. m \in Memories /\ p.text \in Texts
    BY <1>11, OpOf DEF CommitEmbed, TypeInv
  <2>2. mem[m] \in Row /\ mem[m].status \in There
    BY <1>11, <2>1 DEF CommitEmbed, Still, Exists, TypeInv, There
  <2>3. row \in Row /\ row.status = mem[m].status
    BY <2>1, <2>2 DEF Row
  <2>4. mem' = [mem EXCEPT ![m] = row]
    BY <1>11 DEF CommitEmbed, TypeInv
  <2>5. mem' \in [Memories -> Row] /\ \A n \in Memories : (mem[n].vec # NoVec => Exists(n))'
    BY <2>1, <2>2, <2>3, <2>4, PutRow
  <2>6. UNCHANGED <<events, born, edited, tangled, lost>> /\ events \in Seq(EventRecords)
    BY <1>11 DEF CommitEmbed, TypeInv
  <2>7. DOMAIN tx' = Threads /\ \A u \in Threads : TxOK(u)'
    BY <1>11, <2>6, ClosedOK DEF CommitEmbed
  <2>8. SurvivorsAreActive'
    <3>1. \A u \in Threads : tx'[u].op = "fold" => tx'[u] = tx[u]
      BY <1>11 DEF CommitEmbed, Close, Idle, TypeInv
    <3>2. \A n \in Memories : mem'[n].status = mem[n].status \/ ~Locked(n)
      BY <2>3, <2>4 DEF TypeInv
    <3> QED
      BY <3>1, <3>2, SurvivorsKept
  <2> QED
    BY <2>5, <2>6, <2>7, <2>8 DEF TypeInv
<1>12. ASSUME NEW t \in Threads, Fail(t) PROVE Shape'
  <2>1. UNCHANGED <<mem, events, born, edited, tangled, lost>> /\ events \in Seq(EventRecords) /\ Close(t)
    BY <1>12 DEF Fail, TypeInv
  <2>2. DOMAIN tx' = Threads /\ \A u \in Threads : TxOK(u)'
    BY <2>1, ClosedOK
  <2>3. SurvivorsAreActive'
    BY <2>1 DEF SurvivorsAreActive, Close, Idle, TypeInv
  <2> QED
    BY <2>1, <2>2, <2>3, RowsUnchanged
<1>13. CASE UNCHANGED vars
  BY <1>13 DEF vars, TypeInv, SurvivorsAreActive, TxOK, Exists
<1> QED
  BY <1>1, <1>2, <1>3, <1>4, <1>5, <1>6, <1>7, <1>8, <1>9, <1>10, <1>11, <1>12, <1>13 DEF Next

\* Every variable keeps its type, and a row that is not there has no embedding.
THEOREM TypeCorrect == Spec => []TypeOK
<1>1. Shape => TypeOK
  BY TypeInvImplies DEF Shape
<1> QED
  BY InitShape, StepShape, <1>1, PTL DEF Spec

LEMMA ShapeAlways == Spec => []Shape
BY InitShape, StepShape, PTL DEF Spec
-----------------------------------------------------------------------------
(* Content and embedding.                                                   *)

Embedded(row) == row.vec \in {NoVec, row.text}

TextInv == TextIsEmbedded /\ PriorIsEmbedded

\* A fold and an undo put a wording and its embedding into the row together.
LEMMA FoldedIsEmbedded ==
  ASSUME NEW row \in Row, NEW f \in FoldTx, Embedded(row)
  PROVE  Embedded(Folded(row, f))
<1>1. CASE Rewrites(row, f)
  BY <1>1 DEF Folded, Row, Embedded
<1>2. CASE ~Rewrites(row, f)
  BY <1>2 DEF Folded, Row, Embedded
<1> QED
  BY <1>1, <1>2

LEMMA RestoredIsEmbedded ==
  ASSUME NEW row \in Row, NEW e \in EventRecords, Embedded(row), e.priorVec \in {NoVec, e.priorText}
  PROVE  Embedded(Restored(row, e))
<1>1. CASE e.rewritten /\ row.text = e.text
  BY <1>1 DEF Restored, Row, Embedded
<1>2. CASE ~(e.rewritten /\ row.text = e.text)
  BY <1>2 DEF Restored, Row, Embedded
<1> QED
  BY <1>1, <1>2

LEMMA StepTextInv == Shape /\ TextInv /\ [Next]_vars => TextInv'
<1> SUFFICES ASSUME Shape, TextInv, [Next]_vars PROVE TextInv'
  OBVIOUS
<1> USE DEF Shape
<1>1. \A m \in Memories : mem[m] \in Row /\ (Embedded(mem[m]) \/ m \in lost)
  BY DEF TypeInv, TextInv, TextIsEmbedded, Embedded
<1>2. ASSUME lost \subseteq lost', events' = events,
             \A m \in Memories : Embedded(mem'[m]) \/ m \in lost' \/ (mem'[m].vec = mem[m].vec /\ mem'[m].text = mem[m].text)
      PROVE  TextInv'
  BY <1>1, <1>2 DEF TextInv, TextIsEmbedded, PriorIsEmbedded, Embedded
<1>3. ASSUME NEW m \in Memories, NEW p \in Proposals, CreateMerged(m, p) PROVE TextInv'
  <2>1. Embedded(mem'[m]) /\ \A n \in Memories \ {m} : mem'[n] = mem[n]
    BY <1>3 DEF CreateMerged, NewRow, Embedded, TypeInv
  <2> QED
    BY <1>2, <1>3, <2>1 DEF CreateMerged
<1>4. ASSUME NEW m \in Memories, CreateByUser(m) PROVE TextInv'
  <2>1. Embedded(mem'[m]) /\ \A n \in Memories \ {m} : mem'[n] = mem[n]
    BY <1>4 DEF CreateByUser, NewRow, Embedded, TypeInv
  <2> QED
    BY <1>2, <1>4, <2>1 DEF CreateByUser
<1>5. ASSUME NEW m \in Memories, Delete(m) PROVE TextInv'
  <2>1. Embedded(mem'[m]) /\ \A n \in Memories \ {m} : mem'[n] = mem[n]
    BY <1>1, <1>5 DEF Delete, Embedded, TypeInv, Row
  <2> QED
    BY <1>2, <1>5, <2>1 DEF Delete
<1>6. ASSUME NEW t \in Threads, CommitFold(t) PROVE TextInv'
  <2> DEFINE f == tx[t]
             old == mem[f.into]
  <2>1. f \in FoldTx /\ f.into \in Memories
    BY <1>6, OpOf DEF CommitFold, TypeInv
  <2>2. \A m \in Memories : (Embedded(mem'[m]) \/ m \in lost)
    <3>1. Embedded(mem'[f.into]) \/ f.into \in lost
      BY <1>1, <1>6, <2>1, FoldedIsEmbedded DEF CommitFold
    <3>2. ASSUME NEW m \in Memories \ {f.into}
          PROVE  mem'[m].vec = mem[m].vec /\ mem'[m].text = mem[m].text
      BY <1>1, <1>6 DEF CommitFold, Row
    <3> QED
      BY <1>1, <3>1, <3>2 DEF Embedded
  <2>3. events' = Append(events, Event(old, f)) /\ Event(old, f) \in EventRecords /\ events \in Seq(EventRecords)
    BY <1>1, <1>6, <2>1, EventOK DEF CommitFold, TypeInv
  <2>4. Event(old, f).priorVec = old.vec /\ Event(old, f).priorText = old.text /\ Event(old, f).into = f.into
    BY DEF Event
  <2>5. \A i \in DOMAIN events' : events'[i].priorVec \in {NoVec, events'[i].priorText} \/ events'[i].into \in lost
    <3>1. \A i \in DOMAIN events' : (i \in DOMAIN events /\ events'[i] = events[i]) \/ events'[i] = Event(old, f)
      BY <2>3
    <3>2. old.vec \in {NoVec, old.text} \/ f.into \in lost
      BY <1>1, <2>1 DEF Embedded
    <3> QED
      BY <2>4, <3>1, <3>2 DEF TextInv, PriorIsEmbedded
  <2>6. lost' = lost
    BY <1>6 DEF CommitFold
  <2> QED
    BY <2>2, <2>5, <2>6 DEF TextInv, TextIsEmbedded, PriorIsEmbedded, Embedded
<1>7. ASSUME NEW t \in Threads, CommitUndo(t) PROVE TextInv'
  <2> DEFINE i == tx[t].of
             e == events[i]
  <2>1. i \in DOMAIN events /\ e \in EventRecords
    <3>1. tx[t].op = "undo" /\ TxOK(t)
      BY <1>7 DEF CommitUndo, TypeInv
    <3>2. i \in DOMAIN events
      BY <3>1, OpOf
    <3> QED
      BY <3>2 DEF TypeInv
  <2>2. e.into \in Memories
    BY <2>1 DEF EventRecords
  <2>3. \A m \in Memories : (Embedded(mem'[m]) \/ m \in lost)
    <3>1. e.priorVec \in {NoVec, e.priorText} \/ e.into \in lost
      BY <2>1 DEF TextInv, PriorIsEmbedded
    <3>2. Embedded(mem'[e.into]) \/ e.into \in lost
      BY <1>1, <1>7, <2>1, <2>2, <3>1, RestoredIsEmbedded DEF CommitUndo
    <3>3. ASSUME NEW m \in Memories \ {e.into}
          PROVE  mem'[m].vec = mem[m].vec /\ mem'[m].text = mem[m].text
      BY <1>1, <1>7 DEF CommitUndo, Row
    <3> QED
      BY <1>1, <3>2, <3>3 DEF Embedded
  <2>4. events' = [events EXCEPT ![i] = [e EXCEPT !.reverted = TRUE]] /\ lost' = lost
    BY <1>7, <2>1 DEF CommitUndo, TypeInv
  <2>5. /\ [e EXCEPT !.reverted = TRUE].priorVec = e.priorVec
        /\ [e EXCEPT !.reverted = TRUE].priorText = e.priorText
        /\ [e EXCEPT !.reverted = TRUE].into = e.into
    BY <2>1 DEF EventRecords
  <2>6. PriorIsEmbedded'
    BY <2>1, <2>4, <2>5 DEF TextInv, PriorIsEmbedded, TypeInv
  <2> QED
    BY <2>3, <2>4, <2>6 DEF TextInv, TextIsEmbedded, Embedded
<1>8. ASSUME NEW t \in Threads, CommitEdit(t) PROVE TextInv'
  <2> DEFINE p == tx[t]
             m == p.of
  <2>1. /\ p.op = "edit" /\ m \in Memories /\ p.row \in Row
        /\ p.row.status \in There /\ <<p.field, p.value>> \in Patches
    BY <1>8, OpOf DEF CommitEdit, TypeInv
  <2>2. mem' = [mem EXCEPT ![m] = Edited(mem[m], p)] /\ UNCHANGED events /\ lost \subseteq lost'
    BY <1>8 DEF CommitEdit
  <2>3. Embedded(mem'[m]) \/ m \in lost'
    <3>1. CASE p.field = "text"
      BY <1>1, <2>1, <2>2, <3>1 DEF Edited, Embedded, TypeInv, Row
    <3>2. CASE p.field # "text" /\ m \notin lost'
      <4>1. [mem[m] EXCEPT !.vec = NoVec, !.count = 0] = [p.row EXCEPT !.vec = NoVec, !.count = 0]
        BY <1>8, <3>2 DEF CommitEdit
      <4>2. mem[m].text = p.row.text
        BY <1>1, <2>1, <4>1 DEF Row
      <4>3. [p.row EXCEPT ![p.field] = p.value].text = p.row.text
        BY <2>1, <3>2 DEF Row, Patches
      <4>4. mem'[m].text = mem[m].text /\ mem'[m].vec = mem[m].vec
        BY <1>1, <2>1, <2>2, <3>2, <4>2, <4>3 DEF Edited, Row, TypeInv
      <4> QED
        BY <1>1, <2>1, <2>2, <3>2, <4>4 DEF Embedded
    <3> QED
      BY <3>1, <3>2
  <2>4. \A n \in Memories \ {m} : mem'[n] = mem[n]
    BY <2>2 DEF TypeInv
  <2> QED
    BY <1>2, <2>2, <2>3, <2>4
<1>9. ASSUME NEW t \in Threads, CommitEmbed(t) PROVE TextInv'
  <2> DEFINE p == tx[t]
  <2>1. p.of \in Memories /\ mem' = [mem EXCEPT ![p.of].vec = p.text] /\ mem[p.of].text = p.text
    BY <1>9, OpOf DEF CommitEmbed, Still, TypeInv
  <2>2. Embedded(mem'[p.of]) /\ \A n \in Memories \ {p.of} : mem'[n] = mem[n]
    BY <1>1, <2>1 DEF Embedded, TypeInv, Row
  <2> QED
    BY <1>2, <1>9, <2>2 DEF CommitEmbed
<1>10. CASE UNCHANGED <<mem, events, lost>>
  BY <1>2, <1>10
<1> QED
  BY <1>3, <1>4, <1>5, <1>6, <1>7, <1>8, <1>9, <1>10
  DEF Next, BeginFold, BeginUndo, BeginEdit, BeginEmbed, Fail, vars

\* A vector is never of another text than the row's, whatever folds, undos, edits and
\* embeddings overlap, unless an edit wrote over a change it had not read.
THEOREM TextIsEmbeddedAlways == Spec => []TextIsEmbedded
<1>1. Init => TextInv
  <2> SUFFICES ASSUME Init PROVE TextInv
    OBVIOUS
  <2>1. PICK label \in [Stored -> Labels] :
          mem = [m \in Memories |->
                   IF m \in Stored THEN [NewRow(m, "active", label[m]) EXCEPT !.vec = m]
                   ELSE NewRow(m, "unborn", "user")]
    BY DEF Init, Labels
  <2>2. \A m \in Memories : mem[m].vec \in {NoVec, mem[m].text}
    BY <2>1 DEF NewRow
  <2> QED
    BY <2>2 DEF Init, TextInv, TextIsEmbedded, PriorIsEmbedded
<1>2. TextInv => TextIsEmbedded
  BY DEF TextInv
<1> QED
  BY <1>1, <1>2, StepTextInv, ShapeAlways, PTL DEF Spec
-----------------------------------------------------------------------------
(* No fact is lost.                                                         *)

\* What keeps a memory of a group: it is there, or somebody answers for it.
KeptFrom(m, gone) ==
  \/ mem[m].status \in {"unborn", "active"}
  \/ m \in edited
  \/ AbsorbedTwice(m)
  \/ \E i \in Standing : m \in DOMAIN events[i].prior /\ events[i].into \notin gone

NeverItsOwn == \A i \in DOMAIN events : events[i].into \notin DOMAIN events[i].prior

FactsInv == FactsAreKept /\ DeletedAreEdited /\ NeverItsOwn

\* What keeps a memory goes on keeping it while no row or event changes.
LEMMA KeptOn ==
  ASSUME NEW m \in Memories, NEW gone \in SUBSET Memories, KeptFrom(m, gone),
         mem'[m].status = mem[m].status, edited \subseteq edited', events' = events
  PROVE  KeptFrom(m, gone)'
BY DEF KeptFrom, AbsorbedTwice, Standing

LEMMA StepFactsInv == Shape /\ FactsInv /\ [Next]_vars => FactsInv'
<1> SUFFICES ASSUME Shape, FactsInv, [Next]_vars PROVE FactsInv'
  OBVIOUS
<1> USE DEF Shape
<1>1. ASSUME NEW gone \in SUBSET Memories, gone # {} PROVE \E m \in gone : KeptFrom(m, gone)
  BY <1>1 DEF FactsInv, FactsAreKept, KeptFrom
<1>2. ASSUME \A gone \in (SUBSET Memories) \ {{}} : \E m \in gone : KeptFrom(m, gone)', DeletedAreEdited',
             NeverItsOwn'
      PROVE FactsInv'
  BY <1>2 DEF FactsInv, FactsAreKept, KeptFrom, AbsorbedTwice, Standing
<1>3. ASSUME events' = events, edited \subseteq edited',
             \A m \in Memories : \/ mem'[m].status = mem[m].status
                                 \/ mem'[m].status = "active"
                                 \/ m \in edited'
      PROVE FactsInv'
  <2>1. ASSUME NEW gone \in SUBSET Memories, gone # {} PROVE \E m \in gone : KeptFrom(m, gone)'
    <3>1. PICK m \in gone : KeptFrom(m, gone)
      BY <1>1, <2>1
    <3>2. CASE mem'[m].status = mem[m].status
      BY <1>3, <3>1, <3>2, KeptOn
    <3>3. CASE mem'[m].status = "active" \/ m \in edited'
      BY <3>3 DEF KeptFrom
    <3> QED
      BY <1>3, <3>2, <3>3
  <2>2. DeletedAreEdited'
    BY <1>3 DEF DeletedAreEdited, FactsInv
  <2>3. NeverItsOwn'
    BY <1>3 DEF NeverItsOwn, FactsInv
  <2> QED
    BY <1>2, <2>1, <2>2, <2>3
<1>4. ASSUME NEW m \in Memories, NEW p \in Proposals, CreateMerged(m, p) PROVE FactsInv'
  <2>1. mem'[m].status = "active" /\ \A n \in Memories \ {m} : mem'[n] = mem[n]
    BY <1>4 DEF CreateMerged, NewRow, TypeInv
  <2> QED
    BY <1>3, <1>4, <2>1 DEF CreateMerged
<1>5. ASSUME NEW m \in Memories, CreateByUser(m) PROVE FactsInv'
  <2>1. mem'[m].status = "active" /\ \A n \in Memories \ {m} : mem'[n] = mem[n]
    BY <1>5 DEF CreateByUser, NewRow, TypeInv
  <2> QED
    BY <1>3, <1>5, <2>1 DEF CreateByUser
<1>6. ASSUME NEW m \in Memories, Delete(m) PROVE FactsInv'
  <2>1. m \in edited' /\ \A n \in Memories \ {m} : mem'[n] = mem[n]
    BY <1>6 DEF Delete, TypeInv
  <2> QED
    BY <1>3, <1>6, <2>1 DEF Delete
<1>7. ASSUME NEW t \in Threads, CommitFold(t) PROVE FactsInv'
  <2> DEFINE f == tx[t]
             from == DOMAIN f.saw
             e == Event(mem[f.into], f)
             k == Len(events) + 1
  <2>1. f.op = "fold" /\ f \in FoldTx /\ f.into \in Memories /\ f.into \notin from
    BY <1>7, OpOf DEF CommitFold, TypeInv
  <2>2. mem[f.into].status = "active" /\ mem[f.into] \in Row
    BY <2>1 DEF SurvivorsAreActive, TypeInv
  <2>3. mem'[f.into].status = "active"
    BY <1>7, <2>1, <2>2, FoldedOK DEF CommitFold
  <2>4. \A m \in Memories \ {f.into} :
          mem'[m] = IF m \in from /\ Exists(m) THEN [mem[m] EXCEPT !.status = "inactive"] ELSE mem[m]
    BY <1>7 DEF CommitFold
  <2>5. \A m \in Memories \ ({f.into} \cup from) : mem'[m].status = mem[m].status
    BY <2>4
  <2>6. e \in EventRecords /\ events' = Append(events, e) /\ events \in Seq(EventRecords)
    BY <1>7, <2>1, <2>2, EventOK DEF CommitFold, TypeInv
  <2>7. /\ k \in DOMAIN events' /\ events'[k] = e
        /\ \A i \in DOMAIN events : i \in DOMAIN events' /\ events'[i] = events[i]
    BY <2>6
  <2>8. DOMAIN e.prior = from /\ e.into = f.into /\ ~e.reverted
    BY DEF Event
  <2>9. edited' = edited
    BY <1>7 DEF CommitFold
  <2> HIDE DEF k, e
  <2>10. ASSUME NEW gone \in SUBSET Memories, gone # {} PROVE \E m \in gone : KeptFrom(m, gone)'
    <3>1. CASE f.into \in gone
      BY <2>3, <3>1 DEF KeptFrom
    <3>2. CASE f.into \notin gone /\ gone \cap from # {}
      <4>1. PICK m \in gone : m \in from
        BY <3>2
      <4>2. k \in Standing'
        BY <2>7, <2>8 DEF Standing
      <4> QED
        BY <2>7, <2>8, <3>2, <4>1, <4>2 DEF KeptFrom
    <3>3. CASE f.into \notin gone /\ gone \cap from = {}
      <4>1. PICK m \in gone : KeptFrom(m, gone)
        BY <1>1, <2>10
      <4>2. mem'[m].status = mem[m].status
        BY <2>5, <3>3
      <4>3. \A i \in Standing : i \in Standing'
        BY <2>7 DEF Standing
      <4>4. \A i \in Standing : events'[i] = events[i]
        BY <2>7 DEF Standing
      <4>5. AbsorbedTwice(m) => AbsorbedTwice(m)'
        BY <2>7 DEF AbsorbedTwice
      <4> QED
        BY <2>9, <4>1, <4>2, <4>3, <4>4, <4>5 DEF KeptFrom
    <3> QED
      BY <3>1, <3>2, <3>3
  <2>11. DeletedAreEdited'
    <3>1. ASSUME NEW m \in Memories, mem'[m].status = "deleted" PROVE m \in edited
      <4>1. m # f.into
        BY <2>3, <3>1
      <4>2. CASE m \in from /\ Exists(m)
        <5>1. mem'[m] = [mem[m] EXCEPT !.status = "inactive"] /\ mem[m] \in Row
          BY <2>4, <4>1, <4>2 DEF TypeInv
        <5> QED
          BY <3>1, <5>1 DEF Row
      <4>3. CASE ~(m \in from /\ Exists(m))
        BY <2>4, <3>1, <4>1, <4>3 DEF FactsInv, DeletedAreEdited
      <4> QED
        BY <4>2, <4>3
    <3> QED
      BY <2>9, <3>1 DEF DeletedAreEdited
  <2>12. NeverItsOwn'
    <3>1. \A j \in DOMAIN events' : j \in DOMAIN events \/ j = k
      BY <2>6 DEF k
    <3> QED
      BY <2>1, <2>7, <2>8, <3>1 DEF FactsInv, NeverItsOwn
  <2> QED
    BY <1>2, <2>10, <2>11, <2>12
<1>8. ASSUME NEW t \in Threads, CommitUndo(t) PROVE FactsInv'
  <2> DEFINE i == tx[t].of
             e == events[i]
  <2>1. i \in DOMAIN events /\ e \in EventRecords
    <3>1. tx[t].op = "undo" /\ TxOK(t)
      BY <1>8 DEF CommitUndo, TypeInv
    <3>2. i \in DOMAIN events
      BY <3>1, OpOf
    <3> QED
      BY <3>2 DEF TypeInv
  <2>2. e.into \in Memories /\ \A m \in DOMAIN e.prior : e.prior[m] \in There
    BY <2>1, EventIs DEF EventRecords
  <2>3. mem'[e.into].status = mem[e.into].status
    BY <1>8, <2>1, <2>2, RestoredOK DEF CommitUndo, TypeInv
  <2>4. \A m \in Memories \ {e.into} :
          mem'[m] = IF m \in DOMAIN e.prior /\ Exists(m) THEN [mem[m] EXCEPT !.status = e.prior[m]] ELSE mem[m]
    BY <1>8 DEF CommitUndo, Prior
  <2>5. \A m \in Memories : \/ mem'[m].status = mem[m].status
                            \/ Exists(m) /\ m \in DOMAIN e.prior /\ mem'[m].status = e.prior[m]
    <3>1. ASSUME NEW m \in Memories \ {e.into}, m \in DOMAIN e.prior, Exists(m)
          PROVE mem'[m].status = e.prior[m]
      <4>1. mem'[m] = [mem[m] EXCEPT !.status = e.prior[m]] /\ mem[m] \in Row
        BY <2>4, <3>1 DEF TypeInv
      <4> QED
        BY <4>1 DEF Row
    <3> QED
      BY <2>3, <2>4, <3>1
  <2>6. events' = [events EXCEPT ![i] = [e EXCEPT !.reverted = TRUE]] /\ edited' = edited
    BY <1>8, <2>1 DEF CommitUndo, TypeInv
  <2>7. [e EXCEPT !.reverted = TRUE].prior = e.prior /\ [e EXCEPT !.reverted = TRUE].into = e.into
    BY <2>1 DEF EventRecords
  <2>8. /\ DOMAIN events' = DOMAIN events
        /\ \A j \in DOMAIN events : events'[j].prior = events[j].prior /\ events'[j].into = events[j].into
        /\ \A j \in DOMAIN events \ {i} : events'[j] = events[j]
    BY <2>1, <2>6, <2>7 DEF TypeInv
  <2>9. \A m \in Memories : AbsorbedTwice(m) => AbsorbedTwice(m)'
    BY <2>8 DEF AbsorbedTwice
  <2>10. \A m \in Memories : Exists(m) /\ m \in DOMAIN e.prior => mem'[m].status = "active" \/ AbsorbedTwice(m)'
    <3>1. ASSUME NEW m \in Memories, Exists(m), m \in DOMAIN e.prior, m # e.into
          PROVE mem'[m].status = "active" \/ AbsorbedTwice(m)'
      <4>1. mem'[m].status = e.prior[m] /\ e.prior[m] \in There
        <5>1. mem'[m] = [mem[m] EXCEPT !.status = e.prior[m]] /\ mem[m] \in Row
          BY <2>4, <3>1 DEF TypeInv
        <5> QED
          BY <2>2, <3>1, <5>1 DEF Row
      <4>2. e.prior[m] = "inactive" => AbsorbedTwice(m)
        BY <2>1, <3>1 DEF AbsorbedTwice
      <4> QED
        BY <2>9, <4>1, <4>2 DEF There
    <3>2. e.into \notin DOMAIN e.prior
      BY <2>1 DEF FactsInv, NeverItsOwn
    <3> QED
      BY <3>1, <3>2
  <2> HIDE DEF e, i
  <2>11. ASSUME NEW gone \in SUBSET Memories, gone # {} PROVE \E m \in gone : KeptFrom(m, gone)'
    <3>1. PICK m \in gone : KeptFrom(m, gone)
      BY <1>1, <2>11
    <3>2. CASE Exists(m) /\ m \in DOMAIN e.prior
      BY <2>10, <3>2 DEF KeptFrom
    <3>3. CASE ~Exists(m)
      <4>1. mem[m].status = "unborn" \/ m \in edited
        BY <3>3 DEF FactsInv, DeletedAreEdited, TypeInv, Row, Exists
      <4> QED
        BY <2>5, <2>6, <3>3, <4>1 DEF KeptFrom
    <3>4. CASE Exists(m) /\ m \notin DOMAIN e.prior
      <4>1. mem'[m].status = mem[m].status
        BY <2>5, <3>4
      <4>2. \A j \in Standing \ {i} : j \in Standing' /\ events'[j] = events[j]
        BY <2>8 DEF Standing
      <4>3. \A j \in Standing : m \in DOMAIN events[j].prior => j # i
        BY <3>4 DEF e
      <4> QED
        BY <2>6, <2>9, <3>1, <4>1, <4>2, <4>3 DEF KeptFrom
    <3> QED
      BY <3>2, <3>3, <3>4
  <2>12. DeletedAreEdited'
    BY <2>2, <2>5, <2>6 DEF FactsInv, DeletedAreEdited, There
  <2>13. NeverItsOwn'
    BY <2>8 DEF FactsInv, NeverItsOwn
  <2> QED
    BY <1>2, <2>11, <2>12, <2>13
<1>9. ASSUME NEW t \in Threads, CommitEdit(t) PROVE FactsInv'
  <2>1. tx[t].of \in edited' /\ \A n \in Memories \ {tx[t].of} : mem'[n] = mem[n]
    BY <1>9 DEF CommitEdit, TypeInv
  <2> QED
    BY <1>3, <1>9, <2>1 DEF CommitEdit
<1>10. ASSUME NEW t \in Threads, CommitEmbed(t) PROVE FactsInv'
  <2>1. tx[t].of \in Memories
    BY <1>10, OpOf DEF CommitEmbed, TypeInv
  <2>2. \A n \in Memories : mem'[n].status = mem[n].status
    BY <1>10, <2>1 DEF CommitEmbed, TypeInv, Row
  <2> QED
    BY <1>3, <1>10, <2>2 DEF CommitEmbed
<1>11. CASE UNCHANGED <<mem, events, edited>>
  BY <1>3, <1>11
<1> QED
  BY <1>4, <1>5, <1>6, <1>7, <1>8, <1>9, <1>10, <1>11
  DEF Next, BeginFold, BeginUndo, BeginEdit, BeginEmbed, Fail, vars

LEMMA FactsAlways == Spec => []FactsInv
<1>1. Init => FactsInv
  <2> SUFFICES ASSUME Init PROVE FactsInv
    OBVIOUS
  <2>1. PICK label \in [Stored -> Labels] :
          mem = [m \in Memories |->
                   IF m \in Stored THEN [NewRow(m, "active", label[m]) EXCEPT !.vec = m]
                   ELSE NewRow(m, "unborn", "user")]
    BY DEF Init, Labels
  <2>2. \A m \in Memories : mem[m].status \in {"unborn", "active"}
    BY <2>1 DEF NewRow
  <2> QED
    BY <2>2 DEF Init, FactsInv, FactsAreKept, DeletedAreEdited, NeverItsOwn
<1> QED
  BY <1>1, StepFactsInv, ShapeAlways, PTL DEF Spec

\* No fact is lost to folding: in any group of memories one is active, was edited, was
\* absorbed twice, or is stood for by a memory outside the group.
THEOREM FactsAreKeptAlways == Spec => []FactsAreKept
<1>1. FactsInv => FactsAreKept
  BY DEF FactsInv
<1> QED
  BY <1>1, FactsAlways, PTL
-----------------------------------------------------------------------------
(* Undo.  The standing events on a memory form a chain: each found what the *)
(* one before it left, the first what was created, and the memory is as the *)
(* last one left it.  A fold adds to the end of its members' chains, and an *)
(* undo in order takes the end away.                                        *)

\* b, and c in the end, by steps S from bf[i] to af[i].
Chain(S, bf, af, b, c) ==
  /\ S = {} => c = b
  /\ \A i \in S : (\A j \in S : i <= j) => bf[i] = b
  /\ \A i, j \in S : i < j /\ (\A k \in S : k <= i \/ j <= k) => bf[j] = af[i]
  /\ \A i \in S : (\A j \in S : j <= i) => af[i] = c

LEMMA Push ==
  ASSUME NEW S \in SUBSET Nat, NEW k \in Nat, NEW T, NEW bf, NEW af, NEW bg, NEW ag, NEW b, NEW c, NEW d,
         Chain(S, bf, af, b, c), \A i \in S : i < k /\ bg[i] = bf[i] /\ ag[i] = af[i],
         T = S \cup {k}, bg[k] = c, ag[k] = d
  PROVE  Chain(T, bg, ag, b, d)
<1>1. ASSUME NEW i \in T, \A j \in T : i <= j PROVE bg[i] = b
  <2>1. CASE i \in S
    BY <1>1, <2>1 DEF Chain
  <2>2. CASE i = k
    <3>1. S = {}
      BY <1>1, <2>2
    <3> QED
      BY <2>2, <3>1 DEF Chain
  <2> QED
    BY <2>1, <2>2
<1>2. ASSUME NEW i \in T, NEW j \in T, i < j, \A n \in T : n <= i \/ j <= n PROVE bg[j] = ag[i]
  <2>1. i \in S
    BY <1>2
  <2>2. CASE j \in S
    BY <1>2, <2>1, <2>2 DEF Chain
  <2>3. CASE j = k
    <3>1. \A n \in S : n <= i
      BY <1>2, <2>3
    <3>2. af[i] = c
      BY <2>1, <3>1 DEF Chain
    <3> QED
      BY <2>1, <2>3, <3>2
  <2> QED
    BY <2>2, <2>3
<1>3. ASSUME NEW i \in T, \A j \in T : j <= i PROVE ag[i] = d
  <2>1. i = k
    BY <1>3
  <2> QED
    BY <2>1
<1> QED
  BY <1>1, <1>2, <1>3 DEF Chain

LEMMA Pop ==
  ASSUME NEW S \in SUBSET Nat, NEW k \in S, NEW T, NEW bf, NEW af, NEW b, NEW c,
         Chain(S, bf, af, b, c), \A i \in S : i <= k,
         T = S \ {k}
  PROVE  Chain(T, bf, af, b, bf[k])
<1>1. S # {} /\ (T = {} => bf[k] = b)
  BY DEF Chain
<1>2. ASSUME NEW i \in T, \A j \in T : i <= j PROVE bf[i] = b
  <2>1. \A j \in S : i <= j
    BY <1>2
  <2> QED
    BY <2>1 DEF Chain
<1>3. ASSUME NEW i \in T, NEW j \in T, i < j, \A n \in T : n <= i \/ j <= n PROVE bf[j] = af[i]
  <2>1. \A n \in S : n <= i \/ j <= n
    BY <1>3
  <2> QED
    BY <1>3, <2>1 DEF Chain
<1>4. ASSUME NEW i \in T, \A j \in T : j <= i PROVE af[i] = bf[k]
  <2>1. i \in Nat /\ k \in Nat /\ i \in S /\ i # k /\ i <= k
    BY <1>4
  <2>2. i < k /\ \A n \in S : n <= i \/ k <= n
    BY <1>4, <2>1
  <2> QED
    BY <2>2 DEF Chain
<1> QED
  BY <1>1, <1>2, <1>3, <1>4 DEF Chain

\* The memory is as the last event left it.
LEMMA Last ==
  ASSUME NEW S, NEW k \in S, NEW bf, NEW af, NEW b, NEW c, Chain(S, bf, af, b, c), \A i \in S : i <= k
  PROVE  af[k] = c
BY DEF Chain

LEMMA Same ==
  ASSUME NEW S, NEW bf, NEW af, NEW bg, NEW ag, NEW b, NEW c,
         Chain(S, bf, af, b, c), \A i \in S : bg[i] = bf[i] /\ ag[i] = af[i]
  PROVE  Chain(S, bg, ag, b, c)
<1>1. \A i \in S : (\A j \in S : i <= j) => bg[i] = b
  BY DEF Chain
<1>2. \A i, j \in S : i < j /\ (\A k \in S : k <= i \/ j <= k) => bg[j] = ag[i]
  BY DEF Chain
<1> QED
  BY <1>1, <1>2 DEF Chain

LEMMA Nothing ==
  ASSUME NEW bf, NEW af, NEW b
  PROVE  Chain({}, bf, af, b, b)
BY DEF Chain

\* The standing events on m, those that folded into it, and those that labelled it.
On(m) == {i \in Standing : m \in Members(events[i])}
Into(m) == {i \in Standing : events[i].into = m}
Labelling(m) == {i \in Into(m) : events[i].external}

\* What an event found and left.
StatusFound(m) == [i \in DOMAIN events |-> IF m \in DOMAIN events[i].prior THEN events[i].prior[m] ELSE "active"]
StatusLeft(m) == [i \in DOMAIN events |-> IF m \in DOMAIN events[i].prior THEN "inactive" ELSE "active"]
TextFound == [i \in DOMAIN events |-> events[i].priorText]
TextLeft == [i \in DOMAIN events |-> IF events[i].rewritten THEN events[i].text ELSE events[i].priorText]
CountFound == [i \in DOMAIN events |-> events[i].priorCount]
CountLeft == [i \in DOMAIN events |->
                (IF events[i].priorCount = 0 THEN 1 ELSE events[i].priorCount) + events[i].added]
LabelFound == [i \in DOMAIN events |-> IF events[i].relabelled THEN "user" ELSE "external"]
LabelLeft == [i \in DOMAIN events |-> "external"]

StatusChain(m) == Chain(On(m), StatusFound(m), StatusLeft(m), born[m].status, mem[m].status)
TextChain(m) == Chain(Into(m), TextFound, TextLeft, born[m].text, mem[m].text)
CountChain(m) == Chain(Into(m), CountFound, CountLeft, born[m].count, mem[m].count)
LabelChain(m) == Chain(Labelling(m), LabelFound, LabelLeft, born[m].origin, mem[m].origin)

Chained(m) ==
  /\ StatusChain(m) /\ TextChain(m) /\ CountChain(m) /\ LabelChain(m)
  /\ mem[m].starred = born[m].starred

\* A row that is not there was in no fold, and a fold relabels by its group's label.
EventsAreOfRows ==
  /\ \A i \in DOMAIN events : /\ \A m \in Members(events[i]) : mem[m].status # "unborn"
                              /\ events[i].relabelled => events[i].external
  /\ \A t \in Threads : tx[t].op = "fold" => \A m \in DOMAIN tx[t].saw : mem[m].status # "unborn"
  /\ NeverItsOwn

UndoInv == EventsAreOfRows /\ \A m \in Memories \ tangled : Chained(m)

LEMMA UndoInvImplies == Shape /\ UndoInv => UndoneIsAsBefore
<1> SUFFICES ASSUME Shape, UndoInv, NEW m \in Memories \ tangled,
                    \A i \in Standing : m \notin Members(events[i])
             PROVE  [mem[m] EXCEPT !.vec = NoVec] = [born[m] EXCEPT !.vec = NoVec]
  BY DEF UndoneIsAsBefore
<1>1. On(m) = {} /\ Into(m) = {} /\ Labelling(m) = {}
  BY DEF On, Into, Labelling, Members
<1>2. Chained(m)
  BY DEF UndoInv
<1>3. /\ mem[m].status = born[m].status /\ mem[m].text = born[m].text /\ mem[m].count = born[m].count
      /\ mem[m].origin = born[m].origin /\ mem[m].starred = born[m].starred
  BY <1>1, <1>2 DEF Chained, StatusChain, TextChain, CountChain, LabelChain, Chain
<1>4. mem[m] \in Row /\ born[m] \in Row
  BY DEF Shape, TypeInv
<1> QED
  BY <1>3, <1>4 DEF Row

\* The parts of a chain are events, in their order.
LEMMA ChainParts ==
  ASSUME Shape, NEW m \in Memories
  PROVE  /\ On(m) \in SUBSET Nat /\ Into(m) \in SUBSET Nat /\ Labelling(m) \in SUBSET Nat
         /\ Labelling(m) \subseteq Into(m) /\ Into(m) \subseteq On(m) /\ On(m) \subseteq Standing
         /\ Standing \subseteq 1..Len(events)
<1>1. Standing \subseteq 1..Len(events) /\ Len(events) \in Nat
  BY DEF Standing, Shape, TypeInv
<1>2. Labelling(m) \subseteq Into(m) /\ Into(m) \subseteq On(m) /\ On(m) \subseteq Standing
  BY DEF On, Into, Labelling, Members
<1>3. 1..Len(events) \subseteq Nat
  BY <1>1
<1> QED
  BY <1>1, <1>2, <1>3

\* A row that no event or edit touches keeps its chains.
LEMMA ChainedOn ==
  ASSUME Shape, NEW m \in Memories, Chained(m), UNCHANGED events, born'[m] = born[m],
         /\ mem'[m].status = mem[m].status /\ mem'[m].text = mem[m].text /\ mem'[m].count = mem[m].count
         /\ mem'[m].origin = mem[m].origin /\ mem'[m].starred = mem[m].starred
  PROVE  Chained(m)'
BY DEF Chained, StatusChain, TextChain, CountChain, LabelChain, On, Into, Labelling, Standing, Members,
       StatusFound, StatusLeft, TextFound, TextLeft, CountFound, CountLeft, LabelFound, LabelLeft

\* A fold's event ends the chains of its members.
LEMMA ChainedByFold ==
  ASSUME Shape, UndoInv, NEW t \in Threads, CommitFold(t), NEW m \in Memories \ tangled'
  PROVE  Chained(m)'
<1> USE DEF Shape
<1> DEFINE f == tx[t]
           from == DOMAIN f.saw
           e == Event(mem[f.into], f)
           k == Len(events) + 1
<1>1. f.op = "fold" /\ f \in FoldTx /\ f.into \in Memories /\ f.into \notin from
  BY OpOf DEF CommitFold, TypeInv
<1>2. mem[f.into].status = "active" /\ mem[f.into] \in Row
  BY <1>1 DEF SurvivorsAreActive, TypeInv
<1>3. e \in EventRecords /\ events' = Append(events, e) /\ events \in Seq(EventRecords)
  BY <1>1, <1>2, EventOK DEF CommitFold, TypeInv
<1>4. /\ k \in Nat /\ k \in DOMAIN events' /\ events'[k] = e /\ k \notin DOMAIN events
      /\ DOMAIN events' = DOMAIN events \cup {k}
      /\ \A i \in DOMAIN events : events'[i] = events[i] /\ i < k
  BY <1>3
<1>5. DOMAIN e.prior = from /\ e.into = f.into /\ ~e.reverted /\ Members(e) = {f.into} \cup from
  BY DEF Event, Members
<1>6. m \notin tangled /\ Chained(m) /\ UNCHANGED born
  BY DEF CommitFold, UndoInv
<1>7. mem[m] \in Row
  BY DEF TypeInv
<1>8. Standing' = Standing \cup {k} /\ k \notin Standing
  BY <1>4, <1>5 DEF Standing
<1>9. /\ On(m)' = IF m \in Members(e) THEN On(m) \cup {k} ELSE On(m)
      /\ Into(m)' = IF m = f.into THEN Into(m) \cup {k} ELSE Into(m)
      /\ Labelling(m)' = IF m = f.into /\ e.external THEN Labelling(m) \cup {k} ELSE Labelling(m)
  <2>1. \A i \in Standing : events'[i] = events[i]
    BY <1>4 DEF Standing
  <2> HIDE DEF k, e
  <2>2. On(m)' = IF m \in Members(e) THEN On(m) \cup {k} ELSE On(m)
    BY <1>4, <1>8, <2>1 DEF On, Members
  <2>3. Into(m)' = IF m = f.into THEN Into(m) \cup {k} ELSE Into(m)
    BY <1>4, <1>5, <1>8, <2>1 DEF Into
  <2>4. k \notin Into(m) /\ Into(m) \subseteq Standing
    BY <1>8 DEF Into
  <2>5. Labelling(m)' = IF m = f.into /\ e.external THEN Labelling(m) \cup {k} ELSE Labelling(m)
    BY <1>4, <2>1, <2>3, <2>4 DEF Labelling
  <2> QED
    BY <2>2, <2>3, <2>5
<1>10. /\ On(m) \in SUBSET Nat /\ Into(m) \in SUBSET Nat /\ Labelling(m) \in SUBSET Nat
       /\ Labelling(m) \subseteq DOMAIN events /\ Into(m) \subseteq DOMAIN events /\ On(m) \subseteq DOMAIN events
  BY ChainParts, <1>3 DEF Standing
<1>11. \A i \in DOMAIN events : /\ StatusFound(m)'[i] = StatusFound(m)[i] /\ StatusLeft(m)'[i] = StatusLeft(m)[i]
                               /\ TextFound'[i] = TextFound[i] /\ TextLeft'[i] = TextLeft[i]
                               /\ CountFound'[i] = CountFound[i] /\ CountLeft'[i] = CountLeft[i]
                               /\ LabelFound'[i] = LabelFound[i] /\ LabelLeft'[i] = LabelLeft[i]
  BY <1>4 DEF StatusFound, StatusLeft, TextFound, TextLeft, CountFound, CountLeft, LabelFound, LabelLeft
<1>12. /\ StatusFound(m)'[k] = IF m \in from THEN e.prior[m] ELSE "active"
       /\ StatusLeft(m)'[k] = IF m \in from THEN "inactive" ELSE "active"
       /\ TextFound'[k] = e.priorText /\ TextLeft'[k] = IF e.rewritten THEN e.text ELSE e.priorText
       /\ CountFound'[k] = e.priorCount
       /\ CountLeft'[k] = (IF e.priorCount = 0 THEN 1 ELSE e.priorCount) + e.added
       /\ LabelFound'[k] = (IF e.relabelled THEN "user" ELSE "external") /\ LabelLeft'[k] = "external"
  BY <1>4, <1>5 DEF StatusFound, StatusLeft, TextFound, TextLeft, CountFound, CountLeft, LabelFound, LabelLeft
<1>13. k \in Nat /\ On(m) \in SUBSET Nat /\ Into(m) \in SUBSET Nat /\ Labelling(m) \in SUBSET Nat
  BY <1>4, <1>10
<1> QED
  <2>1. CASE m = f.into
    <3>1. mem'[m] = Folded(mem[m], f) /\ mem'[m].status = "active"
      BY <1>1, <1>2, <2>1, FoldedOK DEF CommitFold
    <3>2. StatusChain(m)'
      <4>1. On(m)' = On(m) \cup {k} /\ StatusFound(m)'[k] = mem[m].status /\ StatusLeft(m)'[k] = mem'[m].status
        BY <1>1, <1>2, <1>5, <1>9, <1>12, <2>1, <3>1
      <4> HIDE DEF k
      <4> QED
        <5>1. Chain(On(m), StatusFound(m), StatusLeft(m), born[m].status, mem[m].status)
          BY <1>6 DEF Chained, StatusChain
        <5>2. \A i \in On(m) : i < k /\ StatusFound(m)'[i] = StatusFound(m)[i] /\ StatusLeft(m)'[i] = StatusLeft(m)[i]
          BY <1>4, <1>10, <1>11
        <5>3. On(m) \in SUBSET Nat /\ k \in Nat
          BY <1>13
        <5>4. StatusFound(m)'[k] = mem[m].status /\ StatusLeft(m)'[k] = mem'[m].status
          BY <4>1
        <5>5. Chain(On(m)', StatusFound(m)', StatusLeft(m)', born[m].status, mem'[m].status)
          BY <4>1, <5>1, <5>2, <5>3, <5>4, Push
        <5> QED
          BY <1>6, <4>1, <5>5 DEF StatusChain
    <3>3. TextChain(m)'
      <4>1. e.priorText = mem[m].text /\ mem'[m].text = IF e.rewritten THEN e.text ELSE e.priorText
        BY <1>7, <2>1, <3>1 DEF Event, Folded, Row
      <4>2. Into(m)' = Into(m) \cup {k} /\ TextFound'[k] = mem[m].text /\ TextLeft'[k] = mem'[m].text
        BY <1>9, <1>12, <2>1, <4>1
      <4> HIDE DEF k
      <4> QED
        <5>1. Chain(Into(m), TextFound, TextLeft, born[m].text, mem[m].text)
          BY <1>6 DEF Chained, TextChain
        <5>2. \A i \in Into(m) : i < k /\ TextFound'[i] = TextFound[i] /\ TextLeft'[i] = TextLeft[i]
          BY <1>4, <1>10, <1>11
        <5>3. Into(m) \in SUBSET Nat /\ k \in Nat
          BY <1>13
        <5>4. TextFound'[k] = mem[m].text /\ TextLeft'[k] = mem'[m].text
          BY <4>2
        <5>5. Chain(Into(m)', TextFound', TextLeft', born[m].text, mem'[m].text)
          BY <4>2, <5>1, <5>2, <5>3, <5>4, Push
        <5> QED
          BY <1>6, <4>2, <5>5 DEF TextChain
    <3>4. CountChain(m)'
      <4>1. e.priorCount = mem[m].count /\ e.added = f.added
        BY <2>1 DEF Event
      <4>2. mem'[m].count = (IF mem[m].count = 0 THEN 1 ELSE mem[m].count) + f.added
        BY <1>7, <3>1 DEF Folded, Tally, Row
      <4>3. Into(m)' = Into(m) \cup {k} /\ CountFound'[k] = mem[m].count /\ CountLeft'[k] = mem'[m].count
        BY <1>9, <1>12, <2>1, <4>1, <4>2
      <4> HIDE DEF k
      <4> QED
        <5>1. Chain(Into(m), CountFound, CountLeft, born[m].count, mem[m].count)
          BY <1>6 DEF Chained, CountChain
        <5>2. \A i \in Into(m) : i < k /\ CountFound'[i] = CountFound[i] /\ CountLeft'[i] = CountLeft[i]
          BY <1>4, <1>10, <1>11
        <5>3. Into(m) \in SUBSET Nat /\ k \in Nat
          BY <1>13
        <5>4. CountFound'[k] = mem[m].count /\ CountLeft'[k] = mem'[m].count
          BY <4>3
        <5>5. Chain(Into(m)', CountFound', CountLeft', born[m].count, mem'[m].count)
          BY <4>3, <5>1, <5>2, <5>3, <5>4, Push, SMTT(60)
        <5> QED
          BY <1>6, <4>3, <5>5 DEF CountChain
    <3>5. LabelChain(m)'
      <4>1. e.external = f.external /\ e.relabelled = (f.external /\ mem[m].origin = "user")
        BY <2>1 DEF Event
      <4>2. mem'[m].origin = IF f.external THEN "external" ELSE mem[m].origin
        BY <1>7, <3>1 DEF Folded, Row
      <4>3. CASE f.external
        <5>1. Labelling(m)' = Labelling(m) \cup {k} /\ LabelFound'[k] = mem[m].origin /\ LabelLeft'[k] = mem'[m].origin
          BY <1>7, <1>9, <1>12, <2>1, <4>1, <4>2, <4>3 DEF Row
        <5> HIDE DEF k
        <5> QED
          <6>1. Chain(Labelling(m), LabelFound, LabelLeft, born[m].origin, mem[m].origin)
            BY <1>6 DEF Chained, LabelChain
          <6>2. \A i \in Labelling(m) : i < k /\ LabelFound'[i] = LabelFound[i] /\ LabelLeft'[i] = LabelLeft[i]
            BY <1>4, <1>10, <1>11
          <6>3. Labelling(m) \in SUBSET Nat /\ k \in Nat
            BY <1>13
          <6>4. LabelFound'[k] = mem[m].origin /\ LabelLeft'[k] = mem'[m].origin
            BY <5>1
          <6>5. Chain(Labelling(m)', LabelFound', LabelLeft', born[m].origin, mem'[m].origin)
            BY <5>1, <6>1, <6>2, <6>3, <6>4, Push
          <6> QED
            BY <1>6, <5>1, <6>5 DEF LabelChain
      <4>4. CASE ~f.external
        <5>1. Labelling(m)' = Labelling(m) /\ mem'[m].origin = mem[m].origin
          BY <1>9, <4>1, <4>2, <4>4
        <5> QED
          BY <1>6, <1>10, <1>11, <5>1, Same DEF Chained, LabelChain
      <4> QED
        BY <4>3, <4>4
    <3>6. mem'[m].starred = mem[m].starred
      BY <1>7, <3>1 DEF Folded, Row
    <3> QED
      BY <1>6, <3>2, <3>3, <3>4, <3>5, <3>6 DEF Chained
  <2>2. CASE m # f.into
    <3>1. Into(m)' = Into(m) /\ Labelling(m)' = Labelling(m)
      BY <1>9, <2>2
    <3>2. mem'[m] = IF m \in from /\ Exists(m) THEN [mem[m] EXCEPT !.status = "inactive"] ELSE mem[m]
      BY <2>2 DEF CommitFold
    <3>3. /\ mem'[m].text = mem[m].text /\ mem'[m].count = mem[m].count /\ mem'[m].origin = mem[m].origin
          /\ mem'[m].starred = mem[m].starred
      BY <1>7, <3>2 DEF Row
    <3>4. TextChain(m)'
      BY <1>6, <1>10, <1>11, <3>1, <3>3, Same DEF Chained, TextChain
    <3>5. CountChain(m)'
      BY <1>6, <1>10, <1>11, <3>1, <3>3, Same DEF Chained, CountChain
    <3>6. LabelChain(m)'
      BY <1>6, <1>10, <1>11, <3>1, <3>3, Same DEF Chained, LabelChain
    <3>7. StatusChain(m)'
      <4>1. CASE m \in from
        <5>1. mem[m].status = f.saw[m].status
          BY <4>1 DEF CommitFold
        <5>2. e.prior[m] = mem[m].status
          BY <4>1, <5>1 DEF Event
        <5>3. mem[m].status \in There
          BY <1>3, <1>5, <4>1, <5>2, EventIs
        <5>4. mem'[m].status = "inactive"
          BY <1>7, <3>2, <4>1, <5>3 DEF Exists, There, Row
        <5>5. On(m)' = On(m) \cup {k} /\ StatusFound(m)'[k] = mem[m].status /\ StatusLeft(m)'[k] = mem'[m].status
          BY <1>5, <1>9, <1>12, <4>1, <5>2, <5>4
        <5> HIDE DEF k
        <5> QED
          <6>1. Chain(On(m), StatusFound(m), StatusLeft(m), born[m].status, mem[m].status)
            BY <1>6 DEF Chained, StatusChain
          <6>2. \A i \in On(m) : i < k /\ StatusFound(m)'[i] = StatusFound(m)[i] /\ StatusLeft(m)'[i] = StatusLeft(m)[i]
            BY <1>4, <1>10, <1>11
          <6>3. On(m) \in SUBSET Nat /\ k \in Nat
            BY <1>13
          <6>4. StatusFound(m)'[k] = mem[m].status /\ StatusLeft(m)'[k] = mem'[m].status
            BY <5>5
          <6>5. Chain(On(m)', StatusFound(m)', StatusLeft(m)', born[m].status, mem'[m].status)
            BY <5>5, <6>1, <6>2, <6>3, <6>4, Push
          <6> QED
            BY <1>6, <5>5, <6>5 DEF StatusChain
      <4>2. CASE m \notin from
        <5>1. On(m)' = On(m) /\ mem'[m].status = mem[m].status
          BY <1>5, <1>9, <2>2, <3>2, <4>2
        <5> QED
          BY <1>6, <1>10, <1>11, <5>1, Same DEF Chained, StatusChain
      <4> QED
        BY <4>1, <4>2
    <3> QED
      BY <1>6, <3>3, <3>4, <3>5, <3>6, <3>7 DEF Chained
  <2> QED
    BY <2>1, <2>2

\* An undo in order takes the end of its members' chains away.
LEMMA ChainedByUndo ==
  ASSUME Shape, UndoInv, NEW t \in Threads, CommitUndo(t), NEW m \in Memories \ tangled'
  PROVE  Chained(m)'
<1> USE DEF Shape
<1> DEFINE i == tx[t].of
           e == events[i]
<1>1. i \in DOMAIN events /\ e \in EventRecords
  <2>1. tx[t].op = "undo" /\ TxOK(t)
    BY DEF CommitUndo, TypeInv
  <2>2. i \in DOMAIN events
    BY <2>1, OpOf
  <2> QED
    BY <2>2 DEF TypeInv
<1>2. /\ e.into \in Memories /\ e.into \notin DOMAIN e.prior /\ (e.relabelled => e.external)
      /\ Members(e) = {e.into} \cup DOMAIN e.prior
  BY <1>1 DEF EventRecords, UndoInv, EventsAreOfRows, NeverItsOwn, Members
<1>3. events' = [events EXCEPT ![i] = [e EXCEPT !.reverted = TRUE]]
  BY <1>1 DEF CommitUndo, TypeInv
<1>4. /\ [e EXCEPT !.reverted = TRUE].reverted
      /\ [e EXCEPT !.reverted = TRUE].prior = e.prior /\ [e EXCEPT !.reverted = TRUE].into = e.into
      /\ [e EXCEPT !.reverted = TRUE].rewritten = e.rewritten /\ [e EXCEPT !.reverted = TRUE].text = e.text
      /\ [e EXCEPT !.reverted = TRUE].priorText = e.priorText
      /\ [e EXCEPT !.reverted = TRUE].priorCount = e.priorCount
      /\ [e EXCEPT !.reverted = TRUE].relabelled = e.relabelled
      /\ [e EXCEPT !.reverted = TRUE].external = e.external /\ [e EXCEPT !.reverted = TRUE].added = e.added
  BY <1>1 DEF EventRecords
<1>5. m \notin tangled /\ Chained(m) /\ UNCHANGED born
  BY DEF CommitUndo, UndoInv
<1>6. mem[m] \in Row
  BY DEF TypeInv
<1>7. /\ DOMAIN events' = DOMAIN events
      /\ \A j \in DOMAIN events \ {i} : events'[j] = events[j]
      /\ events'[i] = [e EXCEPT !.reverted = TRUE]
  BY <1>1, <1>3 DEF TypeInv
<1>8. Standing' = Standing \ {i}
  BY <1>4, <1>7 DEF Standing
<1>9. /\ On(m) \in SUBSET Nat /\ Into(m) \in SUBSET Nat /\ Labelling(m) \in SUBSET Nat
      /\ Labelling(m) \subseteq Into(m) /\ Into(m) \subseteq On(m) /\ On(m) \subseteq DOMAIN events
      /\ On(m) \subseteq Standing
  BY ChainParts DEF Standing
<1>10. On(m)' = On(m) \ {i} /\ Into(m)' = Into(m) \ {i} /\ Labelling(m)' = Labelling(m) \ {i}
  <2>1. \A j \in Standing \ {i} : events'[j] = events[j]
    BY <1>7 DEF Standing
  <2> HIDE DEF i, e
  <2>2. On(m)' = On(m) \ {i}
    BY <1>8, <2>1 DEF On, Members
  <2>3. Into(m)' = Into(m) \ {i}
    BY <1>8, <2>1 DEF Into
  <2>4. Labelling(m)' = Labelling(m) \ {i}
    BY <1>8, <2>1, <2>3 DEF Labelling, Into
  <2> QED
    BY <2>2, <2>3, <2>4
<1>11. \A j \in DOMAIN events : /\ StatusFound(m)'[j] = StatusFound(m)[j] /\ StatusLeft(m)'[j] = StatusLeft(m)[j]
                               /\ TextFound'[j] = TextFound[j] /\ TextLeft'[j] = TextLeft[j]
                               /\ CountFound'[j] = CountFound[j] /\ CountLeft'[j] = CountLeft[j]
                               /\ LabelFound'[j] = LabelFound[j] /\ LabelLeft'[j] = LabelLeft[j]
  <2>1. ASSUME NEW j \in DOMAIN events
        PROVE  /\ events'[j].prior = events[j].prior /\ events'[j].rewritten = events[j].rewritten
               /\ events'[j].text = events[j].text /\ events'[j].priorText = events[j].priorText
               /\ events'[j].priorCount = events[j].priorCount /\ events'[j].added = events[j].added
               /\ events'[j].relabelled = events[j].relabelled
    BY <1>4, <1>7
  <2> QED
    BY <1>7, <2>1 DEF StatusFound, StatusLeft, TextFound, TextLeft, CountFound, CountLeft, LabelFound, LabelLeft
<1>12. /\ StatusFound(m)[i] = IF m \in DOMAIN e.prior THEN e.prior[m] ELSE "active"
       /\ StatusLeft(m)[i] = IF m \in DOMAIN e.prior THEN "inactive" ELSE "active"
       /\ TextFound[i] = e.priorText /\ TextLeft[i] = IF e.rewritten THEN e.text ELSE e.priorText
       /\ CountFound[i] = e.priorCount
       /\ LabelFound[i] = (IF e.relabelled THEN "user" ELSE "external") /\ LabelLeft[i] = "external"
  BY <1>1 DEF StatusFound, StatusLeft, TextFound, TextLeft, CountFound, LabelFound, LabelLeft
<1>13. CASE m \notin Members(e)
  <2>1. i \notin On(m) /\ i \notin Into(m) /\ i \notin Labelling(m)
    BY <1>9, <1>13 DEF On
  <2>2. mem'[m] = mem[m]
    BY <1>2, <1>13 DEF CommitUndo
  <2>3. On(m)' = On(m) /\ Into(m)' = Into(m) /\ Labelling(m)' = Labelling(m)
    BY <1>10, <2>1
  <2>4. StatusChain(m)'
    BY <1>5, <1>9, <1>11, <2>2, <2>3, Same DEF Chained, StatusChain
  <2>5. TextChain(m)'
    BY <1>5, <1>9, <1>11, <2>2, <2>3, Same DEF Chained, TextChain
  <2>6. CountChain(m)'
    BY <1>5, <1>9, <1>11, <2>2, <2>3, Same DEF Chained, CountChain
  <2>7. LabelChain(m)'
    BY <1>5, <1>9, <1>11, <2>2, <2>3, Same DEF Chained, LabelChain
  <2> QED
    BY <1>5, <2>2, <2>4, <2>5, <2>6, <2>7 DEF Chained
<1>14. CASE m \in Members(e)
  <2>1. ~e.reverted /\ Above(i) = {} /\ i \in Standing /\ i \in On(m)
    BY <1>1, <1>14 DEF CommitUndo, Standing, On
  <2>2. \A j \in On(m) : j <= i
    <3>1. ASSUME NEW j \in On(m), j > i PROVE FALSE
      <4>1. j \in DOMAIN events /\ ~events[j].reverted /\ m \in Members(events[j])
        BY <1>9 DEF On, Standing
      <4>2. j \in Above(i)
        BY <1>14, <3>1, <4>1 DEF Above
      <4> QED
        BY <2>1, <4>2
    <3> QED
      BY <1>1, <1>9, <3>1 DEF TypeInv
  <2>3. CASE m = e.into
    <3>1. mem'[m] = Restored(mem[m], e)
      BY <2>3 DEF CommitUndo
    <3>2. i \in Into(m)
      BY <2>1, <2>3 DEF Into
    <3>3. StatusChain(m)'
      <4>1. Chain(On(m), StatusFound(m), StatusLeft(m), born[m].status, mem[m].status)
        BY <1>5 DEF Chained, StatusChain
      <4>2. On(m) \in SUBSET Nat /\ i \in On(m)
        BY <1>9, <1>10, <2>1, <2>2
      <4>3. \A j \in On(m) : j <= i /\ StatusFound(m)'[j] = StatusFound(m)[j] /\ StatusLeft(m)'[j] = StatusLeft(m)[j]
        BY <1>9, <1>11, <2>2
      <4>4. Chain(On(m)', StatusFound(m)', StatusLeft(m)', born[m].status, StatusFound(m)[i])
        <5>1. On(m)' = On(m) \ {i}
          BY <1>10
        <5> HIDE DEF i, e
        <5>2. Chain(On(m)', StatusFound(m), StatusLeft(m), born[m].status, StatusFound(m)[i])
          BY <4>1, <4>2, <4>3, <5>1, Pop
        <5> QED
          BY <4>3, <5>1, <5>2, Same
      <4>5. StatusLeft(m)[i] = mem[m].status
        BY <4>1, <4>2, <4>3, Last
      <4>6. StatusFound(m)[i] = "active" /\ StatusLeft(m)[i] = "active"
        BY <1>2, <1>12, <2>3
      <4>7. mem'[m].status = mem[m].status
        BY <1>1, <1>6, <3>1, RestoredOK
      <4> QED
        BY <1>5, <4>4, <4>5, <4>6, <4>7 DEF StatusChain
    <3>4. TextChain(m)'
      <4>1. Chain(Into(m), TextFound, TextLeft, born[m].text, mem[m].text)
        BY <1>5 DEF Chained, TextChain
      <4>2. Into(m) \in SUBSET Nat /\ i \in Into(m)
        BY <1>9, <3>2
      <4>3. \A j \in Into(m) : j <= i /\ TextFound'[j] = TextFound[j] /\ TextLeft'[j] = TextLeft[j]
        BY <1>9, <1>11, <2>2
      <4>4. Chain(Into(m)', TextFound', TextLeft', born[m].text, TextFound[i])
        <5>1. Into(m)' = Into(m) \ {i}
          BY <1>10
        <5> HIDE DEF i, e
        <5>2. Chain(Into(m)', TextFound, TextLeft, born[m].text, TextFound[i])
          BY <4>1, <4>2, <4>3, <5>1, Pop
        <5> QED
          BY <4>3, <5>1, <5>2, Same
      <4>5. TextLeft[i] = mem[m].text
        BY <4>1, <4>2, <4>3, Last
      <4>6. mem'[m].text = e.priorText
        BY <1>6, <1>12, <3>1, <4>5 DEF Restored, Row
      <4> QED
        BY <1>5, <1>10, <1>12, <4>4, <4>6 DEF TextChain
    <3>5. CountChain(m)'
      <4>1. Chain(Into(m), CountFound, CountLeft, born[m].count, mem[m].count)
        BY <1>5 DEF Chained, CountChain
      <4>2. Into(m) \in SUBSET Nat /\ i \in Into(m)
        BY <1>9, <3>2
      <4>3. \A j \in Into(m) : j <= i /\ CountFound'[j] = CountFound[j] /\ CountLeft'[j] = CountLeft[j]
        BY <1>9, <1>11, <2>2
      <4>4. Chain(Into(m)', CountFound', CountLeft', born[m].count, CountFound[i])
        <5>1. Into(m)' = Into(m) \ {i}
          BY <1>10
        <5> HIDE DEF i, e
        <5>2. Chain(Into(m)', CountFound, CountLeft, born[m].count, CountFound[i])
          BY <4>1, <4>2, <4>3, <5>1, Pop
        <5> QED
          BY <4>3, <5>1, <5>2, Same
      <4>5. CountLeft[i] = mem[m].count
        BY <4>1, <4>2, <4>3, Last
      <4>6. mem'[m].count = e.priorCount
        BY <1>6, <3>1 DEF Restored, Row
      <4> QED
        BY <1>5, <1>10, <1>12, <4>4, <4>6 DEF CountChain
    <3>6. LabelChain(m)'
      <4>1. CASE e.external
        <5>0. i \in Labelling(m)
          BY <3>2, <4>1 DEF Labelling
        <5>1. Chain(Labelling(m), LabelFound, LabelLeft, born[m].origin, mem[m].origin)
          BY <1>5 DEF Chained, LabelChain
        <5>2. Labelling(m) \in SUBSET Nat /\ i \in Labelling(m)
          BY <1>9, <5>0
        <5>3. \A j \in Labelling(m) : j <= i /\ LabelFound'[j] = LabelFound[j] /\ LabelLeft'[j] = LabelLeft[j]
          BY <1>9, <1>11, <2>2
        <5>4. Chain(Labelling(m)', LabelFound', LabelLeft', born[m].origin, LabelFound[i])
          <6>1. Labelling(m)' = Labelling(m) \ {i}
            BY <1>10
          <6> HIDE DEF i, e
          <6>2. Chain(Labelling(m)', LabelFound, LabelLeft, born[m].origin, LabelFound[i])
            BY <5>1, <5>2, <5>3, <6>1, Pop
          <6> QED
            BY <5>3, <6>1, <6>2, Same
        <5>5. LabelLeft[i] = mem[m].origin
          BY <5>1, <5>2, <5>3, Last
        <5>6. mem'[m].origin = IF e.relabelled THEN "user" ELSE "external"
          BY <1>6, <1>12, <3>1, <5>5 DEF Restored, Row
        <5> QED
          BY <1>5, <1>10, <1>12, <5>4, <5>6 DEF LabelChain
      <4>2. CASE ~e.external
        <5>1. Labelling(m)' = Labelling(m)
          BY <1>10, <4>2 DEF Labelling
        <5>2. mem'[m].origin = mem[m].origin
          BY <1>2, <1>6, <3>1, <4>2 DEF Restored, Row
        <5> QED
          BY <1>5, <1>9, <1>11, <5>1, <5>2, Same DEF Chained, LabelChain
      <4> QED
        BY <4>1, <4>2
    <3>7. mem'[m].starred = mem[m].starred
      BY <1>6, <3>1 DEF Restored, Row
    <3> QED
      BY <1>5, <3>3, <3>4, <3>5, <3>6, <3>7 DEF Chained
  <2>4. CASE m # e.into
    <3>1. m \in DOMAIN e.prior /\ i \notin Into(m)
      BY <1>2, <1>14, <2>4 DEF Into
    <3>2. Into(m)' = Into(m) /\ Labelling(m)' = Labelling(m)
      BY <1>9, <1>10, <3>1
    <3>3. mem'[m] = IF Exists(m) THEN [mem[m] EXCEPT !.status = e.prior[m]] ELSE mem[m]
      BY <2>4, <3>1 DEF CommitUndo, Prior
    <3>4. /\ mem'[m].text = mem[m].text /\ mem'[m].count = mem[m].count /\ mem'[m].origin = mem[m].origin
          /\ mem'[m].starred = mem[m].starred
      BY <1>6, <3>3 DEF Row
    <3>5. TextChain(m)'
      BY <1>5, <1>9, <1>11, <3>2, <3>4, Same DEF Chained, TextChain
    <3>6. CountChain(m)'
      BY <1>5, <1>9, <1>11, <3>2, <3>4, Same DEF Chained, CountChain
    <3>7. LabelChain(m)'
      BY <1>5, <1>9, <1>11, <3>2, <3>4, Same DEF Chained, LabelChain
    <3>8. StatusChain(m)'
      <4>1. Chain(On(m), StatusFound(m), StatusLeft(m), born[m].status, mem[m].status)
        BY <1>5 DEF Chained, StatusChain
      <4>2. On(m) \in SUBSET Nat /\ i \in On(m)
        BY <1>9, <1>10, <2>1, <2>2
      <4>3. \A j \in On(m) : j <= i /\ StatusFound(m)'[j] = StatusFound(m)[j] /\ StatusLeft(m)'[j] = StatusLeft(m)[j]
        BY <1>9, <1>11, <2>2
      <4>4. Chain(On(m)', StatusFound(m)', StatusLeft(m)', born[m].status, StatusFound(m)[i])
        <5>1. On(m)' = On(m) \ {i}
          BY <1>10
        <5> HIDE DEF i, e
        <5>2. Chain(On(m)', StatusFound(m), StatusLeft(m), born[m].status, StatusFound(m)[i])
          BY <4>1, <4>2, <4>3, <5>1, Pop
        <5> QED
          BY <4>3, <5>1, <5>2, Same
      <4>5. StatusLeft(m)[i] = mem[m].status
        BY <4>1, <4>2, <4>3, Last
      <4>6. StatusFound(m)[i] = e.prior[m] /\ StatusLeft(m)[i] = "inactive"
        BY <1>12, <3>1
      <4>7. mem'[m].status = e.prior[m]
        BY <1>6, <3>3, <4>6, <4>5 DEF Exists, Row
      <4> QED
        BY <1>5, <4>4, <4>5, <4>6, <4>7 DEF StatusChain
    <3> QED
      BY <1>5, <3>4, <3>5, <3>6, <3>7, <3>8 DEF Chained
  <2> QED
    BY <2>3, <2>4
<1> QED
  BY <1>13, <1>14

\* What an open fold saw are rows.
LEMMA SawRows ==
  ASSUME Shape, NEW t \in Threads, tx[t].op = "fold"
  PROVE  DOMAIN tx[t].saw \subseteq Memories
<1>1. tx[t] \in FoldTx
  BY OpOf DEF Shape, TypeInv
<1>2. \A f \in FoldTx : DOMAIN f.saw \subseteq Memories
  BY DEF FoldTx, PartialFcn
<1> QED
  BY <1>1, <1>2

\* A step that changes no event and unmakes no row.
LEMMA StillOfRows ==
  ASSUME Shape, EventsAreOfRows, NeverItsOwn', events' = events,
         \A m \in Memories : mem[m].status # "unborn" => mem'[m].status # "unborn",
         \A t \in Threads : tx'[t].op = "fold" =>
           tx'[t] = tx[t] \/ \A m \in DOMAIN tx'[t].saw : mem'[m].status # "unborn"
  PROVE  EventsAreOfRows'
<1>1. ASSUME NEW i \in DOMAIN events, NEW m \in Members(events[i]) PROVE mem'[m].status # "unborn"
  <2>1. m \in Memories
    BY EventIs DEF Shape, TypeInv
  <2> QED
    BY <2>1 DEF EventsAreOfRows
<1>2. ASSUME NEW t \in Threads, tx[t].op = "fold", NEW m \in DOMAIN tx[t].saw PROVE mem'[m].status # "unborn"
  <2>1. m \in Memories
    BY <1>2, SawRows
  <2> QED
    BY <1>2, <2>1 DEF EventsAreOfRows
<1>3. \A i \in DOMAIN events : events[i].relabelled => events[i].external
  BY DEF EventsAreOfRows
<1>4. \A i \in DOMAIN events : Members(events[i])' = Members(events[i])
  BY DEF Members
<1> QED
  BY <1>1, <1>2, <1>3, <1>4 DEF EventsAreOfRows

LEMMA StepOfRows == Shape /\ EventsAreOfRows /\ NeverItsOwn' /\ [Next]_vars => EventsAreOfRows'
<1> SUFFICES ASSUME Shape, EventsAreOfRows, NeverItsOwn', [Next]_vars PROVE EventsAreOfRows'
  OBVIOUS
<1> USE DEF Shape
<1>1. ASSUME NEW m \in Memories, NEW p \in Proposals, CreateMerged(m, p) PROVE EventsAreOfRows'
  BY <1>1, StillOfRows DEF CreateMerged, NewRow, TypeInv
<1>2. ASSUME NEW m \in Memories, CreateByUser(m) PROVE EventsAreOfRows'
  BY <1>2, StillOfRows DEF CreateByUser, NewRow, TypeInv
<1>3. ASSUME NEW m \in Memories, Delete(m) PROVE EventsAreOfRows'
  <2>1. mem'[m].status = "deleted" /\ \A n \in Memories \ {m} : mem'[n] = mem[n]
    BY <1>3 DEF Delete, TypeInv, Row
  <2> QED
    BY <1>3, <2>1, StillOfRows DEF Delete
<1>4. ASSUME NEW t \in Threads, NEW into \in Memories, NEW from \in SUBSET (Known \ {into}),
             NEW p \in Proposals, NEW w \in Wordings, BeginFold(t, into, from, p, w)
      PROVE  EventsAreOfRows'
  <2>1. DOMAIN tx'[t].saw = {m \in from : Exists(m)} /\ \A u \in Threads \ {t} : tx'[u] = tx[u]
    BY <1>4 DEF BeginFold, Open, TypeInv
  <2>2. \A m \in DOMAIN tx'[t].saw : mem[m].status # "unborn"
    BY <2>1 DEF Exists
  <2> QED
    BY <1>4, <2>1, <2>2, StillOfRows DEF BeginFold
<1>5. ASSUME NEW t \in Threads, CommitFold(t) PROVE EventsAreOfRows'
  <2> DEFINE f == tx[t]
             e == Event(mem[f.into], f)
             k == Len(events) + 1
  <2>1. f.op = "fold" /\ f \in FoldTx /\ f.into \in Memories /\ mem[f.into].status = "active" /\ mem[f.into] \in Row
    BY <1>5, OpOf DEF CommitFold, TypeInv, SurvivorsAreActive
  <2>2. e \in EventRecords /\ events' = Append(events, e) /\ events \in Seq(EventRecords)
    BY <1>5, <2>1, EventOK DEF CommitFold, TypeInv
  <2>3. \A i \in DOMAIN events' : (i \in DOMAIN events /\ events'[i] = events[i]) \/ events'[i] = e
    BY <2>2
  <2>4. Members(e) = {f.into} \cup DOMAIN f.saw /\ (e.relabelled => e.external)
    BY DEF Event, Members
  <2>5. DOMAIN f.saw \subseteq Memories /\ \A m \in DOMAIN f.saw : mem[m].status # "unborn"
    BY <2>1 DEF EventsAreOfRows, FoldTx, PartialFcn
  <2>6. \A m \in Memories : mem[m].status # "unborn" => mem'[m].status # "unborn"
    <3>1. mem'[f.into].status # "unborn"
      BY <1>5, <2>1, FoldedOK DEF CommitFold
    <3>2. ASSUME NEW m \in Memories \ {f.into}, mem[m].status # "unborn" PROVE mem'[m].status # "unborn"
      BY <1>5, <3>2 DEF CommitFold, TypeInv, Row
    <3> QED
      BY <3>1, <3>2
  <2>7. \A u \in Threads : tx'[u].op = "fold" => tx'[u] = tx[u]
    BY <1>5 DEF CommitFold, Close, Idle, TypeInv
  <2> HIDE DEF e, k
  <2>8. \A i \in DOMAIN events : Members(events[i]) \subseteq Memories
    BY EventIs DEF TypeInv
  <2>9. \A i \in DOMAIN events' : /\ Members(events'[i]) \subseteq Memories
                                  /\ \A m \in Members(events'[i]) : mem[m].status # "unborn"
                                  /\ events'[i].relabelled => events'[i].external
    BY <2>1, <2>3, <2>4, <2>5, <2>8 DEF EventsAreOfRows
  <2>10. \A u \in Threads : tx[u].op = "fold" => DOMAIN tx[u].saw \subseteq Memories
    BY SawRows
  <2> QED
    BY <2>6, <2>7, <2>9, <2>10 DEF EventsAreOfRows, Members
<1>6. ASSUME NEW t \in Threads, CommitUndo(t) PROVE EventsAreOfRows'
  <2> DEFINE i == tx[t].of
             e == events[i]
  <2>1. i \in DOMAIN events /\ e \in EventRecords
    <3>1. tx[t].op = "undo" /\ TxOK(t)
      BY <1>6 DEF CommitUndo, TypeInv
    <3>2. i \in DOMAIN events
      BY <3>1, OpOf
    <3> QED
      BY <3>2 DEF TypeInv
  <2>2. events' = [events EXCEPT ![i] = [e EXCEPT !.reverted = TRUE]]
    BY <1>6, <2>1 DEF CommitUndo, TypeInv
  <2>3. /\ [e EXCEPT !.reverted = TRUE].prior = e.prior /\ [e EXCEPT !.reverted = TRUE].into = e.into
        /\ [e EXCEPT !.reverted = TRUE].relabelled = e.relabelled
        /\ [e EXCEPT !.reverted = TRUE].external = e.external
    BY <2>1 DEF EventRecords
  <2>4. /\ DOMAIN events' = DOMAIN events
        /\ \A j \in DOMAIN events : /\ events'[j].prior = events[j].prior /\ events'[j].into = events[j].into
                                    /\ events'[j].relabelled = events[j].relabelled
                                    /\ events'[j].external = events[j].external
    BY <2>1, <2>2, <2>3 DEF TypeInv
  <2>5. \A m \in Memories : mem[m].status # "unborn" => mem'[m].status # "unborn"
    <3>1. e.into \in Memories /\ \A m \in DOMAIN e.prior : e.prior[m] \in There
      BY <2>1, EventIs DEF EventRecords
    <3>2. mem'[e.into].status = mem[e.into].status
      BY <1>6, <2>1, <3>1, RestoredOK DEF CommitUndo, TypeInv
    <3>3. ASSUME NEW m \in Memories \ {e.into}, mem[m].status # "unborn" PROVE mem'[m].status # "unborn"
      BY <1>6, <3>1, <3>3 DEF CommitUndo, Prior, TypeInv, Row, There
    <3> QED
      BY <3>2, <3>3
  <2>6. \A u \in Threads : tx'[u].op = "fold" => tx'[u] = tx[u]
    BY <1>6 DEF CommitUndo, Close, Idle, TypeInv
  <2> HIDE DEF i, e
  <2>7. \A j \in DOMAIN events : Members(events[j]) \subseteq Memories
    BY EventIs DEF TypeInv
  <2>8. \A u \in Threads : tx[u].op = "fold" => DOMAIN tx[u].saw \subseteq Memories
    BY SawRows
  <2> QED
    BY <2>4, <2>5, <2>6, <2>7, <2>8 DEF EventsAreOfRows, Members
<1>7. ASSUME NEW t \in Threads, CommitEdit(t) PROVE EventsAreOfRows'
  <2> DEFINE p == tx[t]
  <2>1. mem' = [mem EXCEPT ![p.of] = Edited(mem[p.of], p)] /\ UNCHANGED events
    BY <1>7 DEF CommitEdit
  <2>2. p.of \in Memories /\ Edited(mem[p.of], p).status \in There
    BY <1>7, OpOf, EditedOK DEF CommitEdit, TypeInv
  <2>3. \A m \in Memories : mem[m].status # "unborn" => mem'[m].status # "unborn"
    BY <2>1, <2>2 DEF TypeInv, There
  <2>4. \A u \in Threads : tx'[u].op = "fold" => tx'[u] = tx[u]
    BY <1>7 DEF CommitEdit, Close, Idle, TypeInv
  <2> QED
    BY <2>1, <2>3, <2>4, StillOfRows
<1>8. ASSUME NEW t \in Threads, CommitEmbed(t) PROVE EventsAreOfRows'
  <2>1. \A n \in Memories : mem'[n].status = mem[n].status
    BY <1>8, OpOf DEF CommitEmbed, TypeInv, Row
  <2>2. \A u \in Threads : tx'[u].op = "fold" => tx'[u] = tx[u]
    BY <1>8 DEF CommitEmbed, Close, Idle, TypeInv
  <2> QED
    BY <1>8, <2>1, <2>2, StillOfRows DEF CommitEmbed
<1>9. ASSUME UNCHANGED <<mem, events>>, \A u \in Threads : tx'[u].op = "fold" => tx'[u] = tx[u]
      PROVE  EventsAreOfRows'
  BY <1>9, StillOfRows
<1>10. ASSUME NEW t \in Threads, NEW i \in DOMAIN events, BeginUndo(t, i) PROVE EventsAreOfRows'
  BY <1>9, <1>10 DEF BeginUndo, Open, TypeInv
<1>11. ASSUME NEW t \in Threads, NEW x \in Edits, BeginEdit(t, x[1], x[2][1], x[2][2]) PROVE EventsAreOfRows'
  BY <1>9, <1>11 DEF BeginEdit, Open, TypeInv
<1>12. ASSUME NEW t \in Threads, NEW m \in Memories, BeginEmbed(t, m) PROVE EventsAreOfRows'
  BY <1>9, <1>12 DEF BeginEmbed, Open, TypeInv
<1>13. ASSUME NEW t \in Threads, Fail(t) PROVE EventsAreOfRows'
  BY <1>9, <1>13 DEF Fail, Close, Idle, TypeInv
<1>14. CASE UNCHANGED vars
  BY <1>9, <1>14 DEF vars
<1> QED
  BY <1>1, <1>2, <1>3, <1>4, <1>5, <1>6, <1>7, <1>8, <1>10, <1>11, <1>12, <1>13, <1>14 DEF Next

\* A row just created is in no event, and as it was created.
LEMMA ChainedAtFirst ==
  ASSUME Shape, EventsAreOfRows, NEW m \in Memories, mem[m].status = "unborn",
         UNCHANGED events, born'[m] = mem'[m]
  PROVE  Chained(m)'
<1>1. \A i \in DOMAIN events : m \notin Members(events[i])
  BY DEF EventsAreOfRows
<1>2. On(m)' = {} /\ Into(m)' = {} /\ Labelling(m)' = {}
  BY <1>1 DEF On, Into, Labelling, Standing, Members
<1> QED
  BY <1>2, Nothing DEF Chained, StatusChain, TextChain, CountChain, LabelChain

LEMMA StepChained == Shape /\ UndoInv /\ [Next]_vars => \A m \in Memories \ tangled' : Chained(m)'
<1> SUFFICES ASSUME Shape, UndoInv, [Next]_vars, NEW m \in Memories \ tangled' PROVE Chained(m)'
  OBVIOUS
<1> USE DEF Shape
<1>1. ASSUME tangled \subseteq tangled', UNCHANGED <<events, born>>,
             /\ mem'[m].status = mem[m].status /\ mem'[m].text = mem[m].text /\ mem'[m].count = mem[m].count
             /\ mem'[m].origin = mem[m].origin /\ mem'[m].starred = mem[m].starred
      PROVE  Chained(m)'
  BY <1>1, ChainedOn DEF UndoInv
<1>2. ASSUME NEW n \in Memories, mem[n].status = "unborn", UNCHANGED <<events, tangled>>,
             born' = [born EXCEPT ![n] = mem'[n]], \A o \in Memories \ {n} : mem'[o] = mem[o]
      PROVE  Chained(m)'
  <2>1. CASE m = n
    BY <1>2, <2>1, ChainedAtFirst DEF UndoInv, TypeInv
  <2>2. CASE m # n
    BY <1>2, <2>2, ChainedOn DEF UndoInv, TypeInv
  <2> QED
    BY <2>1, <2>2
<1>3. ASSUME NEW n \in Memories, NEW p \in Proposals, CreateMerged(n, p) PROVE Chained(m)'
  BY <1>2, <1>3 DEF CreateMerged, TypeInv
<1>4. ASSUME NEW n \in Memories, CreateByUser(n) PROVE Chained(m)'
  BY <1>2, <1>4 DEF CreateByUser, TypeInv
<1>5. ASSUME NEW n \in Memories, Delete(n) PROVE Chained(m)'
  <2>1. m # n /\ mem'[m] = mem[m]
    BY <1>5 DEF Delete, TypeInv
  <2> QED
    BY <1>1, <1>5, <2>1 DEF Delete
<1>6. ASSUME NEW t \in Threads, CommitFold(t) PROVE Chained(m)'
  BY <1>6, ChainedByFold
<1>7. ASSUME NEW t \in Threads, CommitUndo(t) PROVE Chained(m)'
  BY <1>7, ChainedByUndo
<1>8. ASSUME NEW t \in Threads, CommitEdit(t) PROVE Chained(m)'
  <2>1. m # tx[t].of /\ mem'[m] = mem[m] /\ tangled \subseteq tangled' /\ UNCHANGED <<events, born>>
    BY <1>8 DEF CommitEdit, TypeInv
  <2> QED
    BY <1>1, <2>1
<1>9. ASSUME NEW t \in Threads, CommitEmbed(t) PROVE Chained(m)'
  <2>1. mem' = [mem EXCEPT ![tx[t].of].vec = tx[t].text] /\ UNCHANGED <<events, born, tangled>> /\ mem[m] \in Row
    BY <1>9 DEF CommitEmbed, TypeInv
  <2>2. /\ mem'[m].status = mem[m].status /\ mem'[m].text = mem[m].text /\ mem'[m].count = mem[m].count
        /\ mem'[m].origin = mem[m].origin /\ mem'[m].starred = mem[m].starred
    BY <2>1 DEF Row, TypeInv
  <2> QED
    BY <1>1, <2>1, <2>2
<1>10. CASE UNCHANGED <<mem, events, born, tangled>>
  BY <1>1, <1>10
<1> QED
  BY <1>3, <1>4, <1>5, <1>6, <1>7, <1>8, <1>9, <1>10
  DEF Next, BeginFold, BeginUndo, BeginEdit, BeginEmbed, Fail, vars

\* The chains, after any steps.
LEMMA UndoAlways == Spec => []UndoInv
<1>1. Init => UndoInv
  <2> SUFFICES ASSUME Init PROVE UndoInv
    OBVIOUS
  <2>1. EventsAreOfRows
    BY DEF Init, EventsAreOfRows, NeverItsOwn, Idle
  <2>2. ASSUME NEW m \in Memories PROVE Chained(m)
    <3>1. On(m) = {} /\ Into(m) = {} /\ Labelling(m) = {} /\ born[m] = mem[m]
      BY DEF Init, On, Into, Labelling, Standing
    <3> QED
      BY <3>1, Nothing DEF Chained, StatusChain, TextChain, CountChain, LabelChain
  <2> QED
    BY <2>1, <2>2 DEF UndoInv
<1>2. Shape /\ FactsInv /\ UndoInv /\ [Next]_vars => UndoInv'
  BY StepFactsInv, StepOfRows, StepChained DEF UndoInv, FactsInv
<1> QED
  BY <1>1, <1>2, FactsAlways, ShapeAlways, PTL DEF Spec

\* A memory none of whose folds stands is as it was created, in wording, count, label
\* and status, whatever folds and undos, newest first, it went through.
THEOREM UndoneIsAsBeforeAlways == Spec => []UndoneIsAsBefore
BY UndoAlways, UndoInvImplies, ShapeAlways, PTL

-----------------------------------------------------------------------------
(* Sums.  What the standing folds brought a survivor is a sum over their    *)
(* events; a chain of counts adds up to it.                                 *)

Below == {p \in Nat \X Nat : p[1] < p[2]}

\* A set of natural numbers has a least.
LEMMA Least ==
  ASSUME NEW S, S \subseteq Nat, S # {}
  PROVE  \E x \in S : \A y \in S : x <= y
<1>1. IsWellFoundedOn(Below, Nat)
  BY NatLessThanWellFounded, Zenon DEF OpToRel, Below
<1>2. \E x \in S : \A y \in S : ~(<<y, x>> \in Below)
  BY <1>1, WFMin, Zenon
<1>3. \A x, y \in S : ~(<<y, x>> \in Below) => x <= y
  BY DEF Below
<1> QED
  BY <1>2, <1>3

\* A bounded one has a greatest.
LEMMA Greatest ==
  ASSUME NEW n \in Nat, NEW S, S \subseteq 0..n, S # {}
  PROVE  \E x \in S : \A y \in S : y <= x
<1> DEFINE T == {n - x : x \in S}
<1>1. T \subseteq Nat /\ T # {}
  <2>1. \A x \in S : n - x \in Nat
    OBVIOUS
  <2> QED
    BY <2>1
<1> HIDE DEF T
<1>2. PICK t \in T : \A u \in T : t <= u
  BY <1>1, Least
<1>3. PICK x \in S : t = n - x
  BY DEF T
<1>4. ASSUME NEW y \in S PROVE y <= x
  <2>1. n - x <= n - y
    BY <1>2, <1>3 DEF T
  <2> QED
    BY <2>1
<1> QED
  BY <1>4

\* One with fewer elements than any other of a family of finite sets.
LEMMA Smallest ==
  ASSUME NEW C, C # {}, \A s \in C : IsFiniteSet(s)
  PROVE  \E s \in C : \A r \in C : Cardinality(s) <= Cardinality(r)
<1> DEFINE T == {Cardinality(s) : s \in C}
<1>1. T \subseteq Nat /\ T # {}
  BY FS_CardinalityType
<1> HIDE DEF T
<1>2. PICK t \in T : \A u \in T : t <= u
  BY <1>1, Least
<1> QED
  BY <1>2 DEF T

\* The element a sum takes first.
Some(s) == CHOOSE x \in s : TRUE

\* h[s] is the sum of g over s, for each s in S.
Sums(S, g, h) ==
  h = [s \in SUBSET S |-> IF s = {} THEN 0 ELSE g[Some(s)] + h[s \ {Some(s)}]]

\* One element fewer.
LEMMA SomeIs ==
  ASSUME NEW s, s # {}, IsFiniteSet(s)
  PROVE  /\ Some(s) \in s /\ IsFiniteSet(s \ {Some(s)}) /\ Cardinality(s \ {Some(s)}) = Cardinality(s) - 1
         /\ Cardinality(s) \in Nat /\ Cardinality(s) > 0
<1>1. Some(s) \in s
  BY DEF Some
<1>2. IsFiniteSet(s \ {Some(s)}) /\ Cardinality(s \ {Some(s)}) = Cardinality(s) - 1
  BY <1>1, FS_RemoveElement
<1>3. Cardinality(s) \in Nat /\ Cardinality(s) # 0
  BY FS_CardinalityType, FS_EmptySet
<1> QED
  BY <1>1, <1>2, <1>3

\* There is one.
LEMMA SumsExist ==
  ASSUME NEW S, IsFiniteSet(S), NEW g \in [S -> Nat]
  PROVE  \E h \in [SUBSET S -> Nat] : Sums(S, g, h)
<1> DEFINE Step(h, s) == IF s = {} THEN 0 ELSE g[Some(s)] + h[s \ {Some(s)}]
           UpTo(n) == \E h \in [SUBSET S -> Nat] : \A s \in SUBSET S : Cardinality(s) <= n => h[s] = Step(h, s)
           Bad == {n \in Nat : ~UpTo(n)}
<1>1. \A s \in SUBSET S : IsFiniteSet(s) /\ Cardinality(s) \in Nat /\ Cardinality(s) <= Cardinality(S)
  BY FS_Subset, FS_CardinalityType
<1>2. UpTo(0)
  <2> DEFINE h == [s \in SUBSET S |-> 0]
  <2>1. ASSUME NEW s \in SUBSET S, Cardinality(s) <= 0 PROVE s = {}
    BY <1>1, <2>1, FS_EmptySet
  <2>2. h \in [SUBSET S -> Nat] /\ \A s \in SUBSET S : Cardinality(s) <= 0 => h[s] = Step(h, s)
    BY <2>1
  <2> QED
    BY <2>2
<1>3. ASSUME NEW n \in Nat, UpTo(n) PROVE UpTo(n + 1)
  <2>1. PICK h \in [SUBSET S -> Nat] : \A s \in SUBSET S : Cardinality(s) <= n => h[s] = Step(h, s)
    BY <1>3
  <2> DEFINE hh == [s \in SUBSET S |-> Step(h, s)]
  <2>2. ASSUME NEW s \in SUBSET S PROVE Step(h, s) \in Nat
    <3>1. CASE s # {}
      <4>1. Some(s) \in S /\ s \ {Some(s)} \in SUBSET S
        BY <1>1, <3>1, SomeIs
      <4> QED
        BY <3>1, <4>1
    <3> QED
      BY <3>1
  <2>3. ASSUME NEW s \in SUBSET S, Cardinality(s) <= n + 1 PROVE hh[s] = Step(hh, s)
    <3>1. CASE s # {}
      <4> DEFINE r == s \ {Some(s)}
      <4>1. r \in SUBSET S /\ Cardinality(r) <= n
        BY <1>1, <2>3, <3>1, SomeIs
      <4>2. hh[r] = h[r]
        BY <2>1, <4>1
      <4> QED
        BY <3>1, <4>2
    <3> QED
      BY <3>1
  <2>4. hh \in [SUBSET S -> Nat]
    BY <2>2
  <2> QED
    BY <2>3, <2>4
<1>4. Bad = {}
  <2> SUFFICES ASSUME Bad # {} PROVE FALSE
    OBVIOUS
  <2> HIDE DEF UpTo
  <2>1. PICK n \in Bad : \A k \in Bad : n <= k
    BY Least
  <2>2. n \in Nat /\ n # 0 /\ ~UpTo(n)
    BY <1>2
  <2>3. n - 1 \in Nat /\ UpTo(n - 1)
    BY <2>1, <2>2
  <2> QED
    BY <1>3, <2>2, <2>3
<1>5. UpTo(Cardinality(S))
  <2> HIDE DEF UpTo
  <2> QED
    BY <1>1, <1>4
<1>6. PICK h \in [SUBSET S -> Nat] : \A s \in SUBSET S : Cardinality(s) <= Cardinality(S) => h[s] = Step(h, s)
  BY <1>5
<1>7. \A s \in SUBSET S : h[s] = Step(h, s)
  BY <1>1, <1>6
<1>8. h = [s \in SUBSET S |-> Step(h, s)]
  BY <1>7
<1> QED
  BY <1>8 DEF Sums

\* The sum over a set does not depend on the sets beside it.
LEMMA SumsAgree ==
  ASSUME NEW S, NEW T, NEW F, F \subseteq S, F \subseteq T, IsFiniteSet(F), NEW g, NEW gg, NEW h, NEW hh,
         Sums(S, g, h), Sums(T, gg, hh), \A i \in F : g[i] = gg[i]
  PROVE  h[F] = hh[F]
<1> DEFINE C == {s \in SUBSET F : h[s] # hh[s]}
<1>1. \A s \in SUBSET F : IsFiniteSet(s)
  BY FS_Subset
<1>2. \A s \in SUBSET F : /\ h[s] = IF s = {} THEN 0 ELSE g[Some(s)] + h[s \ {Some(s)}]
                          /\ hh[s] = IF s = {} THEN 0 ELSE gg[Some(s)] + hh[s \ {Some(s)}]
  <2>1. \A s \in SUBSET S : h[s] = IF s = {} THEN 0 ELSE g[Some(s)] + h[s \ {Some(s)}]
    BY DEF Sums
  <2>2. \A s \in SUBSET T : hh[s] = IF s = {} THEN 0 ELSE gg[Some(s)] + hh[s \ {Some(s)}]
    BY DEF Sums
  <2> QED
    BY <2>1, <2>2
<1>3. C = {}
  <2> SUFFICES ASSUME C # {} PROVE FALSE
    OBVIOUS
  <2>1. PICK s \in C : \A r \in C : Cardinality(s) <= Cardinality(r)
    BY <1>1, Smallest
  <2>2. s \in SUBSET F /\ h[s] # hh[s] /\ s # {} /\ IsFiniteSet(s)
    BY <1>1, <1>2
  <2>3. Some(s) \in s /\ s \ {Some(s)} \in SUBSET F
    BY <2>2, SomeIs
  <2>4. Cardinality(s \ {Some(s)}) = Cardinality(s) - 1 /\ Cardinality(s) \in Nat
    BY <2>2, SomeIs
  <2>5. h[s \ {Some(s)}] = hh[s \ {Some(s)}]
    BY <2>1, <2>3, <2>4
  <2> QED
    BY <1>2, <2>2, <2>3, <2>5
<1> QED
  BY <1>3

\* Whichever element is taken out first.
LEMMA SumsAdd ==
  ASSUME NEW S, IsFiniteSet(S), NEW g, NEW h, Sums(S, g, h), \A i \in S : g[i] \in Nat,
         \A r \in SUBSET S : h[r] \in Nat, NEW k \in S
  PROVE  h[S] = h[S \ {k}] + g[k]
<1> DEFINE C == {s \in SUBSET S : \E j \in s : h[s] # h[s \ {j}] + g[j]}
<1>1. \A s \in SUBSET S : IsFiniteSet(s)
  BY FS_Subset
<1>2. \A s \in SUBSET S : s # {} => h[s] = g[Some(s)] + h[s \ {Some(s)}]
  BY DEF Sums
<1>3. C = {}
  <2> SUFFICES ASSUME C # {} PROVE FALSE
    OBVIOUS
  <2>1. PICK s \in C : \A r \in C : Cardinality(s) <= Cardinality(r)
    BY <1>1, Smallest
  <2>2. PICK j \in s : h[s] # h[s \ {j}] + g[j]
    BY <2>1
  <2> DEFINE y == Some(s)
  <2>3. s \in SUBSET S /\ s # {} /\ IsFiniteSet(s) /\ y \in s
    BY <1>1, <2>2, SomeIs
  <2>4. h[s] = g[y] + h[s \ {y}]
    BY <1>2, <2>3
  <2> HIDE DEF y
  <2>5. /\ Cardinality(s \ {y}) = Cardinality(s) - 1 /\ Cardinality(s \ {j}) = Cardinality(s) - 1
        /\ Cardinality(s) \in Nat
    <3>1. Cardinality(s \ {y}) = Cardinality(s) - 1
      BY <2>3, FS_RemoveElement, Zenon
    <3>2. Cardinality(s \ {j}) = Cardinality(s) - 1
      BY <2>2, <2>3, FS_RemoveElement, Zenon
    <3> QED
      BY <2>3, <3>1, <3>2, FS_CardinalityType
  <2>6. s \ {y} \notin C /\ s \ {j} \notin C /\ s \ {y} \in SUBSET S /\ s \ {j} \in SUBSET S
    <3> HIDE DEF C
    <3> QED
      BY <2>1, <2>3, <2>5
  <2>7. g[y] \in Nat /\ g[j] \in Nat /\ \A r \in SUBSET S : h[r] \in Nat
    BY <2>2, <2>3
  <2>8. j # y
    <3> HIDE DEF C
    <3>1. h[s \ {y}] \in Nat
      BY <2>6, <2>7
    <3>2. j = y => h[s \ {j}] + g[j] = h[s \ {y}] + g[y]
      BY Zenon
    <3>3. h[s \ {y}] + g[y] = g[y] + h[s \ {y}]
      BY <2>7, <3>1
    <3> QED
      BY <2>2, <2>4, <3>2, <3>3, Zenon
  <2>9. h[s \ {y}] = h[(s \ {y}) \ {j}] + g[j] /\ h[s \ {j}] = h[(s \ {j}) \ {y}] + g[y]
    BY <2>3, <2>6, <2>8
  <2>10. (s \ {y}) \ {j} = (s \ {j}) \ {y} /\ (s \ {y}) \ {j} \in SUBSET S
    BY <2>3
  <2> HIDE DEF C
  <2>11. h[s \ {y}] = h[(s \ {y}) \ {j}] + g[j] /\ h[s \ {j}] = h[(s \ {y}) \ {j}] + g[y]
    BY <2>9, <2>10
  <2>12. h[(s \ {y}) \ {j}] \in Nat
    BY <2>7, <2>10
  <2> QED
    BY <2>2, <2>4, <2>7, <2>11, <2>12
<1> QED
  BY <1>3

\* What the events of F added.
Sum(ev, F) == MapThenSumSet(LAMBDA i : ev[i].added, F)

\* It is what any function that sums says.
LEMMA SumIs ==
  ASSUME NEW ev, NEW F, IsFiniteSet(F), NEW g, \A i \in F : g[i] = ev[i].added, NEW h, Sums(F, g, h)
  PROVE  Sum(ev, F) = h[F]
<1> DEFINE Fits(f) == f = [s \in SUBSET F |-> IF s = {} THEN 0 ELSE ev[CHOOSE x \in s : TRUE].added
                                                                     + f[s \ {CHOOSE x \in s : TRUE}]]
<1> DEFINE add == [i \in F |-> ev[i].added]
<1>1. \A s \in SUBSET F : s # {} => Some(s) \in s
  BY DEF Some
<1>2. ASSUME NEW f, Fits(f) PROVE Sums(F, add, f)
  BY <1>1, <1>2 DEF Sums, Some
<1>3. ASSUME NEW f, Fits(f) PROVE f = h
  <2>1. ASSUME NEW s \in SUBSET F PROVE f[s] = h[s]
    <3>1. Sums(F, add, f) /\ \A i \in s : add[i] = g[i]
      BY <1>2, <1>3
    <3>2. IsFiniteSet(s) /\ s \subseteq F
      BY FS_Subset
    <3> HIDE DEF add, Fits
    <3>3. \A r \in SUBSET F : IsFiniteSet(r) /\ (\A i \in r : add[i] = g[i]) => f[r] = h[r]
      BY <3>1, SumsAgree
    <3> QED
      BY <3>1, <3>2, <3>3
  <2>2. f = [s \in SUBSET F |-> f[s]]
    BY <1>3
  <2>3. h = [s \in SUBSET F |-> h[s]]
    BY DEF Sums
  <2> QED
    BY <2>1, <2>2, <2>3
<1>4. Fits(h)
  BY <1>1 DEF Sums, Some
<1> QED
  BY <1>3, <1>4 DEF Sum, MapThenSumSet, MapThenFoldSet

\* The sum over none.
LEMMA SumOfNone == ASSUME NEW ev PROVE Sum(ev, {}) = 0
<1>1. IsFiniteSet({})
  BY FS_EmptySet
<1> DEFINE g == [i \in {} |-> ev[i].added]
<1>2. g \in [{} -> Nat]
  OBVIOUS
<1>3. PICK h \in [SUBSET {} -> Nat] : Sums({}, g, h)
  BY <1>1, <1>2, SumsExist
<1>4. Sum(ev, {}) = h[{}]
  BY <1>1, <1>3, SumIs
<1>5. h[{}] = 0
  BY <1>3 DEF Sums
<1> QED
  BY <1>4, <1>5

\* The sum over one more.
LEMMA SumOfMore ==
  ASSUME NEW ev, NEW F, IsFiniteSet(F), NEW k \in F, \A i \in F : ev[i].added \in Nat
  PROVE  Sum(ev, F) = Sum(ev, F \ {k}) + ev[k].added /\ Sum(ev, F \ {k}) \in Nat
<1> DEFINE g == [i \in F |-> ev[i].added]
           gg == [i \in F \ {k} |-> ev[i].added]
<1>1. IsFiniteSet(F \ {k})
  BY FS_Subset
<1>2. g \in [F -> Nat] /\ gg \in [F \ {k} -> Nat]
  OBVIOUS
<1>3. (\A i \in F : g[i] = ev[i].added) /\ \A i \in F \ {k} : gg[i] = ev[i].added /\ g[i] = gg[i]
  OBVIOUS
<1> HIDE DEF g, gg
<1>4. PICK h \in [SUBSET F -> Nat] : Sums(F, g, h)
  BY <1>2, SumsExist
<1>5. PICK hh \in [SUBSET (F \ {k}) -> Nat] : Sums(F \ {k}, gg, hh)
  BY <1>1, <1>2, SumsExist
<1>6. Sum(ev, F) = h[F] /\ Sum(ev, F \ {k}) = hh[F \ {k}]
  BY <1>1, <1>3, <1>4, <1>5, SumIs
<1>7. h[F] = h[F \ {k}] + g[k]
  <2>1. (\A i \in F : g[i] \in Nat) /\ \A r \in SUBSET F : h[r] \in Nat
    BY <1>2
  <2> QED
    BY <1>4, <2>1, SumsAdd
<1>8. F \ {k} \subseteq F /\ F \ {k} \subseteq F \ {k}
  OBVIOUS
<1>9. h[F \ {k}] = hh[F \ {k}]
  BY <1>1, <1>3, <1>4, <1>5, <1>8, SumsAgree
<1>10. hh[F \ {k}] \in Nat
  BY <1>5
<1> QED
  BY <1>3, <1>6, <1>7, <1>9, <1>10

\* A count, where none is one.
Times(c) == IF c = 0 THEN 1 ELSE c

\* Each event leaves what it found, and what it added.
Adding(n, ev, bf, af) ==
  \A i \in 1..n : bf[i] \in Nat /\ ev[i].added \in Nat /\ af[i] = Times(bf[i]) + ev[i].added

\* Along a chain of counts that each add to what was found, the count ends at the
\* first one and all that was added.
LEMMA ChainAddsUp ==
  ASSUME NEW n \in Nat, NEW ev, NEW bf, NEW af, NEW b \in Nat, Adding(n, ev, bf, af)
  PROVE  \A S \in SUBSET (1..n) : \A c \in Nat :
           Chain(S, bf, af, b, c) => Times(c) = Times(b) + Sum(ev, S)
<1> DEFINE Adds(S) == \A c \in Nat : Chain(S, bf, af, b, c) => Times(c) = Times(b) + Sum(ev, S)
           C == {S \in SUBSET (1..n) : ~Adds(S)}
<1>1. \A S \in SUBSET (1..n) : IsFiniteSet(S)
  <2>1. IsFiniteSet(1..n)
    BY FS_Interval
  <2> QED
    BY <2>1, FS_Subset
<1>2. C = {}
  <2> SUFFICES ASSUME C # {} PROVE FALSE
    OBVIOUS
  <2>1. PICK S \in C : \A R \in C : Cardinality(S) <= Cardinality(R)
    <3> HIDE DEF Adds
    <3> QED
      BY <1>1, Smallest
  <2>2. S \in SUBSET (1..n) /\ IsFiniteSet(S)
    BY <1>1, <2>1
  <2>3. PICK c \in Nat : Chain(S, bf, af, b, c) /\ Times(c) # Times(b) + Sum(ev, S)
    BY <2>1
  <2>4. S # {}
    <3>1. ASSUME S = {} PROVE FALSE
      <4>1. c = b /\ Sum(ev, S) = 0
        BY <2>3, <3>1, SumOfNone DEF Chain
      <4> QED
        BY <2>3, <4>1 DEF Times
    <3> QED
      BY <3>1
  <2>5. PICK k \in S : \A i \in S : i <= k
    <3>1. S \subseteq 0..n
      BY <2>2
    <3> QED
      BY <2>4, <3>1, Greatest
  <2>6. k \in 1..n /\ bf[k] \in Nat /\ ev[k].added \in Nat /\ af[k] = Times(bf[k]) + ev[k].added
    BY <2>2 DEF Adding
  <2>7. c = Times(bf[k]) + ev[k].added
    BY <2>3, <2>5, <2>6, Last
  <2>8. Chain(S \ {k}, bf, af, b, bf[k])
    <3>1. S \in SUBSET Nat
      BY <2>2
    <3> QED
      BY <2>3, <2>5, <3>1, Pop
  <2>9. S \ {k} \in SUBSET (1..n) /\ S \ {k} \notin C
    <3>1. Cardinality(S \ {k}) = Cardinality(S) - 1 /\ Cardinality(S) \in Nat
      BY <2>2, <2>5, FS_RemoveElement, FS_CardinalityType
    <3> HIDE DEF C
    <3> QED
      BY <2>1, <2>2, <3>1
  <2>10. Times(bf[k]) = Times(b) + Sum(ev, S \ {k})
    BY <2>6, <2>8, <2>9
  <2>11. Sum(ev, S) = Sum(ev, S \ {k}) + ev[k].added /\ Sum(ev, S \ {k}) \in Nat
    <3>1. \A i \in S : ev[i].added \in Nat
      BY <2>2 DEF Adding
    <3> QED
      BY <2>2, <3>1, SumOfMore
  <2>12. Times(c) = c
    BY <2>6, <2>7 DEF Times
  <2>13. Times(b) \in Nat
    BY DEF Times
  <2> HIDE DEF C
  <2> QED
    BY <2>3, <2>6, <2>7, <2>10, <2>11, <2>12, <2>13
<1> QED
  BY <1>2

\* A survivor's count is that of its chain of folds, and its label that of the last
\* fold that labelled it.
LEMMA GroupsOfChains == Shape /\ UndoInv => StandsForItsGroup
<1> SUFFICES ASSUME Shape, UndoInv, NEW m \in Memories \ tangled
             PROVE  /\ Observations(mem[m]) = Observations(born[m]) + MapThenSumSet(LAMBDA i : events[i].added, Into(m))
                    /\ mem[m].origin = "external" <=>
                         born[m].origin = "external" \/ \E i \in Into(m) : events[i].external
  BY DEF StandsForItsGroup, Into
<1>1. Chained(m)
  BY DEF UndoInv
<1>2. mem[m] \in Row /\ born[m] \in Row
  BY DEF Shape, TypeInv
<1>3. events \in Seq(EventRecords) /\ Len(events) \in Nat /\ DOMAIN events = 1..Len(events)
  BY DEF Shape, TypeInv
<1>4. Into(m) \in SUBSET (1..Len(events)) /\ Labelling(m) \in SUBSET (1..Len(events))
  BY ChainParts
<1>5. Observations(mem[m]) = Observations(born[m]) + MapThenSumSet(LAMBDA i : events[i].added, Into(m))
  <2>1. \A i \in 1..Len(events) : events[i].priorCount \in Nat /\ events[i].added \in Nat
    <3>1. \A i \in 1..Len(events) : events[i] \in EventRecords
      BY <1>3
    <3> QED
      BY <3>1 DEF EventRecords
  <2>2. \A i \in 1..Len(events) : /\ CountFound[i] \in Nat
                                  /\ CountLeft[i] = Times(CountFound[i]) + events[i].added
    BY <1>3, <2>1 DEF CountFound, CountLeft, Times
  <2>3. Chain(Into(m), CountFound, CountLeft, born[m].count, mem[m].count)
    BY <1>1 DEF Chained, CountChain
  <2>4. mem[m].count \in Nat /\ born[m].count \in Nat
    BY <1>2 DEF Row
  <2>5. Times(mem[m].count) = Times(born[m].count) + Sum(events, Into(m))
    <3>1. \A S \in SUBSET (1..Len(events)) : \A c \in Nat :
            Chain(S, CountFound, CountLeft, born[m].count, c)
              => Times(c) = Times(born[m].count) + Sum(events, S)
      <4>1. Adding(Len(events), events, CountFound, CountLeft)
        BY <2>1, <2>2 DEF Adding
      <4>2. Len(events) \in Nat /\ born[m].count \in Nat
        BY <1>3, <2>4
      <4> QED
        BY <4>1, <4>2, ChainAddsUp
    <3> QED
      BY <1>4, <2>3, <2>4, <3>1
  <2>6. Observations(mem[m]) = Times(mem[m].count) /\ Observations(born[m]) = Times(born[m].count)
    BY <2>4 DEF Observations, Times
  <2> QED
    BY <2>5, <2>6 DEF Sum
<1>6. mem[m].origin = "external" <=>
        born[m].origin = "external" \/ \E i \in Into(m) : events[i].external
  <2>1. Chain(Labelling(m), LabelFound, LabelLeft, born[m].origin, mem[m].origin)
    BY <1>1 DEF Chained, LabelChain
  <2>2. CASE Labelling(m) = {}
    <3>1. mem[m].origin = born[m].origin
      BY <2>1, <2>2 DEF Chain
    <3> QED
      BY <2>2, <3>1 DEF Labelling
  <2>3. CASE Labelling(m) # {}
    <3>1. PICK k \in Labelling(m) : \A i \in Labelling(m) : i <= k
      <4>1. Labelling(m) \subseteq 0..Len(events)
        BY <1>3, <1>4
      <4> QED
        BY <1>3, <2>3, <4>1, Greatest
    <3>2. mem[m].origin = LabelLeft[k]
      BY <2>1, <3>1, Last
    <3>3. LabelLeft[k] = "external"
      BY <1>3, <1>4 DEF LabelLeft
    <3>4. k \in Into(m) /\ events[k].external
      BY DEF Labelling
    <3> QED
      BY <3>2, <3>3, <3>4
  <2> QED
    BY <2>2, <2>3
<1> QED
  BY <1>5, <1>6

\* A memory stands for its whole group: it counts one for each observation the
\* standing folds brought it, and is external exactly when it or a member of them
\* was, whatever chain of folds and undos, newest first, it went through.
THEOREM StandsForItsGroupAlways == Spec => []StandsForItsGroup
BY UndoAlways, GroupsOfChains, ShapeAlways, PTL
=============================================================================

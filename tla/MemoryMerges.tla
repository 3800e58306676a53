---------------------------- MODULE MemoryMerges ----------------------------
(***************************************************************************)
(* Memories folded into one another by checkpoints, the undo of a fold, and*)
(* the user's own edits of the same rows.                                  *)
(*                                                                         *)
(* A fold (PersistMemoryMergeGroup) lets one memory, the survivor, stand   *)
(* for a group: it retires the absorbed ones, may adopt the merger's       *)
(* wording, and leaves a merge event with what undo needs.  Folds come from*)
(* any chat's checkpoint, planned on memories read long before, so a plan  *)
(* is any choice of rows.  A transaction is two steps, its reads and its   *)
(* writes (read committed), and several run at once; a fold holds a lock   *)
(* on its survivor in between.                                             *)
(*                                                                         *)
(* One account, one scope.  Confidence and speakers follow the count and   *)
(* the provenance and are left out, and so are link groups.                *)
(***************************************************************************)
EXTENDS Integers, Sequences, FiniteSets, FiniteSetsExt

CONSTANTS
  Memories,   \* rows, stored ones and ones still to be created
  Stored,     \* the ones there at first
  Wordings,   \* phrasings of a merger or of the user
  NoVec,      \* no embedding row
  Threads,    \* transactions that may be open at once
  Proposals,  \* bound: what a merger may propose beside the rows
  Edits,      \* bound: what the user may patch: a memory, a field and its value
  Budget      \* bounds: folds; creations, edits and deletions

ASSUME ConstantsAssumption ==
  /\ IsFiniteSet(Memories) /\ Stored \subseteq Memories
  /\ Memories \cap Wordings = {}
  /\ NoVec \notin Memories \cup Wordings
  /\ Proposals \subseteq [new : {"none", "user", "external"}, reword : BOOLEAN,
                            embedded : BOOLEAN]
  /\ Edits \subseteq Memories \X
       (({"text"} \X Wordings) \cup ({"status"} \X {"active", "inactive"})
        \cup ({"starred"} \X BOOLEAN) \cup ({"origin"} \X {"user", "external"}))
  /\ Budget \in [folds : Nat, others : Nat]

VARIABLES
  mem,       \* each memory's row; vec is the text its embedding was made from
  events,    \* the fold_live merge events, oldest first
  tx,        \* what each thread has read and not yet written
  left,      \* what is left of Budget
  born,      \* history: each row as it was created
  edited,    \* history: the rows the user edited or deleted
  tangled,   \* history: the rows of events undone out of order, of folds that had
             \* read another row than they retired, and the edited ones
  lost       \* history: the rows an edit wrote back as it had read them, over a
             \* change made in between

vars == <<mem, events, tx, left, born, edited, tangled, lost>>

Texts == Memories \cup Wordings
Row == [status : {"unborn", "active", "inactive", "deleted"}, text : Texts,
        vec : Texts \cup {NoVec}, count : Nat, origin : {"user", "external"},
        starred : BOOLEAN]
Idle == [op |-> "none"]
Exists(m) == mem[m].status \in {"active", "inactive"}
Known == {m \in Memories : mem[m].status # "unborn"}
Spend(what) == left[what] > 0 /\ left' = [left EXCEPT ![what] = @ - 1]

\* A new row; its text is its own, and count 0 is a row without chain metadata.
NewRow(m, status, origin) ==
  [status |-> status, text |-> m, vec |-> NoVec, count |-> 0, origin |-> origin,
   starred |-> FALSE]

Init ==
  /\ \E label \in [Stored -> {"user", "external"}] :
       mem = [m \in Memories |->
                IF m \in Stored THEN [NewRow(m, "active", label[m]) EXCEPT !.vec = m]
                ELSE NewRow(m, "unborn", "user")]
  /\ events = <<>>
  /\ tx = [t \in Threads |-> Idle]
  /\ left = Budget
  /\ born = mem
  /\ edited = {}
  /\ tangled = {}
  /\ lost = {}

\* Mutant: the survivor is read without a lock.
NoLock(m) == FALSE

\* The survivor of an open fold is locked (SELECT ... FOR UPDATE): whoever writes
\* the row, or locks it, waits.
Locked(m) == \E t \in Threads : tx[t].op = "fold" /\ tx[t].into = m

Open(t, r) == tx[t] = Idle /\ tx' = [tx EXCEPT ![t] = r]
Close(t) == tx' = [tx EXCEPT ![t] = Idle]

-----------------------------------------------------------------------------
(* Creation.                                                                *)

\* A group of new members only, embedded before it is stored; it leaves no event.
CreateMerged(m, p) ==
  /\ mem[m].status = "unborn"
  /\ p.new # "none" /\ p.embedded
  /\ Spend("others")
  /\ mem' = [mem EXCEPT ![m] = [NewRow(m, "active", p.new) EXCEPT
                                  !.vec = m, !.count = IF p.reword THEN 2 ELSE 0]]
  /\ born' = [born EXCEPT ![m] = mem'[m]]
  /\ UNCHANGED <<events, tx, edited, tangled, lost>>

\* One the user writes, embedded after it is stored.
CreateByUser(m) ==
  /\ mem[m].status = "unborn"
  /\ Spend("others")
  /\ mem' = [mem EXCEPT ![m] = NewRow(m, "active", "user")]
  /\ born' = [born EXCEPT ![m] = mem'[m]]
  /\ UNCHANGED <<events, tx, edited, tangled, lost>>

-----------------------------------------------------------------------------
(* Folds.                                                                   *)

\* The survivor must be active; it is locked and read, and so are the absorbed
\* rows, without a lock and whatever their status.
BeginFold(t, into, from, p, w) ==
  /\ from # {} \/ p.new # "none"
  /\ mem[into].status = "active"
  /\ ~Locked(into)
  /\ left.folds > 0
  /\ LET there == {m \in from : Exists(m)}
     IN Open(t, [op |-> "fold", into |-> into,
                 saw |-> [m \in there |-> [status |-> mem[m].status, origin |-> mem[m].origin]],
                 external |-> p.new = "external" \/ \E m \in there : mem[m].origin = "external",
                 added |-> Cardinality(from) + (IF p.new = "none" THEN 0 ELSE 1),
                 text |-> IF p.reword THEN w ELSE mem[into].text,
                 embedded |-> p.embedded])
  /\ UNCHANGED <<mem, events, left, born, edited, tangled, lost>>

\* decideSurvivorRewrite: new wording, unless the user starred the memory, and only
\* with its embedding.
Rewrites(row, f) == f.text # row.text /\ ~row.starred /\ f.embedded

\* Mutant: a survivor without chain metadata contributes nothing.
TallyOfChain(row) == row.count

\* The survivor's own occurrence counts as one, with or without chain metadata.
Tally(row) == IF row.count = 0 THEN 1 ELSE row.count

\* foldIntoLiveMemory: external when any member of the group is.
Folded(row, f) ==
  [row EXCEPT
     !.count = Tally(row) + f.added,
     !.origin = IF f.external THEN "external" ELSE @,
     !.text = IF Rewrites(row, f) THEN f.text ELSE @,
     !.vec = IF Rewrites(row, f) THEN f.text ELSE @]

\* Mutant: the snapshot is taken after the survivor's update.
EventAfter(row, f) ==
  [into |-> f.into, prior |-> [m \in DOMAIN f.saw |-> f.saw[m].status],
   rewritten |-> Rewrites(row, f), text |-> Folded(row, f).text,
   priorText |-> row.text, priorVec |-> row.vec, priorCount |-> Folded(row, f).count,
   relabelled |-> f.external /\ row.origin = "user",
   external |-> f.external, added |-> f.added, reverted |-> FALSE]

\* What undo will need.
Event(row, f) ==
  [into |-> f.into, prior |-> [m \in DOMAIN f.saw |-> f.saw[m].status],
   rewritten |-> Rewrites(row, f), text |-> Folded(row, f).text,
   priorText |-> row.text, priorVec |-> row.vec, priorCount |-> row.count,
   relabelled |-> f.external /\ row.origin = "user",
   external |-> f.external, added |-> f.added, reverted |-> FALSE]

CommitFold(t) ==
  LET f == tx[t]
      from == DOMAIN f.saw
      changed == {m \in from : mem[m].status # f.saw[m].status \/ mem[m].origin # f.saw[m].origin}
  IN /\ f.op = "fold"
     /\ Spend("folds")
     /\ \A m \in from : ~Locked(m)
     /\ mem' = [m \in Memories |->
                  IF m = f.into THEN Folded(mem[m], f)
                  ELSE IF m \in from /\ Exists(m) THEN [mem[m] EXCEPT !.status = "inactive"]
                  ELSE mem[m]]
     /\ events' = Append(events, Event(mem[f.into], f))
     /\ Close(t)
     /\ tangled' = tangled \cup changed \cup (IF changed = {} THEN {} ELSE {f.into})
     /\ UNCHANGED <<born, edited, lost>>

-----------------------------------------------------------------------------
(* Undo.                                                                    *)

Members(e) == {e.into} \cup DOMAIN e.prior

\* The event is read without a lock.
BeginUndo(t, i) ==
  /\ ~events[i].reverted
  /\ Open(t, [op |-> "undo", of |-> i])
  /\ UNCHANGED <<mem, events, left, born, edited, tangled, lost>>

\* The survivor as the fold found it: the wording only while it is still the
\* fold's, the label only while it is still external.
Restored(row, e) ==
  LET back == e.rewritten /\ row.text = e.text
  IN [row EXCEPT !.count = e.priorCount,
                 !.origin = IF e.relabelled /\ row.origin = "external" THEN "user" ELSE @,
                 !.text = IF back THEN e.priorText ELSE @,
                 !.vec = IF back THEN e.priorVec ELSE @]

\* Each absorbed memory returns to the status it had.
Prior(e, m) == e.prior[m]

\* Later events still standing on rows of this one.
Above(i) == {j \in DOMAIN events : /\ j > i /\ ~events[j].reverted
                                   /\ Members(events[j]) \cap Members(events[i]) # {}}

\* undoFoldLiveMerge, whatever happened to the rows since.
CommitUndo(t) ==
  /\ tx[t].op = "undo"
  /\ LET i == tx[t].of
         e == events[i]
     IN /\ Exists(e.into)
        /\ \A m \in Members(e) : ~Locked(m)
        /\ mem' = [m \in Memories |->
                     IF m = e.into THEN Restored(mem[m], e)
                     ELSE IF m \in DOMAIN e.prior /\ Exists(m)
                          THEN [mem[m] EXCEPT !.status = Prior(e, m)]
                     ELSE mem[m]]
        /\ events' = [events EXCEPT ![i].reverted = TRUE]
        /\ tangled' = tangled \cup (IF e.reverted THEN Members(e) ELSE {})
             \cup (IF Above(i) = {} THEN {}
                   ELSE Members(e) \cup UNION {Members(events[j]) : j \in Above(i)})
  /\ Close(t)
  /\ UNCHANGED <<left, born, edited, lost>>

-----------------------------------------------------------------------------
(* The user's edits, and embedding.                                         *)

\* UpdateMemory reads the row without a lock ...
BeginEdit(t, m, field, value) ==
  /\ Exists(m)
  /\ mem[m][field] # value
  /\ left.others > 0
  /\ Open(t, [op |-> "edit", of |-> m, row |-> mem[m], field |-> field, value |-> value])
  /\ UNCHANGED <<mem, events, left, born, edited, tangled, lost>>

\* ... and writes back every field it read, with the one patched.  New wording
\* drops the embedding.
Edited(row, p) ==
  LET next == [p.row EXCEPT ![p.field] = p.value]
  IN [row EXCEPT !.status = next.status, !.text = next.text, !.origin = next.origin,
                 !.starred = next.starred,
                 !.vec = IF p.field = "text" THEN NoVec ELSE @]

CommitEdit(t) ==
  LET p == tx[t]
      m == p.of
      now == mem[m]
  IN /\ p.op = "edit"
     /\ Spend("others")
     /\ Exists(m)
     /\ ~Locked(m)
     /\ mem' = [mem EXCEPT ![m] = Edited(now, p)]
     /\ Close(t)
     /\ edited' = edited \cup {m}
     /\ tangled' = tangled \cup {m}
     /\ lost' = IF [now EXCEPT !.vec = NoVec, !.count = 0] = [p.row EXCEPT !.vec = NoVec, !.count = 0]
                THEN lost ELSE lost \cup {m}
     /\ UNCHANGED <<events, born>>

\* Mutant: the embedding outlives its row.
DeleteRow(m) ==
  /\ Exists(m)
  /\ ~Locked(m)
  /\ Spend("others")
  /\ mem' = [mem EXCEPT ![m].status = "deleted"]
  /\ edited' = edited \cup {m}
  /\ tangled' = tangled \cup {m}
  /\ UNCHANGED <<events, tx, born, lost>>

Delete(m) ==
  /\ Exists(m)
  /\ ~Locked(m)
  /\ Spend("others")
  /\ mem' = [mem EXCEPT ![m].status = "deleted", ![m].vec = NoVec]
  /\ edited' = edited \cup {m}
  /\ tangled' = tangled \cup {m}
  /\ UNCHANGED <<events, tx, born, lost>>

\* embedMemories after an edit or a creation, and the backfill at a start: a row
\* without an embedding is read, its text embedded by the provider ...
BeginEmbed(t, m) ==
  /\ Exists(m)
  /\ mem[m].vec = NoVec
  /\ Open(t, [op |-> "embed", of |-> m, text |-> mem[m].text])
  /\ UNCHANGED <<mem, events, left, born, edited, tangled, lost>>

\* Mutant: the row's text is not compared.
StillThere(p) == Exists(p.of)

\* ... and stored, only while it is still the row's text.
Still(p) == Exists(p.of) /\ mem[p.of].text = p.text

CommitEmbed(t) ==
  LET p == tx[t]
  IN /\ p.op = "embed"
     /\ ~Locked(p.of)
     /\ Still(p)
     /\ mem' = [mem EXCEPT ![p.of].vec = p.text]
     /\ Close(t)
     /\ UNCHANGED <<events, left, born, edited, tangled, lost>>

\* A transaction fails, is refused, or is the victim of a deadlock.
Fail(t) ==
  /\ tx[t] # Idle
  /\ Close(t)
  /\ UNCHANGED <<mem, events, left, born, edited, tangled, lost>>

Next ==
  \/ \E m \in Memories :
       \/ \E p \in Proposals : CreateMerged(m, p)
       \/ CreateByUser(m)
       \/ Delete(m)
  \/ \E t \in Threads :
       \/ \E into \in Memories : \E from \in SUBSET (Known \ {into}),
             p \in Proposals, w \in Wordings : BeginFold(t, into, from, p, w)
       \/ CommitFold(t)
       \/ \E i \in DOMAIN events : BeginUndo(t, i)
       \/ CommitUndo(t)
       \/ \E e \in Edits : BeginEdit(t, e[1], e[2][1], e[2][2])
       \/ CommitEdit(t)
       \/ \E m \in Memories : BeginEmbed(t, m)
       \/ CommitEmbed(t)
       \/ Fail(t)

Spec == Init /\ [][Next]_vars

-----------------------------------------------------------------------------
(* Properties.                                                              *)

Standing == {i \in DOMAIN events : ~events[i].reverted}

\* Type correctness; a row that is not there has no embedding.
TypeOK ==
  /\ mem \in [Memories -> Row]
  /\ \A m \in Memories : mem[m].vec # NoVec => Exists(m)
  /\ born \in [Memories -> Row]
  /\ \A i \in DOMAIN events : Members(events[i]) \subseteq Memories
  /\ \A t \in Threads : tx[t].op \in {"none", "fold", "undo", "edit", "embed"}
  /\ edited \subseteq tangled /\ tangled \subseteq Memories /\ lost \subseteq edited

\* A memory none of whose folds stands is as it was before the first of them,
\* wording, count, label and status, whatever chain of folds and undos it went
\* through, as long as they were undone newest first and the user left it alone.
UndoneIsAsBefore ==
  \A m \in Memories \ tangled :
    (\A i \in Standing : m \notin Members(events[i])) =>
      [mem[m] EXCEPT !.vec = NoVec] = [born[m] EXCEPT !.vec = NoVec]

\* Content and embedding change together: a vector is never of another text than
\* the row's, whatever folds, undos, edits and embeddings overlap, unless an edit
\* wrote back what it had read over a fold's wording.
TextIsEmbedded ==
  \A m \in Memories : mem[m].vec \in {NoVec, mem[m].text} \/ m \in lost

\* Absorbed while a fold had already retired it.
AbsorbedTwice(m) ==
  \E i \in DOMAIN events : m \in DOMAIN events[i].prior /\ events[i].prior[m] = "inactive"

\* No fact is lost to folding: a memory the user did not dismiss is active, or
\* stood for, along standing folds, by one that is.  A group of retired memories
\* that only stand for each other would be gone.  It can be: a memory absorbed by a
\* second fold while retired stays so when the first fold is undone before the second.
FactsAreKept ==
  \A gone \in (SUBSET Memories) \ {{}} : \E m \in gone :
    \/ mem[m].status \in {"unborn", "active"}
    \/ m \in edited
    \/ AbsorbedTwice(m)
    \/ \E i \in Standing : m \in DOMAIN events[i].prior /\ events[i].into \notin gone

Observations(row) == IF row.count < 1 THEN 1 ELSE row.count

\* The survivor stands for its whole group: its count is one for each observation
\* the standing folds brought it, and it is external exactly when it or a member of
\* such a fold was.
StandsForItsGroup ==
  \A m \in Memories \ tangled :
    LET folds == {i \in Standing : events[i].into = m}
    IN /\ Observations(mem[m]) = Observations(born[m]) + MapThenSumSet(LAMBDA i : events[i].added, folds)
       /\ mem[m].origin = "external" <=>
            born[m].origin = "external" \/ \E i \in folds : events[i].external
===============================================================================

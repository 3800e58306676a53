-------------------------- MODULE RemoteSync_proofs --------------------------
(***************************************************************************)
(* What a remote sync leaves in the local copies and in its links, for any *)
(* threads, any number of runs alive at once and any budget of faults,     *)
(* stops, local changes and take-overs of the lease.                       *)
(*                                                                         *)
(* SeenIsCopied is not inductive.  A transaction writes what it pulled     *)
(* some steps before, from a link it read before that: the messages it     *)
(* pulled are all those from a head that is no newer than the link's       *)
(* (KnownIsOld, LookInv), what it will write is what it would plan now     *)
(* (CommitInv), no other transaction of the thread is open (OneOpen), and  *)
(* a copy is the first messages of its thread (CopyIsPrefix).  These are   *)
(* about the threads no transaction crossed.  ForkedForAReason and         *)
(* ContinuedIsLeftAlone follow from the same invariant (Sync).             *)
(*                                                                         *)
(* EarlyStopIsSafe is about the order of the list, and about all threads.  *)
(* While only the holder of the lease has written and nothing was cut      *)
(* short (Sole), the threads that its links and what it has left to do     *)
(* bring up to date are the ones that were still the longest (Ordered); as *)
(* it walks, but for those further down the list (Walked).  A message can  *)
(* come at any time: it takes its thread out of the set and to the top of  *)
(* the list.                                                               *)
(***************************************************************************)
EXTENDS RemoteSync, Integers, TLAPS, WellFoundedInduction, FiniteSetTheorems

\* The messages of a thread from one on, up to another.
Pulled(t, h, m) == {n \in Of(t) : h <= n /\ n <= m}

\* What a run works on is there.
TodoLeft == \A r \in Runs : run[r].pc \in {"look", "commit", "extend"} => run[r].todo # <<>>
LinkHasCopy ==
  \A t \in Threads : /\ link[t].state # "none" => copy[t] # <<>>
                     /\ link[t].state = "none" => link[t] = NoLink
PlanHasCopy ==
  \A r \in Runs : run[r].pc = "commit" /\ run[r].plan.kind # "void" =>
    /\ run[r].plan.kind # "create" => run[r].plan.at \in DOMAIN copy[This(r).thread]
    /\ ~run[r].plan.new => run[r].plan.kind # "create"

\* What was seen was sent.
LinkSent == \A t \in Threads \ crossed : link[t].seen <= Len(posts) /\ link[t].head <= Len(posts)
Seen(s) == \A i \in DOMAIN s : s[i].seen <= LastOf(s[i].thread)
TodoOld == \A r \in Runs : Seen(run[r].todo)

\* A run knows its links as they were.
KnownIsOld ==
  \A r \in Runs, t \in Threads \ crossed : run[r].pc \in Working \ {"read"} =>
    LET k == run[r].known[t]
    IN  /\ k.state = "none" => k = NoLink
        /\ link[t].state = "none" => k.state = "none"
        /\ k.state = "detached" => link[t].state = "detached"
        /\ k.head <= link[t].head

\* A batch that r may have pulled of the thread it is at.
GoodBatch(r, b) ==
  LET t == This(r).thread
      k == run[r].known[t]
  IN  \/ k.state = "detached"
      \/ /\ \E m \in This(r).seen..Len(posts) : b = Pulled(t, k.head, m)
         /\ link[t].state = "none" /\ copy[t] # <<>> => Copy(t).msgs \subseteq b

LookInv ==
  \A r \in Runs : run[r].pc = "look" /\ This(r).thread \notin crossed => GoodBatch(r, run[r].batch)
CommitInv ==
  \A r \in Runs : run[r].pc = "commit" /\ This(r).thread \notin crossed =>
    \E b \in SUBSET Messages : GoodBatch(r, b) /\ run[r].plan = Plan(This(r).thread, b)
OneOpen ==
  \A r, q \in Runs : run[r].pc = "commit" /\ run[q].pc = "commit" /\ This(r).thread = This(q).thread
                     /\ This(r).thread \notin crossed => r = q

\* A copy is the first messages of its thread.
CopyIsPrefix ==
  \A t \in Threads \ crossed : copy[t] # <<>> =>
    /\ \E x \in 0..Posts : Copy(t).msgs = Pulled(t, 0, x)
    /\ Copy(t).base \subseteq Copy(t).msgs

-----------------------------------------------------------------------------
Below == {p \in Nat \X Nat : p[1] < p[2]}

\* The order of the natural numbers is well founded.
LEMMA BelowWellFounded == IsWellFoundedOn(Below, Nat)
BY NatLessThanWellFounded, Zenon DEF OpToRel, Below

\* A set of natural numbers has a least.
LEMMA Least ==
  ASSUME NEW S, S \subseteq Nat, S # {}
  PROVE  \E x \in S : \A y \in S : x <= y
<1>1. \E x \in S : \A y \in S : ~(<<y, x>> \in Below)
  BY BelowWellFounded, WFMin, Zenon
<1>2. \A x, y \in S : ~(<<y, x>> \in Below) => x <= y
  BY DEF Below
<1> QED
  BY <1>1, <1>2

\* The newest of a set of messages is in it and is its last; of none, it is 0.
LEMMA NewestIs ==
  ASSUME NEW S \in SUBSET (0..Posts)
  PROVE  /\ S = {} => Newest(S) = 0
         /\ S # {} => Newest(S) \in S /\ \A m \in S : m <= Newest(S)
         /\ Newest(S) \in 0..Posts
<1>0. Posts \in Nat
  BY RemoteSyncAssumption
<1>1. CASE S = {}
  BY <1>0, <1>1 DEF Newest
<1>2. CASE S # {}
  <2> DEFINE T == {Posts - n : n \in S}
  <2>0. \A n \in S : n \in Nat /\ n <= Posts
    BY <1>0
  <2>1. T \in SUBSET Nat /\ T # {}
    <3>1. \A n \in S : Posts - n \in Nat
      BY <1>0, <2>0
    <3>2. PICK n \in S : TRUE
      BY <1>2
    <3>3. Posts - n \in T
      BY <3>2
    <3> QED
      BY <3>1, <3>3
  <2>3. \E x \in T : \A y \in T : x <= y
    <3> HIDE DEF T
    <3> QED
      BY <2>1, Least
  <2>4. \E n \in S : \A m \in S : m <= n
    <3>1. PICK n \in S : \A m \in S : Posts - n <= Posts - m
      BY <2>3
    <3>2. \A m \in S : m <= n
      BY <1>0, <2>0, <3>1
    <3> QED
      BY <3>2
  <2>5. Newest(S) \in S /\ \A m \in S : m <= Newest(S)
    BY <1>2, <2>4 DEF Newest
  <2>6. Newest(S) \in 0..Posts
    BY <1>0, <2>0, <2>5
  <2> QED
    BY <1>2, <2>5, <2>6
<1> QED
  BY <1>1, <1>2

Accounts == [on : BOOLEAN, fresh : BOOLEAN, behind : BOOLEAN, attention : BOOLEAN]

RemoteTyped == posts \in Seq(Threads) /\ Len(posts) <= Posts /\ deleted \subseteq Threads
RowTyped == account \in Accounts /\ lease \in Runs \cup {Nobody} /\ expired \in BOOLEAN
LinkTyped == link \in [Threads -> Links]
CopyTyped == copy \in [Threads -> Seq(Mirrors)]
RunTyped == run \in [Runs -> RunStates]
RestTyped == left \in Nat /\ crossed \subseteq Threads /\ cut \in BOOLEAN

\* The type invariant, by the variables it is about.
LEMMA Parts ==
  TypeOK <=> RemoteTyped /\ RowTyped /\ LinkTyped /\ CopyTyped /\ RunTyped /\ RestTyped
BY DEF TypeOK, RemoteTyped, RowTyped, LinkTyped, CopyTyped, RunTyped, RestTyped, Accounts

Todo == [thread : Threads, seen : 0..Posts]

\* What a run holds, field by field.
LEMMA RunFields ==
  ASSUME RunTyped, NEW r \in Runs
  PROVE  /\ run[r] \in RunStates
         /\ run[r].known \in [Threads -> Links]
         /\ run[r].todo \in Seq(Todo)
         /\ run[r].batch \in SUBSET Messages
         /\ run[r].plan \in Plans
BY DEF RunTyped, RunStates, Todo

\* The thread a run is at.
LEMMA HeadTyped ==
  ASSUME RunTyped, TodoLeft, NEW r \in Runs,
         run[r].pc \in {"look", "commit", "extend"} \/ run[r].todo # <<>>
  PROVE  /\ This(r) \in Todo /\ This(r).thread \in Threads /\ This(r).seen \in 0..Posts
         /\ run[r].todo # <<>> /\ Tail(run[r].todo) \in Seq(Todo)
<1>1. run[r].todo \in Seq(Todo) /\ run[r].todo # <<>>
  BY RunFields DEF TodoLeft
<1>2. This(r) \in Todo /\ Tail(run[r].todo) \in Seq(Todo)
  BY <1>1 DEF This
<1> QED
  BY <1>1, <1>2 DEF Todo

\* Every step keeps the types of the remote's state.
LEMMA StepRemote ==
  ASSUME RemoteTyped, [Next]_vars
  PROVE  RemoteTyped'
<1> USE DEF RemoteTyped
<1>1. CASE UNCHANGED <<posts, deleted>>
  BY <1>1 DEF RemoteTyped
<1>2. ASSUME (\E r \in Runs : Start(r) \/ Read(r) \/ List(r) \/ Listing(r) \/ Pull(r) \/
             PullNothing(r) \/ Look(r) \/ Commit(r) \/ CommitFails(r) \/ Extend(r) \/
             RoundOver(r) \/ Record(r) \/ Release(r) \/ RunFails(r) \/ PullFails(r) \/
             ExtendFails(r) \/ Refused(r) \/ Cancel(r) \/ Crash(r)) \/ Expire \/ Stop \/ Save
             \/ (\E t \in Threads : Continue(t) \/ DeleteLocal(t)) \/ UNCHANGED vars
      PROVE  UNCHANGED <<posts, deleted>>
  <2>1. ASSUME NEW r \in Runs, Start(r) \/ Read(r) \/ List(r) \/ Listing(r)
        PROVE  UNCHANGED <<posts, deleted>>
    BY <2>1, Zenon DEF Start, Read, List, Listing, remote
  <2>2. ASSUME NEW r \in Runs, Pull(r) \/ PullNothing(r) \/ Look(r) \/ Commit(r)
        PROVE  UNCHANGED <<posts, deleted>>
    BY <2>2, Zenon DEF Pull, PullNothing, Look, Commit, remote
  <2>3. ASSUME NEW r \in Runs, CommitFails(r) \/ Extend(r) \/ RoundOver(r) \/ Record(r)
        PROVE  UNCHANGED <<posts, deleted>>
    BY <2>3, Zenon DEF CommitFails, Extend, RoundOver, Record, remote
  <2>4. ASSUME NEW r \in Runs, Release(r) \/ RunFails(r) \/ PullFails(r) \/ ExtendFails(r)
        PROVE  UNCHANGED <<posts, deleted>>
    BY <2>4, Zenon DEF Release, RunFails, PullFails, ExtendFails, remote
  <2>5. ASSUME NEW r \in Runs, Refused(r) \/ Cancel(r) \/ Crash(r)
        PROVE  UNCHANGED <<posts, deleted>>
    BY <2>5, Zenon DEF Refused, Cancel, Crash, remote
  <2>6. ASSUME Expire \/ Stop \/ Save \/ (\E t \in Threads : Continue(t) \/ DeleteLocal(t)) \/ UNCHANGED vars
        PROVE  UNCHANGED <<posts, deleted>>
    BY <2>6, Zenon DEF Expire, Stop, Save, Continue, DeleteLocal, remote, Here, vars
  <2> QED
    BY <1>2, <2>1, <2>2, <2>3, <2>4, <2>5, <2>6
<1>3. ASSUME NEW t \in Threads, Post(t) PROVE RemoteTyped'
  BY <1>3, RemoteSyncAssumption DEF Post
<1>4. ASSUME NEW t \in Threads, RemoteDelete(t) PROVE RemoteTyped'
  BY <1>4 DEF RemoteDelete, Spend, row, local
<1> QED
  BY <1>1, <1>2, <1>3, <1>4 DEF Next, Step, Fault, Others

\* Every step keeps the types of the account's row.
LEMMA StepRow ==
  ASSUME RowTyped, [Next]_vars
  PROVE  RowTyped'
<1> USE DEF RowTyped, Accounts, NewAccount
<1>1. CASE UNCHANGED <<account, lease, expired>>
  BY <1>1
<1>2. ASSUME (\E r \in Runs : Read(r) \/ List(r) \/ Listing(r) \/ Pull(r) \/ PullNothing(r) \/
             Look(r) \/ Commit(r) \/ CommitFails(r) \/ RoundOver(r) \/ RunFails(r) \/
             PullFails(r) \/ ExtendFails(r) \/ Refused(r) \/ Cancel(r) \/ Crash(r)) \/ (\E t
             \in Threads : Post(t) \/ RemoteDelete(t) \/ Continue(t) \/ DeleteLocal(t)) \/
             UNCHANGED vars
      PROVE  UNCHANGED <<account, lease, expired>>
  <2>1. ASSUME NEW r \in Runs, Read(r) \/ List(r) \/ Listing(r) \/ Pull(r)
        PROVE  UNCHANGED <<account, lease, expired>>
    BY <2>1, Zenon DEF Read, List, Listing, Pull, row
  <2>2. ASSUME NEW r \in Runs, PullNothing(r) \/ Look(r) \/ Commit(r) \/ CommitFails(r)
        PROVE  UNCHANGED <<account, lease, expired>>
    BY <2>2, Zenon DEF PullNothing, Look, Commit, CommitFails, row
  <2>3. ASSUME NEW r \in Runs, RoundOver(r) \/ RunFails(r) \/ PullFails(r) \/ ExtendFails(r)
        PROVE  UNCHANGED <<account, lease, expired>>
    BY <2>3, Zenon DEF RoundOver, RunFails, PullFails, ExtendFails, row
  <2>4. ASSUME NEW r \in Runs, Refused(r) \/ Cancel(r) \/ Crash(r)
        PROVE  UNCHANGED <<account, lease, expired>>
    BY <2>4, Zenon DEF Refused, Cancel, Crash, row
  <2>5. ASSUME (\E t \in Threads : Post(t) \/ RemoteDelete(t) \/ Continue(t) \/ DeleteLocal(t)) \/ UNCHANGED vars
        PROVE  UNCHANGED <<account, lease, expired>>
    BY <2>5, Zenon DEF Post, RemoteDelete, Continue, DeleteLocal, row, Here, vars
  <2> QED
    BY <1>2, <2>1, <2>2, <2>3, <2>4, <2>5
<1>3. ASSUME NEW r \in Runs, Start(r) PROVE RowTyped'
  BY <1>3 DEF Start, Set, remote, local
<1>4. ASSUME NEW r \in Runs, Extend(r) PROVE RowTyped'
  BY <1>4 DEF Extend, Set, Vanish, remote, local
<1>5. ASSUME NEW r \in Runs, Record(r) PROVE RowTyped'
  <2>0. /\ (account.fresh /\ run[r].pc # "ok") \in BOOLEAN
        /\ (run[r].over > 0) \in BOOLEAN /\ (run[r].pc = "attention") \in BOOLEAN
    OBVIOUS
  <2>1. account' \in Accounts
    BY <1>5, <2>0 DEF Record
  <2> QED
    BY <1>5, <2>1 DEF Record
<1>6. ASSUME NEW r \in Runs, Release(r) PROVE RowTyped'
  BY <1>6 DEF Release, Vanish, Set, remote, local
<1>7. ASSUME Expire PROVE RowTyped'
  BY <1>7 DEF Expire, Spend, remote, local
<1>8. ASSUME Stop PROVE RowTyped'
  BY <1>8 DEF Stop, Spend, remote
<1>9. ASSUME Save PROVE RowTyped'
  BY <1>9 DEF Save, remote, local
<1> QED
  BY <1>1, <1>2, <1>3, <1>4, <1>5, <1>6, <1>7, <1>8, <1>9 DEF Next, Step, Fault, Others

\* Every step keeps the types of what is left.
LEMMA StepRest ==
  ASSUME RestTyped, RunTyped, TodoLeft, [Next]_vars
  PROVE  RestTyped'
<1> USE DEF RestTyped
<1>1. CASE UNCHANGED <<left, crossed, cut>>
  BY <1>1
<1>2. ASSUME (\E r \in Runs : Start(r) \/ Read(r) \/ List(r) \/ Listing(r) \/ Pull(r) \/
             PullNothing(r) \/ Commit(r) \/ CommitFails(r) \/ RoundOver(r)) \/ Save \/ (\E t
             \in Threads : Post(t)) \/ UNCHANGED vars
      PROVE  UNCHANGED <<left, crossed, cut>>
  <2>1. ASSUME NEW r \in Runs, Start(r) \/ Read(r) \/ List(r) \/ Listing(r)
        PROVE  UNCHANGED <<left, crossed, cut>>
    BY <2>1, Zenon DEF Start, Read, List, Listing
  <2>2. ASSUME NEW r \in Runs, Pull(r) \/ PullNothing(r) \/ Commit(r) \/ CommitFails(r)
        PROVE  UNCHANGED <<left, crossed, cut>>
    BY <2>2, Zenon DEF Pull, PullNothing, Commit, CommitFails
  <2>3. ASSUME NEW r \in Runs, RoundOver(r)
        PROVE  UNCHANGED <<left, crossed, cut>>
    BY <2>3, Zenon DEF RoundOver
  <2>4. ASSUME Save \/ (\E t \in Threads : Post(t)) \/ UNCHANGED vars
        PROVE  UNCHANGED <<left, crossed, cut>>
    BY <2>4, Zenon DEF Save, Post, vars
  <2> QED
    BY <1>2, <2>1, <2>2, <2>3, <2>4
<1>3. ASSUME NEW r \in Runs, Look(r) PROVE RestTyped'
  <2>1. This(r).thread \in Threads
    BY <1>3, HeadTyped DEF Look
  <2> QED
    BY <1>3, <2>1 DEF Look
<1>4. ASSUME NEW r \in Runs, Extend(r) PROVE RestTyped'
  BY <1>4 DEF Extend, Set, Vanish, remote, local
<1>5. ASSUME NEW r \in Runs, Record(r) PROVE RestTyped'
  BY <1>5 DEF Record, Set, remote, local
<1>6. ASSUME NEW r \in Runs, Release(r) PROVE RestTyped'
  BY <1>6 DEF Release, Vanish, Set, remote, local
<1>7. ASSUME NEW r \in Runs, RunFails(r) PROVE RestTyped'
  BY <1>7 DEF RunFails, Spend, Set, remote, row, local
<1>8. ASSUME NEW r \in Runs, PullFails(r) PROVE RestTyped'
  BY <1>8 DEF PullFails, Spend, ThreadFails, Set, remote, row, local
<1>9. ASSUME NEW r \in Runs, ExtendFails(r) PROVE RestTyped'
  BY <1>9 DEF ExtendFails, Spend, Set, remote, row, local
<1>10. ASSUME NEW r \in Runs, Refused(r) PROVE RestTyped'
  BY <1>10 DEF Refused, Spend, Set, remote, row, local
<1>11. ASSUME NEW r \in Runs, Cancel(r) PROVE RestTyped'
  BY <1>11 DEF Cancel, Spend, Set, remote, row, local
<1>12. ASSUME NEW r \in Runs, Crash(r) PROVE RestTyped'
  BY <1>12 DEF Crash, Spend, Vanish, Set, remote, row, local
<1>13. ASSUME NEW t \in Threads, RemoteDelete(t) PROVE RestTyped'
  BY <1>13 DEF RemoteDelete, Spend, row, local
<1>14. ASSUME NEW t \in Threads, Continue(t) PROVE RestTyped'
  BY <1>14 DEF Continue, Here, Spend, remote, row
<1>15. ASSUME NEW t \in Threads, DeleteLocal(t) PROVE RestTyped'
  BY <1>15 DEF DeleteLocal, Here, Spend, remote, row
<1>16. ASSUME Expire PROVE RestTyped'
  BY <1>16 DEF Expire, Spend, remote, local
<1>17. ASSUME Stop PROVE RestTyped'
  BY <1>17 DEF Stop, Spend, remote
<1> QED
  BY <1>1, <1>2, <1>3, <1>4, <1>5, <1>6, <1>7, <1>8, <1>9, <1>10, <1>11, <1>12, <1>13, <1>14,
     <1>15, <1>16, <1>17 DEF Next, Step, Fault, Others

Pcs == {"idle", "ok", "error", "attention", "release"} \cup Working
Knowns == [Threads -> Links]
Todos == Seq(Todo)
Batches == SUBSET Messages

\* A run, its fields' types closed.
LEMMA RunIs ==
  /\ RunStates = [pc : Pcs, known : Knowns, full : BOOLEAN, page : Nat, todo : Todos,
                  batch : Batches, plan : Plans, over : Nat, last : Nat, failed : BOOLEAN,
                  applied : BOOLEAN]
  /\ "idle" \in Pcs /\ "ok" \in Pcs /\ "error" \in Pcs /\ "attention" \in Pcs
  /\ "release" \in Pcs /\ "read" \in Pcs /\ "list" \in Pcs /\ "next" \in Pcs
  /\ "look" \in Pcs /\ "commit" \in Pcs /\ "extend" \in Pcs
  /\ <<>> \in Todos /\ {} \in Batches
BY DEF RunStates, Pcs, Knowns, Todos, Todo, Batches, Working

\* Runs start idle, with no plan.
LEMMA IdleTyped ==
  Idle \in RunStates /\ NoPlan \in Plans /\ NoLink \in Links
<1>1. NoPlan \in Plans /\ NoLink \in Links
  BY RemoteSyncAssumption DEF NoPlan, Plans, NoLink, Links
<1>2. [t \in Threads |-> NoLink] \in Knowns
  BY <1>1 DEF Knowns
<1> QED
  BY <1>1, <1>2, RunIs DEF Idle

\* The messages of a thread are messages.
LEMMA OfTyped ==
  ASSUME RemoteTyped, NEW t
  PROVE  Of(t) \in SUBSET Messages /\ Of(t) \in SUBSET (1..Len(posts)) /\ LastOf(t) \in 0..Posts
<1>1. Len(posts) \in Nat /\ DOMAIN posts = 1..Len(posts) /\ Len(posts) <= Posts /\ Posts \in Nat
  BY RemoteSyncAssumption DEF RemoteTyped
<1>2. Of(t) \in SUBSET Messages /\ Of(t) \in SUBSET (1..Len(posts))
  BY <1>1 DEF Of, Messages
<1>3. Of(t) \in SUBSET (0..Posts)
  BY <1>2 DEF Messages
<1> QED
  BY <1>2, <1>3, NewestIs DEF LastOf

\* The newest copy of a thread that has one.
LEMMA CopyIs ==
  ASSUME CopyTyped, NEW t \in Threads, copy[t] # <<>>
  PROVE  /\ Len(copy[t]) \in DOMAIN copy[t] /\ Len(copy[t]) \in Nat /\ Copy(t) \in Mirrors
         /\ copy[t] \in Seq(Mirrors)
BY DEF CopyTyped, Copy

\* What a transaction will write is well formed, and tracks a copy there is.
LEMMA PlanTyped ==
  ASSUME CopyTyped, NEW t \in Threads, NEW b \in SUBSET Messages, LinkHasCopy
  PROVE  /\ Plan(t, b) \in Plans /\ Plan(t, b).kind # "void"
         /\ Plan(t, b).kind # "create" => Plan(t, b).at = Len(copy[t]) /\ copy[t] # <<>>
         /\ Plan(t, b).kind = "create" => Plan(t, b).new
<1>0. copy[t] \in Seq(Mirrors) /\ Len(copy[t]) \in Nat
  BY DEF CopyTyped
<1>1. CASE link[t].state = "none" /\ ~Held(t)
  BY <1>0, <1>1 DEF Plan, Plans
<1>2. CASE ~(link[t].state = "none" /\ ~Held(t))
  <2>1. copy[t] # <<>> /\ Copy(t) \in Mirrors
    BY <1>2, CopyIs DEF LinkHasCopy, Held
  <2>2. Base(t, b) \in SUBSET Messages
    BY <2>1 DEF Base, Aligned, Mirrors
  <2>3. Plan(t, b).kind \in {"detach", "touch", "fork", "append"}
    BY <1>2 DEF Plan
  <2>4. Plan(t, b) = [kind |-> Plan(t, b).kind, new |-> (link[t].state = "none"), at |-> Len(copy[t]),
                      base |-> Base(t, b),
                      adds |-> IF Plan(t, b).kind = "detach" THEN {} ELSE b \ Base(t, b)]
    BY <1>2, <2>3 DEF Plan
  <2>5. (IF Plan(t, b).kind = "detach" THEN {} ELSE b \ Base(t, b)) \in SUBSET Messages
    OBVIOUS
  <2>6. (link[t].state = "none") \in BOOLEAN
    OBVIOUS
  <2>7. Plan(t, b) \in Plans
    <3>1. \A k \in {"detach", "touch", "fork", "append"}, n \in BOOLEAN, a \in Nat,
             s, e \in SUBSET Messages :
            [kind |-> k, new |-> n, at |-> a, base |-> s, adds |-> e] \in Plans
      BY DEF Plans
    <3>2. [kind |-> Plan(t, b).kind, new |-> (link[t].state = "none"), at |-> Len(copy[t]),
           base |-> Base(t, b),
           adds |-> IF Plan(t, b).kind = "detach" THEN {} ELSE b \ Base(t, b)] \in Plans
      BY <1>0, <2>2, <2>3, <2>5, <2>6, <3>1, Zenon
    <3> QED
      BY <2>4, <3>2, Zenon
  <2> QED
    BY <2>1, <2>3, <2>4, <2>7
<1> QED
  BY <1>1, <1>2

\* Every step keeps the types of the runs.
LEMMA StepRun ==
  ASSUME RunTyped, LinkTyped, CopyTyped, LinkHasCopy, TodoLeft, RemoteTyped, [Next]_vars
  PROVE  RunTyped'
<1>1. CASE UNCHANGED run
  BY <1>1 DEF RunTyped
<1>2. ASSUME Expire \/ Save \/ (\E t \in Threads : Post(t) \/ RemoteDelete(t) \/ Continue(t)
             \/ DeleteLocal(t)) \/ UNCHANGED vars
      PROVE  UNCHANGED run
  BY <1>2, Zenon DEF Post, RemoteDelete, Continue, Here, DeleteLocal, Expire, Save, vars
<1>3. ASSUME NEW r \in Runs, Start(r) PROVE RunTyped'
  <2>0. run[r] \in RunStates
    BY RunFields
  <2>1. run'[r] \in RunStates
    BY <1>3, <2>0, RunIs, IdleTyped DEF Start, Set, Vanish, ThreadFails, RunTyped
  <2> QED
    BY <1>3, <2>1 DEF RunTyped, Start, Set, Vanish, ThreadFails
<1>4. ASSUME NEW r \in Runs, Read(r) PROVE RunTyped'
  <2>0. run[r] \in RunStates
    BY RunFields
  <2>2. WholeList(r) \in BOOLEAN /\ link \in Knowns
    BY DEF WholeList, LinkTyped, Knowns
  <2>1. run'[r] \in RunStates
    BY <1>4, <2>0, RunIs, <2>2, IdleTyped DEF Read, Set, Vanish, ThreadFails, RunTyped
  <2> QED
    BY <1>4, <2>1 DEF RunTyped, Read, Set, Vanish, ThreadFails
<1>5. ASSUME NEW r \in Runs, List(r) PROVE RunTyped'
  <2>0. run[r] \in RunStates /\ run[r].page + 1 \in Nat
    <3>1. run[r] \in RunStates
      BY RunFields
    <3> QED
      BY <3>1, RunIs
  <2>2. PICK t \in OnPage(run[r].page) :
          Set(r, [run[r] EXCEPT !.page = @ + 1,
                    !.todo = IF Changed(r, t) THEN Append(@, [thread |-> t, seen |-> LastOf(t)])
                                              ELSE @])
    BY <1>5, Zenon DEF List
  <2>3. [thread |-> t, seen |-> LastOf(t)] \in Todo
    BY OfTyped DEF OnPage, Listed, Todo
  <2>4. Append(run[r].todo, [thread |-> t, seen |-> LastOf(t)]) \in Todos
    BY <2>3, RunFields DEF Todos
  <2>5. run[r].todo \in Todos
    BY RunFields DEF Todos
  <2> DEFINE T == IF Changed(r, t) THEN Append(run[r].todo, [thread |-> t, seen |-> LastOf(t)])
                  ELSE run[r].todo
  <2>6. T \in Todos
    BY <2>4, <2>5
  <2>7. run' = [run EXCEPT ![r] = [run[r] EXCEPT !.page = run[r].page + 1, !.todo = T]]
    BY <2>2 DEF Set
  <2> HIDE DEF T
  <2>1. [run[r] EXCEPT !.page = run[r].page + 1, !.todo = T] \in RunStates
    BY <2>0, <2>6, RunIs
  <2> QED
    BY <2>1, <2>7 DEF RunTyped
<1>6. ASSUME NEW r \in Runs, Listing(r) PROVE RunTyped'
  <2>0. run[r] \in RunStates
    BY RunFields
  <2>2. /\ Over(Len(run[r].todo)) \in Nat
        /\ SubSeq(run[r].todo, 1, IF Len(run[r].todo) > PerRound THEN PerRound ELSE Len(run[r].todo)) \in Todos
    BY RunFields, RemoteSyncAssumption DEF Todos, Over
  <2>1. run'[r] \in RunStates
    BY <1>6, <2>0, RunIs, <2>2 DEF Listing, Set, Vanish, ThreadFails, RunTyped
  <2> QED
    BY <1>6, <2>1 DEF RunTyped, Listing, Set, Vanish, ThreadFails
<1>7. ASSUME NEW r \in Runs, Pull(r) PROVE RunTyped'
  <2>0. run[r] \in RunStates
    BY RunFields
  <2>2. \A k : {n \in Of(This(r).thread) : k.state # "detached" /\ n >= k.head} \in Batches
    BY OfTyped DEF Batches
  <2>1. run'[r] \in RunStates
    BY <1>7, <2>0, RunIs, <2>2, IdleTyped DEF Pull, Set, Vanish, ThreadFails, RunTyped
  <2> QED
    BY <1>7, <2>1 DEF RunTyped, Pull, Set, Vanish, ThreadFails
<1>8. ASSUME NEW r \in Runs, PullNothing(r) PROVE RunTyped'
  <2>0. run[r] \in RunStates
    BY RunFields
  <2>1. run'[r] \in RunStates
    BY <1>8, <2>0, RunIs DEF PullNothing, Set, Vanish, ThreadFails, RunTyped
  <2> QED
    BY <1>8, <2>1 DEF RunTyped, PullNothing, Set, Vanish, ThreadFails
<1>9. ASSUME NEW r \in Runs, Look(r) PROVE RunTyped'
  <2>0. run[r] \in RunStates
    BY RunFields
  <2>2. Plan(This(r).thread, run[r].batch) \in Plans
    BY <1>9, PlanTyped, HeadTyped, RunFields DEF Look
  <2>1. run'[r] \in RunStates
    BY <1>9, <2>0, RunIs, <2>2, IdleTyped DEF Look, Set, Vanish, ThreadFails, RunTyped
  <2> QED
    BY <1>9, <2>1 DEF RunTyped, Look, Set, Vanish, ThreadFails
<1>10. ASSUME NEW r \in Runs, Commit(r) PROVE RunTyped'
  <2>0. run[r] \in RunStates
    BY RunFields
  <2>1. run'[r] \in RunStates
    BY <1>10, <2>0, RunIs, IdleTyped DEF Commit, Set, Vanish, ThreadFails, RunTyped
  <2> QED
    BY <1>10, <2>1 DEF RunTyped, Commit, Set, Vanish, ThreadFails
<1>11. ASSUME NEW r \in Runs, CommitFails(r) PROVE RunTyped'
  <2>0. run[r] \in RunStates
    BY RunFields
  <2>2. run[r].todo # <<>> /\ Tail(run[r].todo) \in Todos
    BY <1>11, HeadTyped DEF Todos, CommitFails
  <2>1. run'[r] \in RunStates
    BY <1>11, <2>0, RunIs, <2>2, IdleTyped DEF CommitFails, Set, Vanish, ThreadFails, RunTyped
  <2> QED
    BY <1>11, <2>1 DEF RunTyped, CommitFails, Set, Vanish, ThreadFails
<1>12. ASSUME NEW r \in Runs, Extend(r) PROVE RunTyped'
  <2>0. run[r] \in RunStates
    BY RunFields
  <2>1. CASE lease = r
    <3>1. Tail(run[r].todo) \in Todos
      BY <1>12, HeadTyped DEF Todos, Extend
    <3>2. [run[r] EXCEPT !.pc = "next", !.todo = Tail(run[r].todo)] \in RunStates
      BY <2>0, <3>1, RunIs
    <3> QED
      BY <1>12, <2>1, <3>2 DEF Extend, Set, RunTyped
  <2>2. CASE lease # r
    BY <1>12, <2>2, IdleTyped DEF Extend, Set, Vanish, RunTyped
  <2> QED
    BY <2>1, <2>2
<1>13. ASSUME NEW r \in Runs, RoundOver(r) PROVE RunTyped'
  <2>0. run[r] \in RunStates
    BY RunFields
  <2>2. run[r].over + 1 \in Nat
    BY <2>0 DEF RunStates
  <2>1. run'[r] \in RunStates
    BY <1>13, <2>0, RunIs, <2>2 DEF RoundOver, Set, Vanish, ThreadFails, RunTyped
  <2> QED
    BY <1>13, <2>1 DEF RunTyped, RoundOver, Set, Vanish, ThreadFails
<1>14. ASSUME NEW r \in Runs, Record(r) PROVE RunTyped'
  <2>0. run[r] \in RunStates
    BY RunFields
  <2>1. run'[r] \in RunStates
    BY <1>14, <2>0, RunIs, IdleTyped DEF Record, Set, Vanish, ThreadFails, RunTyped
  <2> QED
    BY <1>14, <2>1 DEF RunTyped, Record, Set, Vanish, ThreadFails
<1>15. ASSUME NEW r \in Runs, Release(r) PROVE RunTyped'
  <2>0. run[r] \in RunStates
    BY RunFields
  <2>1. run'[r] \in RunStates
    BY <1>15, <2>0, RunIs, IdleTyped DEF Release, Set, Vanish, ThreadFails, RunTyped
  <2> QED
    BY <1>15, <2>1 DEF RunTyped, Release, Set, Vanish, ThreadFails
<1>16. ASSUME NEW r \in Runs, RunFails(r) PROVE RunTyped'
  <2>0. run[r] \in RunStates
    BY RunFields
  <2>1. run'[r] \in RunStates
    BY <1>16, <2>0, RunIs, IdleTyped DEF RunFails, Set, Vanish, ThreadFails, RunTyped
  <2> QED
    BY <1>16, <2>1 DEF RunTyped, RunFails, Set, Vanish, ThreadFails
<1>17. ASSUME NEW r \in Runs, PullFails(r) PROVE RunTyped'
  <2>0. run[r] \in RunStates
    BY RunFields
  <2>2. run[r].todo # <<>> /\ Tail(run[r].todo) \in Todos
    BY <1>17, HeadTyped DEF Todos, PullFails
  <2>1. run'[r] \in RunStates
    BY <1>17, <2>0, RunIs, <2>2, IdleTyped DEF PullFails, Set, Vanish, ThreadFails, RunTyped
  <2> QED
    BY <1>17, <2>1 DEF RunTyped, PullFails, Set, Vanish, ThreadFails
<1>18. ASSUME NEW r \in Runs, ExtendFails(r) PROVE RunTyped'
  <2>0. run[r] \in RunStates
    BY RunFields
  <2>2. run[r].todo # <<>> /\ Tail(run[r].todo) \in Todos
    BY <1>18, HeadTyped DEF Todos, ExtendFails
  <2>1. run'[r] \in RunStates
    BY <1>18, <2>0, RunIs, <2>2, IdleTyped DEF ExtendFails, Set, Vanish, ThreadFails, RunTyped
  <2> QED
    BY <1>18, <2>1 DEF RunTyped, ExtendFails, Set, Vanish, ThreadFails
<1>19. ASSUME NEW r \in Runs, Refused(r) PROVE RunTyped'
  <2>0. run[r] \in RunStates
    BY RunFields
  <2>1. run'[r] \in RunStates
    BY <1>19, <2>0, RunIs DEF Refused, Set, Vanish, ThreadFails, RunTyped
  <2> QED
    BY <1>19, <2>1 DEF RunTyped, Refused, Set, Vanish, ThreadFails
<1>20. ASSUME NEW r \in Runs, Cancel(r) PROVE RunTyped'
  <2>0. run[r] \in RunStates
    BY RunFields
  <2>2. (IF run[r].last = 0 THEN 0 ELSE run[r].last - 1) \in Nat
    BY <2>0 DEF RunStates
  <2>1. run'[r] \in RunStates
    BY <1>20, <2>0, RunIs, <2>2, IdleTyped DEF Cancel, Set, Vanish, ThreadFails, RunTyped
  <2> QED
    BY <1>20, <2>1 DEF RunTyped, Cancel, Set, Vanish, ThreadFails
<1>21. ASSUME NEW r \in Runs, Crash(r) PROVE RunTyped'
  <2>0. run[r] \in RunStates
    BY RunFields
  <2>1. run'[r] \in RunStates
    BY <1>21, <2>0, RunIs, IdleTyped DEF Crash, Set, Vanish, ThreadFails, RunTyped
  <2> QED
    BY <1>21, <2>1 DEF RunTyped, Crash, Set, Vanish, ThreadFails
<1>22. ASSUME Stop PROVE RunTyped'
  <2>1. \A r \in Runs : [run[r] EXCEPT !.plan.kind = "void"] \in RunStates
    <3> SUFFICES ASSUME NEW r \in Runs PROVE [run[r] EXCEPT !.plan.kind = "void"] \in RunStates
      OBVIOUS
    <3>1. [run[r].plan EXCEPT !.kind = "void"] \in Plans
      BY RunFields DEF Plans
    <3> QED
      BY <3>1, RunFields, RunIs
  <2> QED
    BY <1>22, <2>1, RunFields DEF RunTyped, Stop
<1> QED
  BY <1>1, <1>2, <1>3, <1>4, <1>5, <1>6, <1>7, <1>8, <1>9, <1>10, <1>11, <1>12, <1>13, <1>14,
     <1>15, <1>16, <1>17, <1>18, <1>19, <1>20, <1>21, <1>22 DEF Next, Step, Fault, Others

\* The link that a transaction writes.
NewHead(t, p) == Newest({link[t].head} \cup p.adds \cup (IF p.new THEN p.base ELSE {}))
Linked(t, p, s) ==
  [state |-> IF p.kind = "detach" THEN "detached" ELSE "active", seen |-> s, head |-> NewHead(t, p)]

\* The copies that it leaves.
Copied(t, p) ==
  CASE p.kind \in {"create", "fork"} -> Append(copy[t], Mirror(Prefix(t, p) \cup p.adds))
    [] p.kind = "append" -> [copy[t] EXCEPT ![p.at] = [copy[t][p.at] EXCEPT !.msgs = copy[t][p.at].msgs \cup p.adds]]
    [] OTHER -> copy[t]

\* What a transaction writes, and its types.
LEMMA CommitTyped ==
  ASSUME RunTyped, LinkTyped, CopyTyped, TodoLeft, PlanHasCopy, NEW r \in Runs, Commit(r),
         NEW t, t = This(r).thread, NEW p, p = run[r].plan
  PROVE  /\ t \in Threads /\ p \in Plans /\ This(r).seen \in 0..Posts
         /\ p.kind # "void" /\ (p.kind # "create" => p.at \in DOMAIN copy[t])
         /\ ~Clash(t, p)
         /\ link' = [link EXCEPT ![t] = Linked(t, p, This(r).seen)]
         /\ Linked(t, p, This(r).seen) \in Links
         /\ copy' = [copy EXCEPT ![t] = Copied(t, p)]
         /\ Copied(t, p) \in Seq(Mirrors)
<1>1. t \in Threads /\ p \in Plans /\ This(r).seen \in 0..Posts
  BY HeadTyped, RunFields, Zenon DEF Commit
<1>2. p.kind # "void" /\ ~Clash(t, p)
  BY Zenon DEF Commit, Clash
<1>3. p.adds \in SUBSET Messages /\ p.base \in SUBSET Messages
  BY <1>1 DEF Plans
<1>4. p.kind # "create" => p.at \in DOMAIN copy[t]
  BY <1>2, Zenon DEF PlanHasCopy, Commit
<1>5. NewHead(t, p) \in 0..Posts
  <2> DEFINE h == {link[t].head} \cup p.adds \cup (IF p.new THEN p.base ELSE {})
  <2>1. h \in SUBSET (0..Posts)
    BY <1>1, <1>3, RemoteSyncAssumption DEF LinkTyped, Links, Messages
  <2> HIDE DEF h
  <2>2. Newest(h) \in 0..Posts
    BY <2>1, NewestIs
  <2> QED
    BY <2>2 DEF NewHead, h
<1>6. Linked(t, p, This(r).seen) \in Links
  <2>1. (IF p.kind = "detach" THEN "detached" ELSE "active") \in {"none", "active", "detached"}
    OBVIOUS
  <2> QED
    BY <1>1, <1>5, <2>1 DEF Links, Linked
<1>7. link' = [link EXCEPT ![t] = Linked(t, p, This(r).seen)]
  BY Zenon DEF Commit, Noted, Linked, NewHead
<1>8. copy' = [copy EXCEPT ![t] = Copied(t, p)]
  <2>1. CASE p.kind \in {"create", "fork"}
    BY <2>1, Zenon DEF Commit, Copied
  <2>2. CASE p.kind = "append"
    BY <2>2, Zenon DEF Commit, Copied
  <2>3. CASE p.kind \notin {"create", "fork", "append"}
    BY <2>3, Zenon DEF Commit, Copied
  <2> QED
    BY <2>1, <2>2, <2>3
<1>9. Copied(t, p) \in Seq(Mirrors)
  <2>0. copy[t] \in Seq(Mirrors)
    BY <1>1 DEF CopyTyped
  <2>1. CASE p.kind \in {"create", "fork"}
    <3>1. Prefix(t, p) \in SUBSET Messages
      <4>1. CASE p.kind = "create" \/ ~copy[t][p.at].alive
        BY <4>1 DEF Prefix
      <4>2. CASE ~(p.kind = "create" \/ ~copy[t][p.at].alive)
        <5>1. copy[t][p.at] \in Mirrors
          BY <1>4, <2>0, <4>2
        <5> QED
          BY <1>3, <4>2, <5>1 DEF Prefix, Mirrors
      <4> QED
        BY <4>1, <4>2
    <3>2. Mirror(Prefix(t, p) \cup p.adds) \in Mirrors
      BY <1>3, <3>1 DEF Mirror, Mirrors
    <3>3. Copied(t, p) = Append(copy[t], Mirror(Prefix(t, p) \cup p.adds))
      BY <2>1, Zenon DEF Copied
    <3>4. \A s \in Seq(Mirrors), e \in Mirrors : Append(s, e) \in Seq(Mirrors)
      OBVIOUS
    <3> QED
      BY <2>0, <3>2, <3>3, <3>4, Zenon
  <2>2. CASE p.kind = "append"
    <3>0. copy[t][p.at] \in Mirrors
      BY <1>4, <2>0, <2>2
    <3>1. PICK c \in Mirrors : c = [copy[t][p.at] EXCEPT !.msgs = copy[t][p.at].msgs \cup p.adds]
      BY <1>3, <3>0, Zenon DEF Mirrors
    <3>2. Copied(t, p) = [copy[t] EXCEPT ![p.at] = c]
      <4>1. p.kind \notin {"create", "fork"}
        BY <2>2
      <4> QED
        BY <2>2, <3>1, <4>1, Zenon DEF Copied
    <3>3. p.at \in DOMAIN copy[t]
      BY <1>4, <2>2
    <3>4. [copy[t] EXCEPT ![p.at] = c] \in Seq(Mirrors)
      BY <2>0, <3>3
    <3> QED
      BY <3>2, <3>4, Zenon
  <2>3. CASE p.kind \notin {"create", "fork", "append"}
    BY <2>0, <2>3 DEF Copied
  <2> QED
    BY <2>1, <2>2, <2>3
<1> QED
  BY <1>1, <1>2, <1>4, <1>6, <1>7, <1>8, <1>9

\* What somebody who writes in a copy, or deletes it, leaves of it.
Touched(t, c) ==
  /\ c \in Mirrors /\ c.msgs = Copy(t).msgs
  /\ c.base = Copy(t).base \/ (c.base = Copy(t).msgs /\ c.tail)
  /\ Copy(t).tail => c.tail /\ c.base = Copy(t).base
  /\ c.tail /\ ~Copy(t).tail => c.base = Copy(t).msgs
  /\ ~Copy(t).alive => ~c.alive

\* A step on a copy from outside the runs.
LEMMA HereIs ==
  ASSUME CopyTyped, NEW t \in Threads, Continue(t) \/ DeleteLocal(t)
  PROVE  /\ copy[t] # <<>> /\ Held(t)
         /\ crossed' = IF t \in Open THEN crossed \cup {t} ELSE crossed
         /\ UNCHANGED <<posts, deleted, link, run>>
         /\ \E c : /\ Touched(t, c)
                   /\ copy' = [copy EXCEPT ![t] = [copy[t] EXCEPT ![Len(copy[t])] = c]]
                   /\ [copy[t] EXCEPT ![Len(copy[t])] = c] \in Seq(Mirrors)
<1>1. copy[t] # <<>> /\ Held(t)
  BY DEF Continue, DeleteLocal, Here, Held
<1>2. copy[t] \in Seq(Mirrors) /\ Copy(t) \in Mirrors /\ Len(copy[t]) \in DOMAIN copy[t]
  BY <1>1, CopyIs
<1>3. \A c : Here(t, c) =>
        copy' = [copy EXCEPT ![t] = [copy[t] EXCEPT ![Len(copy[t])] = c]]
  BY DEF Here
<1>4. \A c \in Mirrors : [copy[t] EXCEPT ![Len(copy[t])] = c] \in Seq(Mirrors)
  BY <1>2
<1>5. \E c : Touched(t, c) /\ Here(t, c)
  <2>1. CASE Continue(t)
    <3> DEFINE c == [Copy(t) EXCEPT !.tail = TRUE, !.base = Copy(t).msgs]
    <3>1. Here(t, c) /\ ~Copy(t).tail
      BY <2>1 DEF Continue
    <3>2. Touched(t, c)
      BY <1>2, <3>1 DEF Touched, Mirrors
    <3> QED
      BY <3>1, <3>2
  <2>2. CASE DeleteLocal(t)
    <3> DEFINE c == [Copy(t) EXCEPT !.alive = FALSE]
    <3>1. Here(t, c)
      BY <2>2 DEF DeleteLocal
    <3>2. Touched(t, c)
      BY <1>2 DEF Touched, Mirrors
    <3> QED
      BY <3>1, <3>2
  <2> QED
    BY <2>1, <2>2
<1>6. PICK c : Touched(t, c) /\ Here(t, c)
  BY <1>5
<1>7. c \in Mirrors
  BY <1>6 DEF Touched
<1> QED
  BY <1>1, <1>3, <1>4, <1>6, <1>7 DEF Here, remote

\* Nobody is at work and nothing is linked to begin with.
LEMMA IdlePc == Idle.pc = "idle" /\ NoLink.state = "none"
BY DEF Idle, NoLink

\* Every step keeps the types of the links.
LEMMA StepLink ==
  ASSUME LinkTyped, RunTyped, CopyTyped, TodoLeft, PlanHasCopy, [Next]_vars
  PROVE  LinkTyped'
<1>1. CASE UNCHANGED link
  BY <1>1 DEF LinkTyped
<1>2. ASSUME (\E r \in Runs : Start(r) \/ Read(r) \/ List(r) \/ Listing(r) \/ Pull(r) \/
             PullNothing(r) \/ Look(r) \/ CommitFails(r) \/ Extend(r) \/ RoundOver(r) \/
             Record(r) \/ Release(r) \/ RunFails(r) \/ PullFails(r) \/ ExtendFails(r) \/
             Refused(r) \/ Cancel(r) \/ Crash(r)) \/ Expire \/ Save \/ (\E t \in Threads :
             Post(t) \/ RemoteDelete(t) \/ Continue(t) \/ DeleteLocal(t)) \/ UNCHANGED vars
      PROVE  UNCHANGED link
  <2>1. ASSUME NEW r \in Runs, Start(r) \/ Read(r) \/ List(r) \/ Listing(r)
        PROVE  UNCHANGED link
    BY <2>1, Zenon DEF Start, Read, List, Listing, local
  <2>2. ASSUME NEW r \in Runs, Pull(r) \/ PullNothing(r) \/ Look(r) \/ CommitFails(r)
        PROVE  UNCHANGED link
    BY <2>2, Zenon DEF Pull, PullNothing, Look, CommitFails, local
  <2>3. ASSUME NEW r \in Runs, Extend(r) \/ RoundOver(r) \/ Record(r) \/ Release(r)
        PROVE  UNCHANGED link
    BY <2>3, Zenon DEF Extend, RoundOver, Record, Release, local
  <2>4. ASSUME NEW r \in Runs, RunFails(r) \/ PullFails(r) \/ ExtendFails(r) \/ Refused(r)
        PROVE  UNCHANGED link
    BY <2>4, Zenon DEF RunFails, PullFails, ExtendFails, Refused, local
  <2>5. ASSUME NEW r \in Runs, Cancel(r) \/ Crash(r)
        PROVE  UNCHANGED link
    BY <2>5, Zenon DEF Cancel, Crash, local
  <2>6. ASSUME Expire \/ Save \/ (\E t \in Threads : Post(t) \/ RemoteDelete(t) \/ Continue(t) \/ DeleteLocal(t)) \/ UNCHANGED vars
        PROVE  UNCHANGED link
    BY <2>6, Zenon DEF Expire, Save, Post, RemoteDelete, Continue, DeleteLocal, local, Here, vars
  <2> QED
    BY <1>2, <2>1, <2>2, <2>3, <2>4, <2>5, <2>6
<1>3. ASSUME NEW r \in Runs, Commit(r) PROVE LinkTyped'
  <2>1. /\ This(r).thread \in Threads
        /\ link' = [link EXCEPT ![This(r).thread] = Linked(This(r).thread, run[r].plan, This(r).seen)]
        /\ Linked(This(r).thread, run[r].plan, This(r).seen) \in Links
    BY <1>3, CommitTyped
  <2> QED
    BY <2>1 DEF LinkTyped
<1>4. ASSUME Stop PROVE LinkTyped'
  BY <1>4, IdleTyped DEF Stop, LinkTyped
<1> QED
  BY <1>1, <1>2, <1>3, <1>4 DEF Next, Step, Fault, Others

\* Every step keeps the types of the copies.
LEMMA StepCopy ==
  ASSUME LinkTyped, RunTyped, CopyTyped, TodoLeft, PlanHasCopy, [Next]_vars
  PROVE  CopyTyped'
<1>1. CASE UNCHANGED copy
  BY <1>1 DEF CopyTyped
<1>2. ASSUME (\E r \in Runs : Start(r) \/ Read(r) \/ List(r) \/ Listing(r) \/ Pull(r) \/
             PullNothing(r) \/ Look(r) \/ CommitFails(r) \/ Extend(r) \/ RoundOver(r) \/
             Record(r) \/ Release(r) \/ RunFails(r) \/ PullFails(r) \/ ExtendFails(r) \/
             Refused(r) \/ Cancel(r) \/ Crash(r)) \/ Expire \/ Stop \/ Save \/ (\E t \in
             Threads : Post(t) \/ RemoteDelete(t)) \/ UNCHANGED vars
      PROVE  UNCHANGED copy
  <2>1. ASSUME NEW r \in Runs, Start(r) \/ Read(r) \/ List(r) \/ Listing(r)
        PROVE  UNCHANGED copy
    BY <2>1, Zenon DEF Start, Read, List, Listing, local
  <2>2. ASSUME NEW r \in Runs, Pull(r) \/ PullNothing(r) \/ Look(r) \/ CommitFails(r)
        PROVE  UNCHANGED copy
    BY <2>2, Zenon DEF Pull, PullNothing, Look, CommitFails, local
  <2>3. ASSUME NEW r \in Runs, Extend(r) \/ RoundOver(r) \/ Record(r) \/ Release(r)
        PROVE  UNCHANGED copy
    BY <2>3, Zenon DEF Extend, RoundOver, Record, Release, local
  <2>4. ASSUME NEW r \in Runs, RunFails(r) \/ PullFails(r) \/ ExtendFails(r) \/ Refused(r)
        PROVE  UNCHANGED copy
    BY <2>4, Zenon DEF RunFails, PullFails, ExtendFails, Refused, local
  <2>5. ASSUME NEW r \in Runs, Cancel(r) \/ Crash(r)
        PROVE  UNCHANGED copy
    BY <2>5, Zenon DEF Cancel, Crash, local
  <2>6. ASSUME Expire \/ Stop \/ Save \/ (\E t \in Threads : Post(t) \/ RemoteDelete(t)) \/ UNCHANGED vars
        PROVE  UNCHANGED copy
    BY <2>6, Zenon DEF Expire, Stop, Save, Post, RemoteDelete, local, vars
  <2> QED
    BY <1>2, <2>1, <2>2, <2>3, <2>4, <2>5, <2>6
<1>3. ASSUME NEW r \in Runs, Commit(r) PROVE CopyTyped'
  <2>1. /\ This(r).thread \in Threads
        /\ copy' = [copy EXCEPT ![This(r).thread] = Copied(This(r).thread, run[r].plan)]
        /\ Copied(This(r).thread, run[r].plan) \in Seq(Mirrors)
    BY <1>3, CommitTyped
  <2> QED
    BY <2>1 DEF CopyTyped
<1>4. ASSUME NEW t \in Threads, Continue(t) PROVE CopyTyped'
  <2>1. PICK c : /\ copy' = [copy EXCEPT ![t] = [copy[t] EXCEPT ![Len(copy[t])] = c]]
                 /\ [copy[t] EXCEPT ![Len(copy[t])] = c] \in Seq(Mirrors)
    BY <1>4, HereIs
  <2> QED
    BY <2>1 DEF CopyTyped
<1>5. ASSUME NEW t \in Threads, DeleteLocal(t) PROVE CopyTyped'
  <2>1. PICK c : /\ copy' = [copy EXCEPT ![t] = [copy[t] EXCEPT ![Len(copy[t])] = c]]
                 /\ [copy[t] EXCEPT ![Len(copy[t])] = c] \in Seq(Mirrors)
    BY <1>5, HereIs
  <2> QED
    BY <2>1 DEF CopyTyped
<1> QED
  BY <1>1, <1>2, <1>3, <1>4, <1>5 DEF Next, Step, Fault, Others

\* Every step keeps TodoLeft: a run takes an entry away once it is done with it.
LEMMA StepTodoLeft ==
  ASSUME RunTyped, TodoLeft, [Next]_vars
  PROVE  TodoLeft'
<1>1. CASE UNCHANGED run
  BY <1>1 DEF TodoLeft
<1>2. ASSUME Expire \/ Save \/ (\E t \in Threads : Post(t) \/ RemoteDelete(t) \/ Continue(t)
             \/ DeleteLocal(t)) \/ UNCHANGED vars
      PROVE  UNCHANGED run
  BY <1>2, Zenon DEF Post, RemoteDelete, Continue, Here, DeleteLocal, Expire, Save, vars
<1>3. ASSUME NEW r \in Runs, Start(r) PROVE TodoLeft'
  <2>1. run[r] \in RunStates /\ <<>> \in Todos
    BY RunFields, RunIs
  <2>2. \A q \in Runs \ {r} : run'[q] = run[q]
    BY <1>3 DEF Start, Set, Vanish, ThreadFails, RunTyped
  <2>3. run'[r].pc \in {"look", "commit", "extend"} => run'[r].todo # <<>>
    BY <1>3, <2>1, IdlePc DEF Start, Set, Vanish, ThreadFails, RunTyped, RunStates, TodoLeft
  <2> QED
    BY <2>2, <2>3 DEF TodoLeft
<1>4. ASSUME NEW r \in Runs, Read(r) PROVE TodoLeft'
  <2>1. run[r] \in RunStates /\ <<>> \in Todos
    BY RunFields, RunIs
  <2>2. \A q \in Runs \ {r} : run'[q] = run[q]
    BY <1>4 DEF Read, Set, Vanish, ThreadFails, RunTyped
  <2>3. run'[r].pc \in {"look", "commit", "extend"} => run'[r].todo # <<>>
    BY <1>4, <2>1, IdlePc DEF Read, Set, Vanish, ThreadFails, RunTyped, RunStates, TodoLeft
  <2> QED
    BY <2>2, <2>3 DEF TodoLeft
<1>5. ASSUME NEW r \in Runs, List(r) PROVE TodoLeft'
  <2>1. run[r] \in RunStates /\ <<>> \in Todos
    BY RunFields, RunIs
  <2>2. \A q \in Runs \ {r} : run'[q] = run[q]
    BY <1>5 DEF List, Set, Vanish, ThreadFails, RunTyped
  <2>3. run'[r].pc \in {"look", "commit", "extend"} => run'[r].todo # <<>>
    BY <1>5, <2>1, IdlePc DEF List, Set, Vanish, ThreadFails, RunTyped, RunStates, TodoLeft
  <2> QED
    BY <2>2, <2>3 DEF TodoLeft
<1>6. ASSUME NEW r \in Runs, Listing(r) PROVE TodoLeft'
  <2>1. run[r] \in RunStates /\ <<>> \in Todos
    BY RunFields, RunIs
  <2>2. \A q \in Runs \ {r} : run'[q] = run[q]
    BY <1>6 DEF Listing, Set, Vanish, ThreadFails, RunTyped
  <2>3. run'[r].pc \in {"look", "commit", "extend"} => run'[r].todo # <<>>
    BY <1>6, <2>1, IdlePc DEF Listing, Set, Vanish, ThreadFails, RunTyped, RunStates, TodoLeft
  <2> QED
    BY <2>2, <2>3 DEF TodoLeft
<1>7. ASSUME NEW r \in Runs, Pull(r) PROVE TodoLeft'
  <2>1. run[r] \in RunStates /\ <<>> \in Todos
    BY RunFields, RunIs
  <2>2. \A q \in Runs \ {r} : run'[q] = run[q]
    BY <1>7 DEF Pull, Set, Vanish, ThreadFails, RunTyped
  <2>3. run'[r].pc \in {"look", "commit", "extend"} => run'[r].todo # <<>>
    BY <1>7, <2>1, IdlePc DEF Pull, Set, Vanish, ThreadFails, RunTyped, RunStates, TodoLeft
  <2> QED
    BY <2>2, <2>3 DEF TodoLeft
<1>8. ASSUME NEW r \in Runs, PullNothing(r) PROVE TodoLeft'
  <2>1. run[r] \in RunStates /\ <<>> \in Todos
    BY RunFields, RunIs
  <2>2. \A q \in Runs \ {r} : run'[q] = run[q]
    BY <1>8 DEF PullNothing, Set, Vanish, ThreadFails, RunTyped
  <2>3. run'[r].pc \in {"look", "commit", "extend"} => run'[r].todo # <<>>
    BY <1>8, <2>1, IdlePc DEF PullNothing, Set, Vanish, ThreadFails, RunTyped, RunStates, TodoLeft
  <2> QED
    BY <2>2, <2>3 DEF TodoLeft
<1>9. ASSUME NEW r \in Runs, Look(r) PROVE TodoLeft'
  <2>1. run[r] \in RunStates /\ <<>> \in Todos
    BY RunFields, RunIs
  <2>2. \A q \in Runs \ {r} : run'[q] = run[q]
    BY <1>9 DEF Look, Set, Vanish, ThreadFails, RunTyped
  <2>3. run'[r].pc \in {"look", "commit", "extend"} => run'[r].todo # <<>>
    BY <1>9, <2>1, IdlePc DEF Look, Set, Vanish, ThreadFails, RunTyped, RunStates, TodoLeft
  <2> QED
    BY <2>2, <2>3 DEF TodoLeft
<1>10. ASSUME NEW r \in Runs, Commit(r) PROVE TodoLeft'
  <2>1. run[r] \in RunStates /\ <<>> \in Todos
    BY RunFields, RunIs
  <2>2. \A q \in Runs \ {r} : run'[q] = run[q]
    BY <1>10 DEF Commit, Set, Vanish, ThreadFails, RunTyped
  <2>3. run'[r].pc \in {"look", "commit", "extend"} => run'[r].todo # <<>>
    BY <1>10, <2>1, IdlePc DEF Commit, Set, Vanish, ThreadFails, RunTyped, RunStates, TodoLeft
  <2> QED
    BY <2>2, <2>3 DEF TodoLeft
<1>11. ASSUME NEW r \in Runs, CommitFails(r) PROVE TodoLeft'
  <2>1. run[r] \in RunStates /\ <<>> \in Todos
    BY RunFields, RunIs
  <2>2. \A q \in Runs \ {r} : run'[q] = run[q]
    BY <1>11 DEF CommitFails, Set, Vanish, ThreadFails, RunTyped
  <2>3. run'[r].pc \in {"look", "commit", "extend"} => run'[r].todo # <<>>
    BY <1>11, <2>1, IdlePc DEF CommitFails, Set, Vanish, ThreadFails, RunTyped, RunStates, TodoLeft
  <2> QED
    BY <2>2, <2>3 DEF TodoLeft
<1>12. ASSUME NEW r \in Runs, Extend(r) PROVE TodoLeft'
  <2>1. run[r] \in RunStates /\ <<>> \in Todos
    BY RunFields, RunIs
  <2>2. \A q \in Runs \ {r} : run'[q] = run[q]
    BY <1>12 DEF Extend, Set, Vanish, ThreadFails, RunTyped
  <2>3. run'[r].pc \in {"look", "commit", "extend"} => run'[r].todo # <<>>
    BY <1>12, <2>1, IdlePc, ZenonT(40) DEF Extend, Set, Vanish, ThreadFails, RunTyped, RunStates, TodoLeft
  <2> QED
    BY <2>2, <2>3 DEF TodoLeft
<1>13. ASSUME NEW r \in Runs, RoundOver(r) PROVE TodoLeft'
  <2>1. run[r] \in RunStates /\ <<>> \in Todos
    BY RunFields, RunIs
  <2>2. \A q \in Runs \ {r} : run'[q] = run[q]
    BY <1>13 DEF RoundOver, Set, Vanish, ThreadFails, RunTyped
  <2>3. run'[r].pc \in {"look", "commit", "extend"} => run'[r].todo # <<>>
    BY <1>13, <2>1, IdlePc DEF RoundOver, Set, Vanish, ThreadFails, RunTyped, RunStates, TodoLeft
  <2> QED
    BY <2>2, <2>3 DEF TodoLeft
<1>14. ASSUME NEW r \in Runs, Record(r) PROVE TodoLeft'
  <2>1. run[r] \in RunStates /\ <<>> \in Todos
    BY RunFields, RunIs
  <2>2. \A q \in Runs \ {r} : run'[q] = run[q]
    BY <1>14 DEF Record, Set, Vanish, ThreadFails, RunTyped
  <2>3. run'[r].pc \in {"look", "commit", "extend"} => run'[r].todo # <<>>
    BY <1>14, <2>1, IdlePc DEF Record, Set, Vanish, ThreadFails, RunTyped, RunStates, TodoLeft
  <2> QED
    BY <2>2, <2>3 DEF TodoLeft
<1>15. ASSUME NEW r \in Runs, Release(r) PROVE TodoLeft'
  <2>1. run[r] \in RunStates /\ <<>> \in Todos
    BY RunFields, RunIs
  <2>2. \A q \in Runs \ {r} : run'[q] = run[q]
    BY <1>15 DEF Release, Set, Vanish, ThreadFails, RunTyped
  <2>3. run'[r].pc \in {"look", "commit", "extend"} => run'[r].todo # <<>>
    BY <1>15, <2>1, IdlePc DEF Release, Set, Vanish, ThreadFails, RunTyped, RunStates, TodoLeft
  <2> QED
    BY <2>2, <2>3 DEF TodoLeft
<1>16. ASSUME NEW r \in Runs, RunFails(r) PROVE TodoLeft'
  <2>1. run[r] \in RunStates /\ <<>> \in Todos
    BY RunFields, RunIs
  <2>2. \A q \in Runs \ {r} : run'[q] = run[q]
    BY <1>16 DEF RunFails, Set, Vanish, ThreadFails, RunTyped
  <2>3. run'[r].pc \in {"look", "commit", "extend"} => run'[r].todo # <<>>
    BY <1>16, <2>1, IdlePc DEF RunFails, Set, Vanish, ThreadFails, RunTyped, RunStates, TodoLeft
  <2> QED
    BY <2>2, <2>3 DEF TodoLeft
<1>17. ASSUME NEW r \in Runs, PullFails(r) PROVE TodoLeft'
  <2>1. run[r] \in RunStates /\ <<>> \in Todos
    BY RunFields, RunIs
  <2>2. \A q \in Runs \ {r} : run'[q] = run[q]
    BY <1>17 DEF PullFails, Set, Vanish, ThreadFails, RunTyped
  <2>3. run'[r].pc \in {"look", "commit", "extend"} => run'[r].todo # <<>>
    BY <1>17, <2>1, IdlePc DEF PullFails, Set, Vanish, ThreadFails, RunTyped, RunStates, TodoLeft
  <2> QED
    BY <2>2, <2>3 DEF TodoLeft
<1>18. ASSUME NEW r \in Runs, ExtendFails(r) PROVE TodoLeft'
  <2>1. run[r] \in RunStates /\ <<>> \in Todos
    BY RunFields, RunIs
  <2>2. \A q \in Runs \ {r} : run'[q] = run[q]
    BY <1>18 DEF ExtendFails, Set, Vanish, ThreadFails, RunTyped
  <2>3. run'[r].pc \in {"look", "commit", "extend"} => run'[r].todo # <<>>
    BY <1>18, <2>1, IdlePc DEF ExtendFails, Set, Vanish, ThreadFails, RunTyped, RunStates, TodoLeft
  <2> QED
    BY <2>2, <2>3 DEF TodoLeft
<1>19. ASSUME NEW r \in Runs, Refused(r) PROVE TodoLeft'
  <2>1. run[r] \in RunStates /\ <<>> \in Todos
    BY RunFields, RunIs
  <2>2. \A q \in Runs \ {r} : run'[q] = run[q]
    BY <1>19 DEF Refused, Set, Vanish, ThreadFails, RunTyped
  <2>3. run'[r].pc \in {"look", "commit", "extend"} => run'[r].todo # <<>>
    BY <1>19, <2>1, IdlePc DEF Refused, Set, Vanish, ThreadFails, RunTyped, RunStates, TodoLeft
  <2> QED
    BY <2>2, <2>3 DEF TodoLeft
<1>20. ASSUME NEW r \in Runs, Cancel(r) PROVE TodoLeft'
  <2>1. run[r] \in RunStates /\ <<>> \in Todos
    BY RunFields, RunIs
  <2>2. \A q \in Runs \ {r} : run'[q] = run[q]
    BY <1>20 DEF Cancel, Set, Vanish, ThreadFails, RunTyped
  <2>3. run'[r].pc \in {"look", "commit", "extend"} => run'[r].todo # <<>>
    BY <1>20, <2>1, IdlePc DEF Cancel, Set, Vanish, ThreadFails, RunTyped, RunStates, TodoLeft
  <2> QED
    BY <2>2, <2>3 DEF TodoLeft
<1>21. ASSUME NEW r \in Runs, Crash(r) PROVE TodoLeft'
  <2>1. run[r] \in RunStates /\ <<>> \in Todos
    BY RunFields, RunIs
  <2>2. \A q \in Runs \ {r} : run'[q] = run[q]
    BY <1>21 DEF Crash, Set, Vanish, ThreadFails, RunTyped
  <2>3. run'[r].pc \in {"look", "commit", "extend"} => run'[r].todo # <<>>
    BY <1>21, <2>1, IdlePc DEF Crash, Set, Vanish, ThreadFails, RunTyped, RunStates, TodoLeft
  <2> QED
    BY <2>2, <2>3 DEF TodoLeft
<1>22. ASSUME Stop PROVE TodoLeft'
  BY <1>22, RunFields DEF Stop, TodoLeft, RunTyped, RunStates
<1> QED
  BY <1>1, <1>2, <1>3, <1>4, <1>5, <1>6, <1>7, <1>8, <1>9, <1>10, <1>11, <1>12, <1>13, <1>14,
     <1>15, <1>16, <1>17, <1>18, <1>19, <1>20, <1>21, <1>22 DEF Next, Step, Fault, Others

\* A commit takes no copy away.
LEMMA CopiedLength ==
  ASSUME CopyTyped, NEW t \in Threads, NEW p, p.kind # "create" => p.at \in DOMAIN copy[t]
  PROVE  Copied(t, p) # <<>> /\ DOMAIN copy[t] \subseteq DOMAIN Copied(t, p)
<1>0. copy[t] \in Seq(Mirrors)
  BY DEF CopyTyped
<1>1. CASE p.kind \in {"create", "fork"}
  BY <1>0, <1>1 DEF Copied
<1>2. CASE p.kind = "append"
  BY <1>0, <1>2 DEF Copied
<1>3. CASE p.kind \notin {"create", "fork", "append"}
  BY <1>0, <1>3 DEF Copied
<1> QED
  BY <1>1, <1>2, <1>3

\* Every step keeps LinkHasCopy.
LEMMA StepLinkHasCopy ==
  ASSUME LinkTyped, RunTyped, CopyTyped, TodoLeft, PlanHasCopy, LinkHasCopy, [Next]_vars
  PROVE  LinkHasCopy'
<1>1. CASE UNCHANGED <<link, copy>>
  BY <1>1 DEF LinkHasCopy
<1>2. ASSUME (\E r \in Runs : Start(r) \/ Read(r) \/ List(r) \/ Listing(r) \/ Pull(r) \/
             PullNothing(r) \/ Look(r) \/ CommitFails(r) \/ Extend(r) \/ RoundOver(r) \/
             Record(r) \/ Release(r) \/ RunFails(r) \/ PullFails(r) \/ ExtendFails(r) \/
             Refused(r) \/ Cancel(r) \/ Crash(r)) \/ Expire \/ Save \/ (\E t \in Threads :
             Post(t) \/ RemoteDelete(t)) \/ UNCHANGED vars
      PROVE  UNCHANGED <<link, copy>>
  <2>1. ASSUME NEW r \in Runs, Start(r) \/ Read(r) \/ List(r) \/ Listing(r)
        PROVE  UNCHANGED <<link, copy>>
    BY <2>1, Zenon DEF Start, Read, List, Listing, local
  <2>2. ASSUME NEW r \in Runs, Pull(r) \/ PullNothing(r) \/ Look(r) \/ CommitFails(r)
        PROVE  UNCHANGED <<link, copy>>
    BY <2>2, Zenon DEF Pull, PullNothing, Look, CommitFails, local
  <2>3. ASSUME NEW r \in Runs, Extend(r) \/ RoundOver(r) \/ Record(r) \/ Release(r)
        PROVE  UNCHANGED <<link, copy>>
    BY <2>3, Zenon DEF Extend, RoundOver, Record, Release, local
  <2>4. ASSUME NEW r \in Runs, RunFails(r) \/ PullFails(r) \/ ExtendFails(r) \/ Refused(r)
        PROVE  UNCHANGED <<link, copy>>
    BY <2>4, Zenon DEF RunFails, PullFails, ExtendFails, Refused, local
  <2>5. ASSUME NEW r \in Runs, Cancel(r) \/ Crash(r)
        PROVE  UNCHANGED <<link, copy>>
    BY <2>5, Zenon DEF Cancel, Crash, local
  <2>6. ASSUME Expire \/ Save \/ (\E t \in Threads : Post(t) \/ RemoteDelete(t)) \/ UNCHANGED vars
        PROVE  UNCHANGED <<link, copy>>
    BY <2>6, Zenon DEF Expire, Save, Post, RemoteDelete, local, vars
  <2> QED
    BY <1>2, <2>1, <2>2, <2>3, <2>4, <2>5, <2>6
<1>3. ASSUME NEW r \in Runs, Commit(r) PROVE LinkHasCopy'
  <2>0. /\ This(r).thread \in Threads
        /\ link' = [link EXCEPT ![This(r).thread] = Linked(This(r).thread, run[r].plan, This(r).seen)]
        /\ copy' = [copy EXCEPT ![This(r).thread] = Copied(This(r).thread, run[r].plan)]
        /\ run[r].plan.kind # "create" => run[r].plan.at \in DOMAIN copy[This(r).thread]
    BY <1>3, CommitTyped
  <2> DEFINE s == This(r).thread
  <2>1. link'[s].state # "none" /\ \A u \in Threads \ {s} : link'[u] = link[u] /\ copy'[u] = copy[u]
    BY <2>0 DEF Linked, LinkTyped, CopyTyped
  <2>2. copy'[s] # <<>>
    BY <1>3, <2>0, CopiedLength DEF CopyTyped
  <2> HIDE DEF s
  <2> QED
    BY <2>1, <2>2 DEF LinkHasCopy
<1>4. ASSUME NEW t \in Threads, Continue(t) PROVE LinkHasCopy'
  <2>1. PICK c : /\ copy' = [copy EXCEPT ![t] = [copy[t] EXCEPT ![Len(copy[t])] = c]]
                 /\ [copy[t] EXCEPT ![Len(copy[t])] = c] \in Seq(Mirrors)
    BY <1>4, HereIs
  <2>2. copy'[t] # <<>>
    BY <1>4, <2>1, HereIs, CopyIs DEF CopyTyped
  <2>3. \A u \in Threads \ {t} : copy'[u] = copy[u]
    BY <2>1 DEF CopyTyped
  <2>4. link' = link
    BY <1>4, HereIs
  <2> QED
    BY <2>2, <2>3, <2>4 DEF LinkHasCopy
<1>5. ASSUME NEW t \in Threads, DeleteLocal(t) PROVE LinkHasCopy'
  <2>1. PICK c : /\ copy' = [copy EXCEPT ![t] = [copy[t] EXCEPT ![Len(copy[t])] = c]]
                 /\ [copy[t] EXCEPT ![Len(copy[t])] = c] \in Seq(Mirrors)
    BY <1>5, HereIs
  <2>2. copy'[t] # <<>>
    BY <1>5, <2>1, HereIs, CopyIs DEF CopyTyped
  <2>3. \A u \in Threads \ {t} : copy'[u] = copy[u]
    BY <2>1 DEF CopyTyped
  <2>4. link' = link
    BY <1>5, HereIs
  <2> QED
    BY <2>2, <2>3, <2>4 DEF LinkHasCopy
<1>6. ASSUME Stop PROVE LinkHasCopy'
  BY <1>6, IdlePc DEF Stop, LinkHasCopy, local
<1> QED
  BY <1>1, <1>2, <1>3, <1>4, <1>5, <1>6 DEF Next, Step, Fault, Others

\* Every step keeps PlanHasCopy.
LEMMA StepPlanHasCopy ==
  ASSUME LinkTyped, RunTyped, CopyTyped, TodoLeft, PlanHasCopy, LinkHasCopy, [Next]_vars
  PROVE  PlanHasCopy'
<1>1. CASE UNCHANGED <<run, copy>>
  BY <1>1 DEF PlanHasCopy, This
<1>2. ASSUME Expire \/ Save \/ (\E t \in Threads : Post(t) \/ RemoteDelete(t)) \/ UNCHANGED
             vars
      PROVE  UNCHANGED <<run, copy>>
  BY <1>2, Zenon DEF Post, local, RemoteDelete, Expire, Save, vars
<1>3. ASSUME NEW r \in Runs, Start(r) PROVE PlanHasCopy'
  <2>1. run[r] \in RunStates
    BY RunFields
  <2>2. \A q \in Runs \ {r} : run'[q] = run[q]
    BY <1>3 DEF Start, Set, Vanish, ThreadFails, RunTyped
  <2>3. run'[r].pc # "commit"
    BY <1>3, <2>1, IdlePc DEF Start, Set, Vanish, ThreadFails, RunTyped, RunStates
  <2>4. copy' = copy
    BY <1>3 DEF Start, local, Vanish
  <2> QED
    BY <2>2, <2>3, <2>4 DEF PlanHasCopy, This
<1>4. ASSUME NEW r \in Runs, Read(r) PROVE PlanHasCopy'
  <2>1. run[r] \in RunStates
    BY RunFields
  <2>2. \A q \in Runs \ {r} : run'[q] = run[q]
    BY <1>4 DEF Read, Set, Vanish, ThreadFails, RunTyped
  <2>3. run'[r].pc # "commit"
    BY <1>4, <2>1, IdlePc DEF Read, Set, Vanish, ThreadFails, RunTyped, RunStates
  <2>4. copy' = copy
    BY <1>4 DEF Read, local, Vanish
  <2> QED
    BY <2>2, <2>3, <2>4 DEF PlanHasCopy, This
<1>5. ASSUME NEW r \in Runs, List(r) PROVE PlanHasCopy'
  <2>1. run[r] \in RunStates
    BY RunFields
  <2>2. \A q \in Runs \ {r} : run'[q] = run[q]
    BY <1>5 DEF List, Set, Vanish, ThreadFails, RunTyped
  <2>3. run'[r].pc # "commit"
    BY <1>5, <2>1, IdlePc DEF List, Set, Vanish, ThreadFails, RunTyped, RunStates
  <2>4. copy' = copy
    BY <1>5 DEF List, local, Vanish
  <2> QED
    BY <2>2, <2>3, <2>4 DEF PlanHasCopy, This
<1>6. ASSUME NEW r \in Runs, Listing(r) PROVE PlanHasCopy'
  <2>1. run[r] \in RunStates
    BY RunFields
  <2>2. \A q \in Runs \ {r} : run'[q] = run[q]
    BY <1>6 DEF Listing, Set, Vanish, ThreadFails, RunTyped
  <2>3. run'[r].pc # "commit"
    BY <1>6, <2>1, IdlePc DEF Listing, Set, Vanish, ThreadFails, RunTyped, RunStates
  <2>4. copy' = copy
    BY <1>6 DEF Listing, local, Vanish
  <2> QED
    BY <2>2, <2>3, <2>4 DEF PlanHasCopy, This
<1>7. ASSUME NEW r \in Runs, Pull(r) PROVE PlanHasCopy'
  <2>1. run[r] \in RunStates
    BY RunFields
  <2>2. \A q \in Runs \ {r} : run'[q] = run[q]
    BY <1>7 DEF Pull, Set, Vanish, ThreadFails, RunTyped
  <2>3. run'[r].pc # "commit"
    BY <1>7, <2>1, IdlePc DEF Pull, Set, Vanish, ThreadFails, RunTyped, RunStates
  <2>4. copy' = copy
    BY <1>7 DEF Pull, local, Vanish
  <2> QED
    BY <2>2, <2>3, <2>4 DEF PlanHasCopy, This
<1>8. ASSUME NEW r \in Runs, PullNothing(r) PROVE PlanHasCopy'
  <2>1. run[r] \in RunStates
    BY RunFields
  <2>2. \A q \in Runs \ {r} : run'[q] = run[q]
    BY <1>8 DEF PullNothing, Set, Vanish, ThreadFails, RunTyped
  <2>3. run'[r].pc # "commit"
    BY <1>8, <2>1, IdlePc DEF PullNothing, Set, Vanish, ThreadFails, RunTyped, RunStates
  <2>4. copy' = copy
    BY <1>8 DEF PullNothing, local, Vanish
  <2> QED
    BY <2>2, <2>3, <2>4 DEF PlanHasCopy, This
<1>9. ASSUME NEW r \in Runs, Look(r) PROVE PlanHasCopy'
  <2>1. run[r] \in RunStates
    BY RunFields
  <2>2. \A q \in Runs \ {r} : run'[q] = run[q]
    BY <1>9 DEF Look, Set, Vanish, ThreadFails, RunTyped
  <2>3. /\ run'[r].plan = Plan(This(r).thread, run[r].batch) /\ This(r)' = This(r)
        /\ This(r).thread \in Threads /\ run[r].batch \in SUBSET Messages
    BY <1>9, <2>1, HeadTyped, RunFields DEF Look, Set, RunTyped, RunStates, This
  <2>4. /\ run'[r].plan.kind # "create" => run'[r].plan.at \in DOMAIN copy[This(r).thread]
        /\ run'[r].plan.kind = "create" => run'[r].plan.new
    BY <2>3, PlanTyped, CopyIs
  <2>5. copy' = copy
    BY <1>9 DEF Look, local
  <2>6. \A q \in Runs \ {r} : This(q)' = This(q)
    BY <2>2 DEF This
  <2> QED
    BY <2>2, <2>3, <2>4, <2>5, <2>6 DEF PlanHasCopy
<1>10. ASSUME NEW r \in Runs, Commit(r) PROVE PlanHasCopy'
  <2>0. /\ This(r).thread \in Threads
        /\ link' = [link EXCEPT ![This(r).thread] = Linked(This(r).thread, run[r].plan, This(r).seen)]
        /\ copy' = [copy EXCEPT ![This(r).thread] = Copied(This(r).thread, run[r].plan)]
        /\ run[r].plan.kind # "create" => run[r].plan.at \in DOMAIN copy[This(r).thread]
    BY <1>10, CommitTyped
  <2>1. run[r] \in RunStates
    BY RunFields
  <2>2. \A q \in Runs \ {r} : run'[q] = run[q]
    BY <1>10 DEF Commit, Set, Vanish, ThreadFails, RunTyped
  <2>3. run'[r].pc # "commit"
    BY <1>10, <2>1, IdlePc DEF Commit, Set, RunTyped, RunStates
  <2>4. \A q \in Runs : run[q].pc = "commit" =>
           DOMAIN copy[This(q).thread] \subseteq DOMAIN copy'[This(q).thread]
    <3>1. \A u \in Threads : DOMAIN copy[u] \subseteq DOMAIN copy'[u]
      BY <1>10, <2>0, CopiedLength DEF CopyTyped
    <3> QED
      BY <3>1, HeadTyped
  <2>5. \A q \in Runs \ {r} : This(q)' = This(q)
    BY <2>2 DEF This
  <2> QED
    BY <2>2, <2>3, <2>4, <2>5 DEF PlanHasCopy
<1>11. ASSUME NEW r \in Runs, CommitFails(r) PROVE PlanHasCopy'
  <2>1. run[r] \in RunStates
    BY RunFields
  <2>2. \A q \in Runs \ {r} : run'[q] = run[q]
    BY <1>11 DEF CommitFails, Set, Vanish, ThreadFails, RunTyped
  <2>3. run'[r].pc # "commit"
    BY <1>11, <2>1, IdlePc DEF CommitFails, Set, Vanish, ThreadFails, RunTyped, RunStates
  <2>4. copy' = copy
    BY <1>11 DEF CommitFails, local, Vanish
  <2> QED
    BY <2>2, <2>3, <2>4 DEF PlanHasCopy, This
<1>12. ASSUME NEW r \in Runs, Extend(r) PROVE PlanHasCopy'
  <2>1. run[r] \in RunStates
    BY RunFields
  <2>2. \A q \in Runs \ {r} : run'[q] = run[q]
    BY <1>12 DEF Extend, Set, Vanish, ThreadFails, RunTyped
  <2>3. run'[r].pc # "commit"
    BY <1>12, <2>1, IdlePc DEF Extend, Set, Vanish, ThreadFails, RunTyped, RunStates
  <2>4. copy' = copy
    BY <1>12 DEF Extend, local, Vanish
  <2> QED
    BY <2>2, <2>3, <2>4 DEF PlanHasCopy, This
<1>13. ASSUME NEW r \in Runs, RoundOver(r) PROVE PlanHasCopy'
  <2>1. run[r] \in RunStates
    BY RunFields
  <2>2. \A q \in Runs \ {r} : run'[q] = run[q]
    BY <1>13 DEF RoundOver, Set, Vanish, ThreadFails, RunTyped
  <2>3. run'[r].pc # "commit"
    BY <1>13, <2>1, IdlePc DEF RoundOver, Set, Vanish, ThreadFails, RunTyped, RunStates
  <2>4. copy' = copy
    BY <1>13 DEF RoundOver, local, Vanish
  <2> QED
    BY <2>2, <2>3, <2>4 DEF PlanHasCopy, This
<1>14. ASSUME NEW r \in Runs, Record(r) PROVE PlanHasCopy'
  <2>1. run[r] \in RunStates
    BY RunFields
  <2>2. \A q \in Runs \ {r} : run'[q] = run[q]
    BY <1>14 DEF Record, Set, Vanish, ThreadFails, RunTyped
  <2>3. run'[r].pc # "commit"
    BY <1>14, <2>1, IdlePc DEF Record, Set, Vanish, ThreadFails, RunTyped, RunStates
  <2>4. copy' = copy
    BY <1>14 DEF Record, local, Vanish
  <2> QED
    BY <2>2, <2>3, <2>4 DEF PlanHasCopy, This
<1>15. ASSUME NEW r \in Runs, Release(r) PROVE PlanHasCopy'
  <2>1. run[r] \in RunStates
    BY RunFields
  <2>2. \A q \in Runs \ {r} : run'[q] = run[q]
    BY <1>15 DEF Release, Set, Vanish, ThreadFails, RunTyped
  <2>3. run'[r].pc # "commit"
    BY <1>15, <2>1, IdlePc DEF Release, Set, Vanish, ThreadFails, RunTyped, RunStates
  <2>4. copy' = copy
    BY <1>15 DEF Release, local, Vanish
  <2> QED
    BY <2>2, <2>3, <2>4 DEF PlanHasCopy, This
<1>16. ASSUME NEW r \in Runs, RunFails(r) PROVE PlanHasCopy'
  <2>1. run[r] \in RunStates
    BY RunFields
  <2>2. \A q \in Runs \ {r} : run'[q] = run[q]
    BY <1>16 DEF RunFails, Set, Vanish, ThreadFails, RunTyped
  <2>3. run'[r].pc # "commit"
    BY <1>16, <2>1, IdlePc DEF RunFails, Set, Vanish, ThreadFails, RunTyped, RunStates
  <2>4. copy' = copy
    BY <1>16 DEF RunFails, local, Vanish
  <2> QED
    BY <2>2, <2>3, <2>4 DEF PlanHasCopy, This
<1>17. ASSUME NEW r \in Runs, PullFails(r) PROVE PlanHasCopy'
  <2>1. run[r] \in RunStates
    BY RunFields
  <2>2. \A q \in Runs \ {r} : run'[q] = run[q]
    BY <1>17 DEF PullFails, Set, Vanish, ThreadFails, RunTyped
  <2>3. run'[r].pc # "commit"
    BY <1>17, <2>1, IdlePc DEF PullFails, Set, Vanish, ThreadFails, RunTyped, RunStates
  <2>4. copy' = copy
    BY <1>17 DEF PullFails, local, Vanish
  <2> QED
    BY <2>2, <2>3, <2>4 DEF PlanHasCopy, This
<1>18. ASSUME NEW r \in Runs, ExtendFails(r) PROVE PlanHasCopy'
  <2>1. run[r] \in RunStates
    BY RunFields
  <2>2. \A q \in Runs \ {r} : run'[q] = run[q]
    BY <1>18 DEF ExtendFails, Set, Vanish, ThreadFails, RunTyped
  <2>3. run'[r].pc # "commit"
    BY <1>18, <2>1, IdlePc DEF ExtendFails, Set, Vanish, ThreadFails, RunTyped, RunStates
  <2>4. copy' = copy
    BY <1>18 DEF ExtendFails, local, Vanish
  <2> QED
    BY <2>2, <2>3, <2>4 DEF PlanHasCopy, This
<1>19. ASSUME NEW r \in Runs, Refused(r) PROVE PlanHasCopy'
  <2>1. run[r] \in RunStates
    BY RunFields
  <2>2. \A q \in Runs \ {r} : run'[q] = run[q]
    BY <1>19 DEF Refused, Set, Vanish, ThreadFails, RunTyped
  <2>3. run'[r].pc # "commit"
    BY <1>19, <2>1, IdlePc DEF Refused, Set, Vanish, ThreadFails, RunTyped, RunStates
  <2>4. copy' = copy
    BY <1>19 DEF Refused, local, Vanish
  <2> QED
    BY <2>2, <2>3, <2>4 DEF PlanHasCopy, This
<1>20. ASSUME NEW r \in Runs, Cancel(r) PROVE PlanHasCopy'
  <2>1. run[r] \in RunStates
    BY RunFields
  <2>2. \A q \in Runs \ {r} : run'[q] = run[q]
    BY <1>20 DEF Cancel, Set, Vanish, ThreadFails, RunTyped
  <2>3. run'[r].pc # "commit"
    BY <1>20, <2>1, IdlePc DEF Cancel, Set, Vanish, ThreadFails, RunTyped, RunStates
  <2>4. copy' = copy
    BY <1>20 DEF Cancel, local, Vanish
  <2> QED
    BY <2>2, <2>3, <2>4 DEF PlanHasCopy, This
<1>21. ASSUME NEW r \in Runs, Crash(r) PROVE PlanHasCopy'
  <2>1. run[r] \in RunStates
    BY RunFields
  <2>2. \A q \in Runs \ {r} : run'[q] = run[q]
    BY <1>21 DEF Crash, Set, Vanish, ThreadFails, RunTyped
  <2>3. run'[r].pc # "commit"
    BY <1>21, <2>1, IdlePc DEF Crash, Set, Vanish, ThreadFails, RunTyped, RunStates
  <2>4. copy' = copy
    BY <1>21 DEF Crash, local, Vanish
  <2> QED
    BY <2>2, <2>3, <2>4 DEF PlanHasCopy, This
<1>22. ASSUME NEW t \in Threads, Continue(t) PROVE PlanHasCopy'
  <2>1. PICK c : /\ copy' = [copy EXCEPT ![t] = [copy[t] EXCEPT ![Len(copy[t])] = c]]
                 /\ [copy[t] EXCEPT ![Len(copy[t])] = c] \in Seq(Mirrors)
    BY <1>22, HereIs
  <2>2. \A u \in Threads : DOMAIN copy'[u] = DOMAIN copy[u]
    BY <2>1 DEF CopyTyped
  <2>3. run' = run
    BY <1>22, HereIs
  <2>4. \A q \in Runs : run[q].pc = "commit" => This(q).thread \in Threads
    BY HeadTyped
  <2> QED
    BY <2>2, <2>3, <2>4 DEF PlanHasCopy, This
<1>23. ASSUME NEW t \in Threads, DeleteLocal(t) PROVE PlanHasCopy'
  <2>1. PICK c : /\ copy' = [copy EXCEPT ![t] = [copy[t] EXCEPT ![Len(copy[t])] = c]]
                 /\ [copy[t] EXCEPT ![Len(copy[t])] = c] \in Seq(Mirrors)
    BY <1>23, HereIs
  <2>2. \A u \in Threads : DOMAIN copy'[u] = DOMAIN copy[u]
    BY <2>1 DEF CopyTyped
  <2>3. run' = run
    BY <1>23, HereIs
  <2>4. \A q \in Runs : run[q].pc = "commit" => This(q).thread \in Threads
    BY HeadTyped
  <2> QED
    BY <2>2, <2>3, <2>4 DEF PlanHasCopy, This
<1>24. ASSUME Stop PROVE PlanHasCopy'
  <2>1. copy' = copy
    BY <1>24 DEF Stop
  <2>0. \A q \in Runs : run'[q].pc = run[q].pc /\ run'[q].todo = run[q].todo
    BY <1>24, RunFields DEF Stop, RunStates
  <2>2. \A q \in Runs : run'[q].pc = "commit" /\ run'[q].plan.kind # "void" =>
                          run[q].pc = "commit" /\ run'[q].plan = run[q].plan
    BY <1>24, RunFields DEF Stop, RunStates, Plans
  <2>3. \A q \in Runs : This(q)' = This(q)
    BY <2>0 DEF This
  <2> QED
    BY <2>1, <2>2, <2>3 DEF PlanHasCopy
<1> QED
  BY <1>1, <1>2, <1>3, <1>4, <1>5, <1>6, <1>7, <1>8, <1>9, <1>10, <1>11, <1>12, <1>13, <1>14,
     <1>15, <1>16, <1>17, <1>18, <1>19, <1>20, <1>21, <1>22, <1>23, <1>24 DEF Next, Step,
     Fault, Others

Shape == TypeOK /\ TodoLeft /\ LinkHasCopy /\ PlanHasCopy

\* Shape holds to begin with.
LEMMA InitShape ==
  ASSUME Init
  PROVE  Shape
<1>1. RemoteTyped /\ RowTyped /\ LinkTyped /\ RunTyped /\ RestTyped
  BY IdleTyped, RemoteSyncAssumption
     DEF Init, RemoteTyped, RowTyped, LinkTyped, RunTyped, RestTyped, Accounts, NewAccount
<1>2. CopyTyped
  <2>1. \A t \in Threads : Mirror(Of(t)) \in Mirrors
    BY <1>1, OfTyped DEF Mirror, Mirrors
  <2> QED
    BY <2>1 DEF Init, CopyTyped
<1>3. TodoLeft /\ PlanHasCopy
  BY IdlePc DEF Init, TodoLeft, PlanHasCopy
<1>4. LinkHasCopy
  BY IdlePc DEF Init, LinkHasCopy
<1> QED
  BY <1>1, <1>2, <1>3, <1>4, Parts DEF Shape

\* Every step keeps Shape.
LEMMA StepShape ==
  ASSUME Shape, [Next]_vars
  PROVE  Shape'
<1>1. RemoteTyped /\ RowTyped /\ LinkTyped /\ CopyTyped /\ RunTyped /\ RestTyped
  BY Parts DEF Shape
<1>2. TodoLeft /\ LinkHasCopy /\ PlanHasCopy
  BY DEF Shape
<1>3. RemoteTyped' /\ RowTyped' /\ RestTyped'
  BY <1>1, <1>2, StepRemote, StepRow, StepRest
<1>4. LinkTyped' /\ CopyTyped' /\ RunTyped'
  BY <1>1, <1>2, StepLink, StepCopy, StepRun
<1>5. TodoLeft' /\ LinkHasCopy' /\ PlanHasCopy'
  BY <1>1, <1>2, StepTodoLeft, StepLinkHasCopy, StepPlanHasCopy
<1>6. TypeOK'
  BY <1>3, <1>4
     DEF TypeOK, RemoteTyped, RowTyped, LinkTyped, CopyTyped, RunTyped, RestTyped, Accounts
<1> QED
  BY <1>5, <1>6 DEF Shape

\* All variables stay in their sets.
THEOREM TypeCorrect == Spec => []TypeOK
<1>1. Init => Shape
  BY InitShape
<1>2. Shape /\ [Next]_vars => Shape'
  BY StepShape
<1>3. Shape => TypeOK
  BY DEF Shape
<1> QED
  BY <1>1, <1>2, <1>3, PTL DEF Spec

\* The other runs are where they were.
SameBut(r) == \A q \in Runs \ {r} : run'[q] = run[q]
Quiet == UNCHANGED <<posts, link, copy, crossed>>

\* A run's step that reads no thread and writes none: it keeps the links it read, or
\* reads them again.
Moved(r) ==
  /\ Quiet /\ SameBut(r)
  /\ run'[r].pc \notin {"look", "commit"}
  /\ run'[r].pc \in Working \ {"read"} =>
       \/ run[r].pc \in Working \ {"read"} /\ run'[r].known = run[r].known
       \/ run'[r].known = link

\* A step of one run leaves the others alone.
LEMMA SameButIs ==
  ASSUME RunTyped, NEW r \in Runs, NEW x, x \in RunStates, run' = [run EXCEPT ![r] = x]
  PROVE  SameBut(r) /\ run'[r] = x
BY DEF RunTyped, SameBut

\* The steps of a run that neither read a thread nor write one.
LEMMA PlainMoves ==
  ASSUME RunTyped, TodoLeft, NEW r \in Runs,
         \/ Start(r)
         \/ Read(r)
         \/ List(r)
         \/ Listing(r)
         \/ PullNothing(r)
         \/ CommitFails(r)
         \/ Extend(r)
         \/ RoundOver(r)
         \/ Record(r)
         \/ Release(r)
         \/ RunFails(r)
         \/ PullFails(r)
         \/ ExtendFails(r)
         \/ Refused(r)
         \/ Cancel(r)
         \/ Crash(r)
  PROVE  Moved(r)
<1>0. run[r] \in RunStates
  BY RunFields
<1>1. CASE Start(r)
  <2>1. Quiet
    BY <1>1 DEF Quiet, Start, local, remote, Vanish
  <2>2. SameBut(r)
    BY <1>1 DEF Start, Set, Vanish, ThreadFails, RunTyped, SameBut
  <2>3. run'[r].pc \notin {"look", "commit"}
    BY <1>0, <1>1, IdlePc DEF Start, Set, Vanish, ThreadFails, RunTyped, RunStates
  <2>4. run'[r].pc \in Working \ {"read"} =>
          \/ run[r].pc \in Working \ {"read"} /\ run'[r].known = run[r].known
          \/ run'[r].known = link
    BY <1>0, <1>1, IdlePc DEF Start, Set, Vanish, ThreadFails, RunTyped, RunStates, Working
  <2> QED
    BY <2>1, <2>2, <2>3, <2>4 DEF Moved
<1>2. CASE Read(r)
  <2>1. Quiet
    BY <1>2 DEF Quiet, Read, local, remote, Vanish
  <2>2. SameBut(r)
    BY <1>2 DEF Read, Set, Vanish, ThreadFails, RunTyped, SameBut
  <2>3. run'[r].pc \notin {"look", "commit"}
    BY <1>0, <1>2, IdlePc DEF Read, Set, Vanish, ThreadFails, RunTyped, RunStates
  <2>4. run'[r].pc \in Working \ {"read"} =>
          \/ run[r].pc \in Working \ {"read"} /\ run'[r].known = run[r].known
          \/ run'[r].known = link
    BY <1>0, <1>2, IdlePc DEF Read, Set, Vanish, ThreadFails, RunTyped, RunStates, Working
  <2> QED
    BY <2>1, <2>2, <2>3, <2>4 DEF Moved
<1>3. CASE List(r)
  <2>1. Quiet
    BY <1>3, Zenon DEF Quiet, List, local, remote, Vanish
  <2>2. SameBut(r)
    BY <1>3, Zenon DEF List, Set, Vanish, ThreadFails, RunTyped, SameBut
  <2>3. run'[r].pc \notin {"look", "commit"}
    BY <1>0, <1>3, IdlePc, Zenon DEF List, Set, Vanish, ThreadFails, RunTyped, RunStates
  <2>4. run'[r].pc \in Working \ {"read"} =>
          \/ run[r].pc \in Working \ {"read"} /\ run'[r].known = run[r].known
          \/ run'[r].known = link
    BY <1>0, <1>3, IdlePc, ZenonT(40) DEF List, Set, Vanish, ThreadFails, RunTyped, RunStates, Working
  <2> QED
    BY <2>1, <2>2, <2>3, <2>4 DEF Moved
<1>4. CASE Listing(r)
  <2>1. Quiet
    BY <1>4 DEF Quiet, Listing, local, remote, Vanish
  <2>2. SameBut(r)
    BY <1>4 DEF Listing, Set, Vanish, ThreadFails, RunTyped, SameBut
  <2>3. run'[r].pc \notin {"look", "commit"}
    BY <1>0, <1>4, IdlePc DEF Listing, Set, Vanish, ThreadFails, RunTyped, RunStates
  <2>4. run'[r].pc \in Working \ {"read"} =>
          \/ run[r].pc \in Working \ {"read"} /\ run'[r].known = run[r].known
          \/ run'[r].known = link
    BY <1>0, <1>4, IdlePc DEF Listing, Set, Vanish, ThreadFails, RunTyped, RunStates, Working
  <2> QED
    BY <2>1, <2>2, <2>3, <2>4 DEF Moved
<1>5. CASE PullNothing(r)
  <2>1. Quiet
    BY <1>5 DEF Quiet, PullNothing, local, remote, Vanish
  <2>2. SameBut(r)
    BY <1>5 DEF PullNothing, Set, Vanish, ThreadFails, RunTyped, SameBut
  <2>3. run'[r].pc \notin {"look", "commit"}
    BY <1>0, <1>5, IdlePc DEF PullNothing, Set, Vanish, ThreadFails, RunTyped, RunStates
  <2>4. run'[r].pc \in Working \ {"read"} =>
          \/ run[r].pc \in Working \ {"read"} /\ run'[r].known = run[r].known
          \/ run'[r].known = link
    BY <1>0, <1>5, IdlePc DEF PullNothing, Set, Vanish, ThreadFails, RunTyped, RunStates, Working
  <2> QED
    BY <2>1, <2>2, <2>3, <2>4 DEF Moved
<1>6. CASE CommitFails(r)
  <2>1. Quiet
    BY <1>6 DEF Quiet, CommitFails, local, remote, Vanish
  <2>2. SameBut(r)
    BY <1>6 DEF CommitFails, Set, Vanish, ThreadFails, RunTyped, SameBut
  <2>3. run'[r].pc \notin {"look", "commit"}
    BY <1>0, <1>6, IdlePc DEF CommitFails, Set, Vanish, ThreadFails, RunTyped, RunStates
  <2>4. run'[r].pc \in Working \ {"read"} =>
          \/ run[r].pc \in Working \ {"read"} /\ run'[r].known = run[r].known
          \/ run'[r].known = link
    BY <1>0, <1>6, IdlePc DEF CommitFails, Set, Vanish, ThreadFails, RunTyped, RunStates, Working
  <2> QED
    BY <2>1, <2>2, <2>3, <2>4 DEF Moved
<1>7. CASE Extend(r)
  <2>1. Quiet
    BY <1>7 DEF Quiet, Extend, local, remote, Vanish
  <2>2. SameBut(r)
    BY <1>7 DEF Extend, Set, Vanish, ThreadFails, RunTyped, SameBut
  <2>3. run'[r].pc \notin {"look", "commit"}
    BY <1>0, <1>7, IdlePc DEF Extend, Set, Vanish, ThreadFails, RunTyped, RunStates
  <2>4. run'[r].pc \in Working \ {"read"} =>
          \/ run[r].pc \in Working \ {"read"} /\ run'[r].known = run[r].known
          \/ run'[r].known = link
    BY <1>0, <1>7, IdlePc, ZenonT(40) DEF Extend, Set, Vanish, ThreadFails, RunTyped, RunStates, Working
  <2> QED
    BY <2>1, <2>2, <2>3, <2>4 DEF Moved
<1>8. CASE RoundOver(r)
  <2>1. Quiet
    BY <1>8 DEF Quiet, RoundOver, local, remote, Vanish
  <2>2. SameBut(r)
    BY <1>8 DEF RoundOver, Set, Vanish, ThreadFails, RunTyped, SameBut
  <2>3. run'[r].pc \notin {"look", "commit"}
    BY <1>0, <1>8, IdlePc DEF RoundOver, Set, Vanish, ThreadFails, RunTyped, RunStates
  <2>4. run'[r].pc \in Working \ {"read"} =>
          \/ run[r].pc \in Working \ {"read"} /\ run'[r].known = run[r].known
          \/ run'[r].known = link
    BY <1>0, <1>8, IdlePc DEF RoundOver, Set, Vanish, ThreadFails, RunTyped, RunStates, Working
  <2> QED
    BY <2>1, <2>2, <2>3, <2>4 DEF Moved
<1>9. CASE Record(r)
  <2>1. Quiet
    BY <1>9 DEF Quiet, Record, local, remote, Vanish
  <2>2. SameBut(r)
    BY <1>9 DEF Record, Set, Vanish, ThreadFails, RunTyped, SameBut
  <2>3. run'[r].pc \notin {"look", "commit"}
    BY <1>0, <1>9, IdlePc DEF Record, Set, Vanish, ThreadFails, RunTyped, RunStates
  <2>4. run'[r].pc \in Working \ {"read"} =>
          \/ run[r].pc \in Working \ {"read"} /\ run'[r].known = run[r].known
          \/ run'[r].known = link
    BY <1>0, <1>9, IdlePc DEF Record, Set, Vanish, ThreadFails, RunTyped, RunStates, Working
  <2> QED
    BY <2>1, <2>2, <2>3, <2>4 DEF Moved
<1>10. CASE Release(r)
  <2>1. Quiet
    BY <1>10 DEF Quiet, Release, local, remote, Vanish
  <2>2. SameBut(r)
    BY <1>10 DEF Release, Set, Vanish, ThreadFails, RunTyped, SameBut
  <2>3. run'[r].pc \notin {"look", "commit"}
    BY <1>0, <1>10, IdlePc DEF Release, Set, Vanish, ThreadFails, RunTyped, RunStates
  <2>4. run'[r].pc \in Working \ {"read"} =>
          \/ run[r].pc \in Working \ {"read"} /\ run'[r].known = run[r].known
          \/ run'[r].known = link
    BY <1>0, <1>10, IdlePc DEF Release, Set, Vanish, ThreadFails, RunTyped, RunStates, Working
  <2> QED
    BY <2>1, <2>2, <2>3, <2>4 DEF Moved
<1>11. CASE RunFails(r)
  <2>1. Quiet
    BY <1>11 DEF Quiet, RunFails, local, remote, Vanish
  <2>2. SameBut(r)
    BY <1>11 DEF RunFails, Set, Vanish, ThreadFails, RunTyped, SameBut
  <2>3. run'[r].pc \notin {"look", "commit"}
    BY <1>0, <1>11, IdlePc DEF RunFails, Set, Vanish, ThreadFails, RunTyped, RunStates
  <2>4. run'[r].pc \in Working \ {"read"} =>
          \/ run[r].pc \in Working \ {"read"} /\ run'[r].known = run[r].known
          \/ run'[r].known = link
    BY <1>0, <1>11, IdlePc DEF RunFails, Set, Vanish, ThreadFails, RunTyped, RunStates, Working
  <2> QED
    BY <2>1, <2>2, <2>3, <2>4 DEF Moved
<1>12. CASE PullFails(r)
  <2>1. Quiet
    BY <1>12 DEF Quiet, PullFails, local, remote, Vanish
  <2>2. SameBut(r)
    BY <1>12 DEF PullFails, Set, Vanish, ThreadFails, RunTyped, SameBut
  <2>3. run'[r].pc \notin {"look", "commit"}
    BY <1>0, <1>12, IdlePc DEF PullFails, Set, Vanish, ThreadFails, RunTyped, RunStates
  <2>4. run'[r].pc \in Working \ {"read"} =>
          \/ run[r].pc \in Working \ {"read"} /\ run'[r].known = run[r].known
          \/ run'[r].known = link
    BY <1>0, <1>12, IdlePc DEF PullFails, Set, Vanish, ThreadFails, RunTyped, RunStates, Working
  <2> QED
    BY <2>1, <2>2, <2>3, <2>4 DEF Moved
<1>13. CASE ExtendFails(r)
  <2>1. Quiet
    BY <1>13 DEF Quiet, ExtendFails, local, remote, Vanish
  <2>2. SameBut(r)
    BY <1>13 DEF ExtendFails, Set, Vanish, ThreadFails, RunTyped, SameBut
  <2>3. run'[r].pc \notin {"look", "commit"}
    BY <1>0, <1>13, IdlePc DEF ExtendFails, Set, Vanish, ThreadFails, RunTyped, RunStates
  <2>4. run'[r].pc \in Working \ {"read"} =>
          \/ run[r].pc \in Working \ {"read"} /\ run'[r].known = run[r].known
          \/ run'[r].known = link
    BY <1>0, <1>13, IdlePc DEF ExtendFails, Set, Vanish, ThreadFails, RunTyped, RunStates, Working
  <2> QED
    BY <2>1, <2>2, <2>3, <2>4 DEF Moved
<1>14. CASE Refused(r)
  <2>1. Quiet
    BY <1>14 DEF Quiet, Refused, local, remote, Vanish
  <2>2. SameBut(r)
    BY <1>14 DEF Refused, Set, Vanish, ThreadFails, RunTyped, SameBut
  <2>3. run'[r].pc \notin {"look", "commit"}
    BY <1>0, <1>14, IdlePc DEF Refused, Set, Vanish, ThreadFails, RunTyped, RunStates
  <2>4. run'[r].pc \in Working \ {"read"} =>
          \/ run[r].pc \in Working \ {"read"} /\ run'[r].known = run[r].known
          \/ run'[r].known = link
    BY <1>0, <1>14, IdlePc DEF Refused, Set, Vanish, ThreadFails, RunTyped, RunStates, Working
  <2> QED
    BY <2>1, <2>2, <2>3, <2>4 DEF Moved
<1>15. CASE Cancel(r)
  <2>1. Quiet
    BY <1>15 DEF Quiet, Cancel, local, remote, Vanish
  <2>2. SameBut(r)
    BY <1>15 DEF Cancel, Set, Vanish, ThreadFails, RunTyped, SameBut
  <2>3. run'[r].pc \notin {"look", "commit"}
    BY <1>0, <1>15, IdlePc DEF Cancel, Set, Vanish, ThreadFails, RunTyped, RunStates
  <2>4. run'[r].pc \in Working \ {"read"} =>
          \/ run[r].pc \in Working \ {"read"} /\ run'[r].known = run[r].known
          \/ run'[r].known = link
    BY <1>0, <1>15, IdlePc DEF Cancel, Set, Vanish, ThreadFails, RunTyped, RunStates, Working
  <2> QED
    BY <2>1, <2>2, <2>3, <2>4 DEF Moved
<1>16. CASE Crash(r)
  <2>1. Quiet
    BY <1>16 DEF Quiet, Crash, local, remote, Vanish
  <2>2. SameBut(r)
    BY <1>16 DEF Crash, Set, Vanish, ThreadFails, RunTyped, SameBut
  <2>3. run'[r].pc \notin {"look", "commit"}
    BY <1>0, <1>16, IdlePc DEF Crash, Set, Vanish, ThreadFails, RunTyped, RunStates
  <2>4. run'[r].pc \in Working \ {"read"} =>
          \/ run[r].pc \in Working \ {"read"} /\ run'[r].known = run[r].known
          \/ run'[r].known = link
    BY <1>0, <1>16, IdlePc DEF Crash, Set, Vanish, ThreadFails, RunTyped, RunStates, Working
  <2> QED
    BY <2>1, <2>2, <2>3, <2>4 DEF Moved
<1> QED
  BY <1>1, <1>2, <1>3, <1>4, <1>5, <1>6, <1>7, <1>8, <1>9, <1>10, <1>11, <1>12, <1>13, <1>14,
     <1>15, <1>16

\* The steps, as a thread's link and copies see them.
LEMMA Cases ==
  ASSUME RunTyped, CopyTyped, TodoLeft, [Next]_vars
  PROVE  \/ Quiet /\ run' = run
         \/ \E r \in Runs : Moved(r) \/ Pull(r) \/ Look(r) \/ Commit(r)
         \/ \E t \in Threads : Post(t) \/ Continue(t) \/ DeleteLocal(t)
         \/ Stop
<1>1. ASSUME Expire \/ Save \/ (\E t \in Threads : RemoteDelete(t)) \/ UNCHANGED vars
      PROVE  Quiet /\ run' = run
  BY <1>1 DEF Expire, Save, RemoteDelete, vars, Quiet, remote, row, local
<1> QED
  BY <1>1, PlainMoves DEF Next, Step, Fault, Others

\* What a copy without local messages lines up with: all of it.
LEMMA AlignedIs ==
  ASSUME RemoteTyped, NEW t, NEW c, NEW x \in Nat, NEW m \in Nat, NEW b,
         ~c.tail, c.msgs = Pulled(t, 0, x), b = Pulled(t, 0, m), c.msgs \subseteq b
  PROVE  Aligned(c, b) = c.msgs
<1>1. \A n \in c.msgs : n \in Nat /\ n <= x
  BY OfTyped DEF Pulled, Messages
<1>2. ASSUME NEW n \in c.msgs, NEW k \in 1..n PROVE k \in c.msgs <=> k \in b
  <2>1. k \in Nat /\ k <= x
    BY <1>1
  <2> QED
    BY <2>1 DEF Pulled
<1> QED
  BY <1>2, Zenon DEF Aligned

\* What lines up is in both histories.
LEMMA AlignedIn ==
  ASSUME NEW c, NEW b
  PROVE  Aligned(c, b) \subseteq b /\ Aligned(c, b) \subseteq IF c.tail THEN c.base ELSE c.msgs
BY DEF Aligned

\* The head a transaction writes.
HeadSet(t, p) == {link[t].head} \cup p.adds \cup (IF p.new THEN p.base ELSE {})

\* The head a commit leaves is the newest of the messages it is chosen from.
LEMMA HeadIs ==
  ASSUME LinkTyped, NEW t \in Threads, NEW p \in Plans
  PROVE  NewHead(t, p) \in HeadSet(t, p) /\ NewHead(t, p) \in Nat
         /\ \A n \in HeadSet(t, p) : n <= NewHead(t, p)
<1>1. HeadSet(t, p) \in SUBSET (0..Posts) /\ HeadSet(t, p) # {}
  BY RemoteSyncAssumption DEF HeadSet, LinkTyped, Links, Plans, Messages
<1> QED
  BY <1>1, NewestIs DEF NewHead, HeadSet

\* What a transaction that found its thread as it left it leaves behind.
Last(s) == s[Len(s)]
Sound(t, l, new, s) ==
  /\ l.head >= link[t].head /\ l.head <= Len(posts)
  /\ link[t].state = "detached" => l.state = "detached"
  /\ l.state = "active" =>
       \E x \in 0..Len(posts) : s <= x /\ l.head <= x /\ Last(new).msgs = Pulled(t, 0, x)
  /\ \/ new = copy[t]
     \/ /\ copy[t] # <<>> /\ ~Copy(t).tail
        /\ \E c : /\ new = [copy[t] EXCEPT ![Len(copy[t])] = c]
                  /\ c.base \subseteq c.msgs /\ (c.tail <=> Copy(t).tail) /\ l.state = "active"
     \/ /\ copy[t] # <<>> => Copy(t).tail \/ ~Copy(t).alive
        /\ \E c : new = Append(copy[t], c) /\ c.base = {} /\ l.state = "active"

\* A thread that has no link yet.
LEMMA SoundNew ==
  ASSUME RemoteTyped, LinkTyped, CopyTyped, LinkHasCopy, NEW t \in Threads, link[t].state = "none",
         NEW m \in 0..Len(posts), NEW b, b = Pulled(t, 0, m),
         copy[t] # <<>> => Copy(t).msgs \subseteq b /\ Copy(t).base \subseteq Copy(t).msgs
                           /\ \E x \in Nat : Copy(t).msgs = Pulled(t, 0, x),
         NEW p, p = Plan(t, b), NEW s \in 0..m
  PROVE  Sound(t, Linked(t, p, s), Copied(t, p), s)
<1>0. /\ copy[t] \in Seq(Mirrors) /\ Len(copy[t]) \in Nat /\ Len(posts) \in Nat /\ Len(posts) <= Posts
      /\ b \in SUBSET Messages /\ m \in Nat /\ link[t].head = 0
  BY OfTyped DEF CopyTyped, RemoteTyped, Pulled, LinkHasCopy, NoLink
<1>1. p \in Plans /\ p.new
  BY <1>0, PlanTyped DEF Plan
<1>2. CASE ~Held(t)
  <2>1. p.kind = "create" /\ p.adds = b /\ p.base = {}
    BY <1>2, Zenon DEF Plan
  <2>2. Copied(t, p) = Append(copy[t], Mirror(b))
    BY <2>1 DEF Copied, Prefix
  <2>3. Last(Copied(t, p)).msgs = b /\ Mirror(b).base = {}
    BY <1>0, <2>2 DEF Last, Mirror
  <2>4. HeadSet(t, p) = {0} \cup b
    BY <1>0, <2>1 DEF HeadSet
  <2>5. NewHead(t, p) <= m /\ NewHead(t, p) \in Nat
    BY <1>0, <1>1, <2>4, HeadIs DEF Pulled
  <2>6. copy[t] # <<>> => ~Copy(t).alive
    BY <1>2, Zenon DEF Held
  <2> QED
    BY <1>0, <2>1, <2>2, <2>3, <2>5, <2>6 DEF Sound, Linked
<1>3. CASE Held(t)
  <2>0. copy[t] # <<>> /\ Copy(t).alive /\ Copy(t) \in Mirrors /\ Len(copy[t]) \in DOMAIN copy[t]
    BY <1>3, CopyIs DEF Held
  <2> DEFINE base == Aligned(Copy(t), b)
  <2>1. Base(t, b) = base /\ base \subseteq b
    BY AlignedIn DEF Base
  <2>2. ~Copy(t).tail => base = Copy(t).msgs
    BY <2>0, <1>0, AlignedIs
  <2>3. Copy(t).tail => base \subseteq Copy(t).msgs
    BY <2>0, AlignedIn
  <2>4. /\ p.kind \in {"touch", "fork", "append"} /\ p.adds = b \ base /\ p.base = base
        /\ p.at = Len(copy[t])
        /\ p.kind = "touch" => b \ base = {}
        /\ p.kind = "fork" => Diverged(Copy(t), base)
        /\ p.kind = "append" => ~Diverged(Copy(t), base)
    BY <1>3, <2>0, <2>1 DEF Plan
  <2>5. HeadSet(t, p) = {0} \cup b
    BY <1>0, <1>1, <2>1, <2>4 DEF HeadSet
  <2>6. NewHead(t, p) <= m /\ NewHead(t, p) \in Nat
    BY <1>0, <1>1, <2>5, HeadIs DEF Pulled
  <2>7. copy[t][p.at] = Copy(t)
    BY <2>4 DEF Copy
  <2> HIDE DEF base
  <2>8. CASE p.kind = "touch"
    <3>1. Copied(t, p) = copy[t] /\ Last(Copied(t, p)).msgs = b
      BY <2>0, <2>1, <2>2, <2>3, <2>4, <2>8 DEF Copied, Last, Copy
    <3> QED
      BY <1>0, <2>6, <2>8, <3>1 DEF Sound, Linked
  <2>9. CASE p.kind = "append"
    <3>1. ~Copy(t).tail /\ Copy(t).msgs = base
      BY <2>4, <2>9 DEF Diverged
    <3> DEFINE c == [Copy(t) EXCEPT !.msgs = b]
    <3>2. Copied(t, p) = [copy[t] EXCEPT ![Len(copy[t])] = c]
      <4>1. Copy(t).msgs \cup p.adds = b
        BY <2>1, <2>4, <3>1
      <4> QED
        BY <2>4, <2>7, <2>9, <4>1 DEF Copied
    <3>3. c.msgs = b /\ c.tail = Copy(t).tail /\ c.base = Copy(t).base
      BY <2>0 DEF Mirrors
    <3> HIDE DEF c
    <3>4. Last(Copied(t, p)).msgs = b
      BY <1>0, <2>0, <3>2, <3>3 DEF Last
    <3>5. c.base \subseteq c.msgs
      BY <2>0, <3>3
    <3> QED
      BY <1>0, <2>0, <2>6, <2>9, <3>1, <3>2, <3>3, <3>4, <3>5 DEF Sound, Linked
  <2>10. CASE p.kind = "fork"
    <3>1. Copy(t).tail
      BY <2>2, <2>4, <2>10 DEF Diverged
    <3>2. Prefix(t, p) \cup p.adds = b
      BY <1>1, <2>0, <2>1, <2>4, <2>7, <2>10 DEF Prefix
    <3>3. Copied(t, p) = Append(copy[t], Mirror(b))
      BY <2>10, <3>2 DEF Copied
    <3>4. Last(Copied(t, p)).msgs = b /\ Mirror(b).base = {}
      BY <1>0, <3>3 DEF Last, Mirror
    <3> QED
      BY <1>0, <2>6, <2>10, <3>1, <3>3, <3>4 DEF Sound, Linked
  <2> QED
    BY <2>4, <2>8, <2>9, <2>10
<1> QED
  BY <1>2, <1>3

\* A thread whose link is active.
LEMMA SoundActive ==
  ASSUME RemoteTyped, LinkTyped, CopyTyped, LinkHasCopy, NEW t \in Threads, link[t].state = "active",
         link[t].head <= Len(posts),
         NEW h \in 0..link[t].head, NEW m \in 0..Len(posts), NEW b, b = Pulled(t, h, m),
         Copy(t).base \subseteq Copy(t).msgs,
         NEW x \in Nat, Copy(t).msgs = Pulled(t, 0, x),
         \A n \in Of(t) : n <= link[t].head => n \in Copy(t).msgs,
         NEW p, p = Plan(t, b), NEW s \in 0..m
  PROVE  Sound(t, Linked(t, p, s), Copied(t, p), s)
<1>0. /\ copy[t] \in Seq(Mirrors) /\ Len(copy[t]) \in Nat /\ Len(posts) \in Nat /\ Len(posts) <= Posts
      /\ b \in SUBSET Messages /\ m \in Nat /\ link[t].head \in Nat /\ h \in Nat /\ h <= link[t].head
      /\ s \in Nat /\ s <= m
  BY OfTyped, RemoteSyncAssumption DEF CopyTyped, RemoteTyped, Pulled, LinkTyped, Links
<1>1. p \in Plans /\ ~p.new
  BY <1>0, PlanTyped DEF Plan
<1>2. copy[t] # <<>> /\ Copy(t) \in Mirrors /\ Len(copy[t]) \in DOMAIN copy[t]
  BY CopyIs DEF LinkHasCopy
<1>3. /\ p.kind \in {"detach", "touch", "fork", "append"} /\ p.at = Len(copy[t])
      /\ p.kind = "detach" => ~Copy(t).alive /\ p.adds = {}
      /\ p.kind # "detach" => Copy(t).alive /\ p.adds = b \ Copy(t).msgs
      /\ p.kind = "touch" => b \ Copy(t).msgs = {}
      /\ p.kind = "fork" => Copy(t).tail
      /\ p.kind = "append" => ~Copy(t).tail
  BY <1>2, Zenon DEF Plan, Base, Diverged, Held
<1>4. HeadSet(t, p) = {link[t].head} \cup p.adds
  BY <1>1 DEF HeadSet
<1>5. copy[t][p.at] = Copy(t)
  BY <1>3 DEF Copy
<1>6. /\ NewHead(t, p) \in Nat /\ NewHead(t, p) >= link[t].head
      /\ NewHead(t, p) = link[t].head \/ NewHead(t, p) \in p.adds
  BY <1>0, <1>1, <1>4, HeadIs
<1>7. \A n \in b : n \in Nat /\ n <= m
  BY <1>0 DEF Pulled, Messages
<1>8. NewHead(t, p) <= Len(posts)
  BY <1>0, <1>3, <1>6, <1>7
<1>9. CASE p.kind = "detach"
  <2>1. Copied(t, p) = copy[t]
    BY <1>9 DEF Copied
  <2> QED
    BY <1>6, <1>8, <1>9, <2>1 DEF Sound, Linked
<1>10. ASSUME p.kind # "detach"
       PROVE  \E y \in 0..Len(posts) : /\ s <= y /\ NewHead(t, p) <= y
                                       /\ Copy(t).msgs \cup p.adds = Pulled(t, 0, y)
  <2>0. \A n \in Of(t) : n \in Nat /\ n <= Len(posts)
    BY <1>0, OfTyped
  <2> DEFINE z == IF x <= Len(posts) THEN x ELSE Len(posts)
  <2>1. Copy(t).msgs = Pulled(t, 0, z) /\ z \in 0..Len(posts)
    BY <1>0, <2>0 DEF Pulled
  <2>2. Copy(t).msgs \cup p.adds = Pulled(t, 0, z) \cup Pulled(t, h, m)
    BY <1>3, <1>10, <2>1
  <2> HIDE DEF z
  <2>3. \A n \in Of(t) : n < h => n \in Pulled(t, 0, z)
    BY <1>0, <2>0, <2>1
  <2> DEFINE v == IF z <= m THEN m ELSE z
  <2>4. \A n \in Of(t) : n <= v => n \in Pulled(t, 0, z) \cup Pulled(t, h, m)
    BY <1>0, <2>0, <2>1, <2>3 DEF Pulled
  <2>5. \A n \in Pulled(t, 0, z) \cup Pulled(t, h, m) : n \in Of(t) /\ 0 <= n /\ n <= v
    BY <1>0, <2>0, <2>1 DEF Pulled
  <2>6. Pulled(t, 0, z) \cup Pulled(t, h, m) = Pulled(t, 0, v)
    BY <2>4, <2>5 DEF Pulled
  <2> DEFINE y == IF v <= link[t].head THEN link[t].head ELSE v
  <2>7. Pulled(t, 0, v) = Pulled(t, 0, y)
    <3>0. v \in Nat /\ y \in Nat /\ v <= y /\ (y = v \/ y = link[t].head)
      BY <1>0, <2>1
    <3>1. \A n \in Of(t) : n <= y => n \in Pulled(t, 0, v)
      BY <2>0, <2>1, <2>2, <2>6, <3>0 DEF Pulled
    <3> QED
      BY <2>0, <3>0, <3>1 DEF Pulled
  <2>8. y \in 0..Len(posts) /\ s <= y /\ NewHead(t, p) <= y
    <3>1. v \in 0..Len(posts) /\ m <= v
      BY <1>0, <2>1
    <3>2. \A n \in p.adds : n <= v
      BY <1>0, <1>3, <1>7, <1>10, <3>1
    <3> HIDE DEF v
    <3> QED
      BY <1>0, <1>6, <3>1, <3>2
  <2> QED
    BY <2>2, <2>6, <2>7, <2>8
<1>11. CASE p.kind = "touch"
  <2>1. Copied(t, p) = copy[t] /\ Last(Copied(t, p)).msgs = Copy(t).msgs \cup p.adds
    BY <1>3, <1>11 DEF Copied, Last, Copy
  <2> QED
    BY <1>6, <1>8, <1>10, <1>11, <2>1 DEF Sound, Linked
<1>12. CASE p.kind = "append"
  <2> DEFINE c == [Copy(t) EXCEPT !.msgs = Copy(t).msgs \cup p.adds]
  <2>1. Copied(t, p) = [copy[t] EXCEPT ![Len(copy[t])] = c]
    BY <1>3, <1>5, <1>12 DEF Copied
  <2>2. c.msgs = Copy(t).msgs \cup p.adds /\ c.tail = Copy(t).tail /\ c.base = Copy(t).base
    BY <1>2, Zenon DEF Mirrors
  <2> HIDE DEF c
  <2>3. Last(Copied(t, p)).msgs = Copy(t).msgs \cup p.adds
    BY <1>0, <1>2, <2>1, <2>2 DEF Last
  <2>4. c.base \subseteq c.msgs
    BY <2>2
  <2> QED
    BY <1>2, <1>3, <1>6, <1>8, <1>10, <1>12, <2>1, <2>2, <2>3, <2>4 DEF Sound, Linked
<1>13. CASE p.kind = "fork"
  <2> DEFINE e == Copy(t).msgs \cup p.adds
  <2>1. Prefix(t, p) \cup p.adds = e
    BY <1>1, <1>3, <1>5, <1>13 DEF Prefix
  <2>2. Copied(t, p) = Append(copy[t], Mirror(e))
    BY <1>13, <2>1 DEF Copied
  <2>3. Last(Copied(t, p)).msgs = e /\ Mirror(e).base = {}
    BY <1>0, <2>2 DEF Last, Mirror
  <2>4. \E y \in 0..Len(posts) : s <= y /\ NewHead(t, p) <= y /\ e = Pulled(t, 0, y)
    BY <1>10, <1>13
  <2> HIDE DEF e
  <2> QED
    BY <1>3, <1>6, <1>8, <1>13, <2>2, <2>3, <2>4 DEF Sound, Linked
<1> QED
  BY <1>3, <1>9, <1>11, <1>12, <1>13

\* A thread whose link is detached.
LEMMA SoundDetached ==
  ASSUME RemoteTyped, LinkTyped, CopyTyped, LinkHasCopy, NEW t \in Threads,
         link[t].state = "detached", link[t].head <= Len(posts),
         NEW b \in SUBSET Messages, NEW p, p = Plan(t, b), NEW s
  PROVE  Sound(t, Linked(t, p, s), Copied(t, p), s)
<1>1. p.kind = "detach" /\ ~p.new /\ p.adds = {} /\ p \in Plans
  BY PlanTyped DEF Plan, Held
<1>2. HeadSet(t, p) = {link[t].head} /\ link[t].head \in Nat
  BY <1>1, RemoteSyncAssumption DEF HeadSet, LinkTyped, Links
<1>3. NewHead(t, p) = link[t].head
  BY <1>1, <1>2, HeadIs
<1>4. Copied(t, p) = copy[t]
  BY <1>1 DEF Copied
<1> QED
  BY <1>1, <1>2, <1>3, <1>4 DEF Sound, Linked

\* A thread's last message is one of its messages, and none is newer.
LEMMA LastIs ==
  ASSUME RemoteTyped, NEW t
  PROVE  /\ LastOf(t) \in Nat /\ LastOf(t) <= Len(posts)
         /\ Of(t) # {} => LastOf(t) \in Of(t)
         /\ Of(t) = {} => LastOf(t) = 0
         /\ \A n \in Of(t) : n <= LastOf(t)
<1>1. Len(posts) \in Nat /\ Of(t) \in SUBSET (0..Posts) /\ \A n \in Of(t) : n \in Nat /\ n <= Len(posts)
  BY OfTyped, RemoteSyncAssumption DEF RemoteTyped, Messages
<1> QED
  BY <1>1, NewestIs, RemoteSyncAssumption DEF LastOf

\* The thread a run is at had its last message as listed before now.
LEMMA HeadSent ==
  ASSUME RemoteTyped, RunTyped, TodoOld, NEW r \in Runs, run[r].todo # <<>>
  PROVE  This(r).seen \in Nat /\ This(r).seen <= LastOf(This(r).thread) /\ This(r).seen <= Len(posts)
<1>1. run[r].todo \in Seq(Todo)
  BY RunFields
<1>2. This(r) = run[r].todo[1] /\ 1 \in DOMAIN run[r].todo /\ This(r) \in Todo
  BY <1>1 DEF This
<1>3. This(r).seen \in Nat /\ This(r).seen <= LastOf(This(r).thread)
  BY <1>2, RemoteSyncAssumption DEF TodoOld, Seen, Todo
<1>4. LastOf(This(r).thread) <= Len(posts) /\ LastOf(This(r).thread) \in Nat /\ Len(posts) \in Nat
  BY LastIs DEF RemoteTyped
<1> QED
  BY <1>3, <1>4

\* Where things stand for the threads nothing crossed.
Sync ==
  /\ TodoOld /\ LinkSent /\ KnownIsOld /\ LookInv /\ CommitInv /\ OneOpen /\ CopyIsPrefix
  /\ SeenIsCopied /\ ForkedForAReason

\* The parts of Shape.
LEMMA ShapeIs ==
  Shape => /\ RemoteTyped /\ RowTyped /\ LinkTyped /\ CopyTyped /\ RunTyped /\ RestTyped
           /\ TodoLeft /\ LinkHasCopy /\ PlanHasCopy
BY Parts DEF Shape

\* What a transaction leaves behind is sound, in a thread nothing crossed.
LEMMA CommitSound ==
  ASSUME Shape, Sync, NEW r \in Runs, Commit(r), NEW t, t = This(r).thread, t \notin crossed
  PROVE  Sound(t, Linked(t, run[r].plan, This(r).seen), Copied(t, run[r].plan), This(r).seen)
<1> USE ShapeIs
<1>1. /\ t \in Threads /\ This(r).seen \in Nat /\ run[r].pc = "commit" /\ link[t] \in Links
      /\ Len(posts) \in Nat
  <2>1. t \in Threads /\ This(r).seen \in 0..Posts /\ run[r].pc = "commit"
    BY HeadTyped, Zenon DEF Commit
  <2> QED
    BY <2>1, RemoteSyncAssumption DEF LinkTyped, RemoteTyped
<1>2. PICK b \in SUBSET Messages : GoodBatch(r, b) /\ run[r].plan = Plan(t, b)
  BY <1>1 DEF Sync, CommitInv
<1>3. LET k == run[r].known[t]
      IN  /\ k.state = "none" => k = NoLink
          /\ link[t].state = "none" => k.state = "none"
          /\ k.state = "detached" => link[t].state = "detached"
          /\ k.head <= link[t].head
  BY <1>1 DEF Sync, KnownIsOld, Working
<1>4. run[r].known[t] \in Links
  BY <1>1, RunFields
<1>5. link[t].head <= Len(posts)
  BY <1>1 DEF Sync, LinkSent
<1>6. CASE link[t].state = "detached"
  BY <1>1, <1>2, <1>5, <1>6, SoundDetached
<1>7. ASSUME link[t].state # "detached"
      PROVE  \E m \in 0..Len(posts) : /\ b = Pulled(t, run[r].known[t].head, m) /\ This(r).seen \in 0..m
                                      /\ link[t].state = "none" /\ copy[t] # <<>> => Copy(t).msgs \subseteq b
  BY <1>1, <1>2, <1>3, <1>7 DEF GoodBatch
<1>8. CASE link[t].state = "none"
  <2>1. PICK m \in 0..Len(posts) : /\ b = Pulled(t, 0, m) /\ This(r).seen \in 0..m
                                   /\ copy[t] # <<>> => Copy(t).msgs \subseteq b
    BY <1>3, <1>7, <1>8 DEF NoLink
  <2>2. copy[t] # <<>> => Copy(t).msgs \subseteq b /\ Copy(t).base \subseteq Copy(t).msgs
                          /\ \E x \in Nat : Copy(t).msgs = Pulled(t, 0, x)
    BY <1>1, <2>1 DEF Sync, CopyIsPrefix
  <2> QED
    BY <1>1, <1>2, <1>8, <2>1, <2>2, SoundNew
<1>9. CASE link[t].state = "active"
  <2>1. PICK m \in 0..Len(posts) : b = Pulled(t, run[r].known[t].head, m) /\ This(r).seen \in 0..m
    BY <1>7, <1>9
  <2>2. copy[t] # <<>>
    BY <1>1, <1>9 DEF LinkHasCopy
  <2>3. PICK x \in Nat : Copy(t).msgs = Pulled(t, 0, x) /\ Copy(t).base \subseteq Copy(t).msgs
    BY <1>1, <2>2 DEF Sync, CopyIsPrefix
  <2>4. \A n \in Of(t) : n <= link[t].head => n \in Copy(t).msgs
    BY <1>1, <1>9 DEF Sync, SeenIsCopied
  <2>5. run[r].known[t].head \in 0..link[t].head
    BY <1>1, <1>3, <1>4, RemoteSyncAssumption DEF Links
  <2> QED
    BY <1>1, <1>2, <1>5, <1>9, <2>1, <2>3, <2>4, <2>5, SoundActive
<1> QED
  BY <1>1, <1>6, <1>8, <1>9 DEF Links

\* A transaction's step.
LEMMA CommitStep ==
  ASSUME Shape, NEW r \in Runs, Commit(r), NEW t, t = This(r).thread
  PROVE  /\ t \in Threads /\ run[r].pc = "commit" /\ UNCHANGED <<posts, crossed>>
         /\ SameBut(r) /\ run'[r].pc = "extend" /\ run'[r].known = run[r].known
         /\ run'[r].todo = run[r].todo
         /\ \A u \in Threads \ {t} : link'[u] = link[u] /\ copy'[u] = copy[u]
         /\ link'[t] = Linked(t, run[r].plan, This(r).seen)
         /\ link'[t].state # "none" /\ link'[t].seen = This(r).seen
         /\ copy'[t] = Copied(t, run[r].plan)
<1> USE ShapeIs
<1>1. /\ t \in Threads
      /\ link' = [link EXCEPT ![t] = Linked(t, run[r].plan, This(r).seen)]
      /\ copy' = [copy EXCEPT ![t] = Copied(t, run[r].plan)]
  BY CommitTyped
<1>2. run' = [run EXCEPT ![r] = [run[r] EXCEPT !.pc = "extend", !.plan = NoPlan, !.applied = TRUE]]
  BY DEF Commit, Set
<1>3. SameBut(r) /\ run'[r] = [run[r] EXCEPT !.pc = "extend", !.plan = NoPlan, !.applied = TRUE]
  BY <1>2, Zenon DEF RunTyped, SameBut
<1>4. /\ run'[r].pc = "extend" /\ run'[r].known = run[r].known /\ run'[r].todo = run[r].todo
  BY <1>3, RunFields DEF RunStates
<1>5. run[r].pc = "commit" /\ UNCHANGED <<posts, crossed>>
  BY Zenon DEF Commit, remote
<1>6. link'[t] = Linked(t, run[r].plan, This(r).seen) /\ copy'[t] = Copied(t, run[r].plan)
  BY <1>1 DEF LinkTyped, CopyTyped
<1>7. link'[t].state # "none" /\ link'[t].seen = This(r).seen
  BY <1>6 DEF Linked
<1>8. \A u \in Threads \ {t} : link'[u] = link[u] /\ copy'[u] = copy[u]
  BY <1>1 DEF LinkTyped, CopyTyped
<1> QED
  BY <1>1, <1>3, <1>4, <1>5, <1>6, <1>7, <1>8

\* What a transaction's reads change.
LEMMA LookStep ==
  ASSUME Shape, NEW r \in Runs, Look(r), NEW t, t = This(r).thread
  PROVE  /\ t \in Threads /\ run[r].pc = "look" /\ UNCHANGED <<posts, link, copy>>
         /\ SameBut(r) /\ run'[r].pc = "commit" /\ run'[r].known = run[r].known
         /\ run'[r].todo = run[r].todo /\ run'[r].plan = Plan(t, run[r].batch)
         /\ run[r].batch \in SUBSET Messages
         /\ crossed' = IF t \in Open THEN crossed \cup {t} ELSE crossed
<1> USE ShapeIs
<1>1. t \in Threads /\ run[r].batch \in SUBSET Messages
  BY HeadTyped, RunFields DEF Look
<1>2. run' = [run EXCEPT ![r] = [run[r] EXCEPT !.pc = "commit", !.batch = {}, !.plan = Plan(t, run[r].batch)]]
  BY DEF Look, Set
<1>3. SameBut(r) /\ run'[r] = [run[r] EXCEPT !.pc = "commit", !.batch = {}, !.plan = Plan(t, run[r].batch)]
  BY <1>2, Zenon DEF RunTyped, SameBut
<1>4. /\ run'[r].pc = "commit" /\ run'[r].known = run[r].known /\ run'[r].todo = run[r].todo
      /\ run'[r].plan = Plan(t, run[r].batch)
  BY <1>3, RunFields DEF RunStates
<1>5. /\ run[r].pc = "look" /\ UNCHANGED <<posts, link, copy>>
      /\ crossed' = IF t \in Open THEN crossed \cup {t} ELSE crossed
  BY DEF Look, remote, local
<1> QED
  BY <1>1, <1>3, <1>4, <1>5

\* What a pull changes.
LEMMA PullStep ==
  ASSUME Shape, NEW r \in Runs, Pull(r), NEW t, t = This(r).thread
  PROVE  /\ t \in Threads /\ run[r].pc = "next" /\ Quiet
         /\ SameBut(r) /\ run'[r].pc = "look" /\ run'[r].known = run[r].known
         /\ run'[r].todo = run[r].todo /\ run[r].todo # <<>>
         /\ LET k == run[r].known[t]
            IN  run'[r].batch = {n \in Of(t) : k.state # "detached" /\ n >= k.head}
<1> USE ShapeIs
<1> DEFINE b == {n \in Of(t) : run[r].known[t].state # "detached" /\ n >= run[r].known[t].head}
<1>1. t \in Threads
  BY HeadTyped DEF Pull
<1>2. run' = [run EXCEPT ![r] = [run[r] EXCEPT !.pc = "look", !.batch = b]]
  BY DEF Pull, Set
<1> HIDE DEF b
<1>3. SameBut(r) /\ run'[r] = [run[r] EXCEPT !.pc = "look", !.batch = b]
  BY <1>2, Zenon DEF RunTyped, SameBut
<1>4. /\ run'[r].pc = "look" /\ run'[r].known = run[r].known /\ run'[r].todo = run[r].todo
      /\ run'[r].batch = b
  BY <1>3, RunFields DEF RunStates
<1>5. run[r].pc = "next" /\ run[r].todo # <<>> /\ Quiet
  BY DEF Pull, remote, local, Quiet
<1> QED
  BY <1>1, <1>3, <1>4, <1>5 DEF b

\* What a stop changes.
LEMMA StopStep ==
  ASSUME Shape, Stop
  PROVE  /\ UNCHANGED <<posts, copy>> /\ \A t \in Threads : link'[t] = NoLink
         /\ \A r \in Runs : run'[r].pc = run[r].pc /\ run'[r].todo = run[r].todo
         /\ crossed' = Threads \/ (crossed' = crossed /\ \A r \in Runs : run[r].pc \notin Working)
<1> USE ShapeIs
<1>1. \A r \in Runs : run'[r].pc = run[r].pc /\ run'[r].todo = run[r].todo
  BY RunFields DEF Stop, RunStates
<1> QED
  BY <1>1 DEF Stop, remote

\* Messages are only added, and no thread's crossing is forgotten.
LEMMA Grows ==
  ASSUME Shape, [Next]_vars
  PROVE  /\ Len(posts) \in Nat /\ Len(posts') \in Nat /\ Len(posts) <= Len(posts') /\ Len(posts') <= Posts
         /\ \A t : \A h : \A m \in 0..Len(posts) : Pulled(t, h, m)' = Pulled(t, h, m)
         /\ \A t : Of(t) \subseteq Of(t)' /\ \A n \in Of(t)' : n <= Len(posts) => n \in Of(t)
         /\ \A t : \A n \in Of(t)' : n \in 1..Len(posts')
         /\ crossed \subseteq crossed'
<1> USE ShapeIs
<1>1. RemoteTyped /\ RemoteTyped'
  BY StepRemote
<1>2. posts' = posts \/ \E t \in Threads : posts' = Append(posts, t)
  <2>1. ASSUME NEW r \in Runs, Moved(r) \/ Pull(r) \/ Look(r) \/ Commit(r) PROVE posts' = posts
    BY <2>1, Zenon DEF Moved, Quiet, Pull, Look, Commit, remote
  <2>2. ASSUME NEW t \in Threads, Post(t) \/ Continue(t) \/ DeleteLocal(t)
        PROVE  posts' = posts \/ posts' = Append(posts, t)
    BY <2>2, HereIs DEF Post
  <2>3. Stop => posts' = posts
    BY StopStep
  <2> QED
    BY <2>1, <2>2, <2>3, Cases DEF Quiet
<1>3. crossed \subseteq crossed'
  <2>1. ASSUME NEW r \in Runs, Moved(r) \/ Pull(r) \/ Look(r) \/ Commit(r) PROVE crossed \subseteq crossed'
    BY <2>1 DEF Moved, Quiet, Pull, Look, Commit
  <2>2. ASSUME NEW t \in Threads, Post(t) \/ Continue(t) \/ DeleteLocal(t)
        PROVE  crossed \subseteq crossed'
    BY <2>2, HereIs DEF Post
  <2>3. Stop => crossed \subseteq crossed'
    BY StopStep DEF RestTyped
  <2> QED
    BY <2>1, <2>2, <2>3, Cases DEF Quiet
<1>4. /\ Len(posts) \in Nat /\ Len(posts') \in Nat /\ Len(posts) <= Len(posts') /\ Len(posts') <= Posts
      /\ DOMAIN posts = 1..Len(posts) /\ DOMAIN posts' = 1..Len(posts')
      /\ \A n \in 1..Len(posts) : posts'[n] = posts[n]
  BY <1>1, <1>2 DEF RemoteTyped
<1>5. \A t : Of(t) \subseteq Of(t)' /\ \A n \in Of(t)' : n <= Len(posts) => n \in Of(t)
  BY <1>4 DEF Of
<1>6. \A t : \A n \in Of(t)' : n \in 1..Len(posts')
  BY <1>4 DEF Of
<1>7. ASSUME NEW t, NEW h, NEW m \in 0..Len(posts) PROVE Pulled(t, h, m)' = Pulled(t, h, m)
  <2>1. \A n \in Of(t)' : n <= m => n \in Of(t)
    BY <1>4, <1>5, <1>6
  <2> QED
    BY <1>5, <2>1 DEF Pulled
<1> QED
  BY <1>3, <1>4, <1>5, <1>6, <1>7

\* What a step does to a thread it does not cross.
LEMMA ThreadStep ==
  ASSUME Shape, Sync, [Next]_vars, NEW t \in Threads, t \notin crossed'
  PROVE  \/ link'[t] = link[t] /\ copy'[t] = copy[t]
         \/ \E r \in Runs : /\ Commit(r) /\ t = This(r).thread /\ t \notin crossed
                            /\ link'[t].seen = This(r).seen /\ link'[t].state # "none"
                            /\ Sound(t, link'[t], copy'[t], This(r).seen)
         \/ /\ link'[t] = link[t] /\ copy[t] # <<>> /\ t \notin Open /\ UNCHANGED <<posts, run>>
            /\ \E c : Touched(t, c) /\ copy'[t] = [copy[t] EXCEPT ![Len(copy[t])] = c]
         \/ /\ link'[t] = NoLink /\ copy'[t] = copy[t] /\ posts' = posts
            /\ \A r \in Runs : run[r].pc \notin Working /\ run'[r].pc = run[r].pc
<1> USE ShapeIs
<1>0. t \notin crossed
  BY Grows
<1>1. ASSUME NEW r \in Runs, Moved(r) \/ Pull(r) \/ Look(r) PROVE link'[t] = link[t] /\ copy'[t] = copy[t]
  BY <1>1 DEF Moved, Quiet, Pull, Look, local
<1>2. ASSUME NEW r \in Runs, Commit(r)
      PROVE  \/ link'[t] = link[t] /\ copy'[t] = copy[t]
             \/ /\ t = This(r).thread /\ link'[t].seen = This(r).seen /\ link'[t].state # "none"
                /\ Sound(t, link'[t], copy'[t], This(r).seen)
  <2>1. CASE t = This(r).thread
    BY <1>0, <1>2, <2>1, CommitStep, CommitSound
  <2>2. CASE t # This(r).thread
    BY <1>2, <2>2, CommitStep
  <2> QED
    BY <2>1, <2>2
<1>3. ASSUME NEW u \in Threads, Continue(u) \/ DeleteLocal(u)
      PROVE  \/ link'[t] = link[t] /\ copy'[t] = copy[t]
             \/ /\ link'[t] = link[t] /\ copy[t] # <<>> /\ t \notin Open /\ UNCHANGED <<posts, run>>
                /\ \E c : Touched(t, c) /\ copy'[t] = [copy[t] EXCEPT ![Len(copy[t])] = c]
  <2>1. PICK c : Touched(u, c) /\ copy' = [copy EXCEPT ![u] = [copy[u] EXCEPT ![Len(copy[u])] = c]]
    BY <1>3, HereIs
  <2>2. /\ copy[u] # <<>> /\ UNCHANGED <<posts, link, run>>
        /\ crossed' = IF u \in Open THEN crossed \cup {u} ELSE crossed
    BY <1>3, HereIs
  <2>3. CASE u = t
    BY <1>0, <2>1, <2>2, <2>3 DEF CopyTyped
  <2>4. CASE u # t
    BY <2>1, <2>2, <2>4 DEF CopyTyped
  <2> QED
    BY <2>3, <2>4
<1>4. ASSUME NEW u \in Threads, Post(u) PROVE link'[t] = link[t] /\ copy'[t] = copy[t]
  BY <1>4 DEF Post, local
<1>5. ASSUME Stop
      PROVE  /\ link'[t] = NoLink /\ copy'[t] = copy[t] /\ posts' = posts
             /\ \A r \in Runs : run[r].pc \notin Working /\ run'[r].pc = run[r].pc
  BY <1>5, StopStep
<1> QED
  BY <1>0, <1>1, <1>2, <1>3, <1>4, <1>5, Cases DEF Quiet

\* Every step keeps LinkSent.
LEMMA StepLinkSent ==
  ASSUME Shape, Sync, [Next]_vars
  PROVE  LinkSent'
<1> SUFFICES ASSUME NEW t \in Threads, t \notin crossed'
             PROVE  link'[t].seen <= Len(posts') /\ link'[t].head <= Len(posts')
  BY DEF LinkSent
<1> USE ShapeIs
<1>1. /\ t \notin crossed /\ Len(posts) \in Nat /\ Len(posts') \in Nat /\ Len(posts) <= Len(posts')
      /\ LinkTyped'
  BY Grows, StepLink
<1>2. link[t].seen <= Len(posts) /\ link[t].head <= Len(posts)
  BY <1>1 DEF Sync, LinkSent
<1>3. link[t].seen \in Nat /\ link[t].head \in Nat /\ link'[t].seen \in Nat /\ link'[t].head \in Nat
  BY <1>1, RemoteSyncAssumption DEF LinkTyped, Links
<1>4. ASSUME NEW r \in Runs, Commit(r), link'[t].seen = This(r).seen,
             Sound(t, link'[t], copy'[t], This(r).seen)
      PROVE  link'[t].seen <= Len(posts) /\ link'[t].head <= Len(posts)
  <2>1. run[r].todo \in Seq(Todo) /\ run[r].todo # <<>>
    BY <1>4, RunFields, HeadTyped, Zenon DEF Commit
  <2>2. This(r).seen <= Len(posts)
    BY <2>1, HeadSent DEF Sync
  <2> QED
    BY <1>4, <2>2 DEF Sound
<1>5. NoLink.seen = 0 /\ NoLink.head = 0
  BY DEF NoLink
<1>6. \/ link'[t] = link[t] \/ link'[t] = NoLink
      \/ \E r \in Runs : /\ Commit(r) /\ link'[t].seen = This(r).seen
                         /\ Sound(t, link'[t], copy'[t], This(r).seen)
  BY ThreadStep
<1>7. CASE link'[t] = link[t] \/ link'[t] = NoLink
  BY <1>1, <1>2, <1>3, <1>5, <1>7
<1>8. CASE link'[t].seen <= Len(posts) /\ link'[t].head <= Len(posts)
  BY <1>1, <1>3, <1>8
<1> QED
  BY <1>4, <1>6, <1>7, <1>8

\* The newest copy after somebody wrote in it or deleted it.
LEMMA TouchedIs ==
  ASSUME CopyTyped, NEW t \in Threads, copy[t] # <<>>, NEW c, NEW new,
         new = [copy[t] EXCEPT ![Len(copy[t])] = c]
  PROVE  /\ Len(new) = Len(copy[t]) /\ DOMAIN new = DOMAIN copy[t] /\ new # <<>> /\ Last(new) = c
         /\ \A k \in DOMAIN copy[t] : new[k] = IF k = Len(copy[t]) THEN c ELSE copy[t][k]
<1>1. copy[t] \in Seq(Mirrors) /\ Len(copy[t]) \in DOMAIN copy[t] /\ Len(copy[t]) \in Nat
      /\ DOMAIN copy[t] = 1..Len(copy[t])
  BY CopyIs DEF CopyTyped
<1>2. DOMAIN new = 1..Len(copy[t])
  BY <1>1
<1>3. Len(new) = Len(copy[t])
  BY <1>1, <1>2
<1>4. \A k \in DOMAIN copy[t] : new[k] = IF k = Len(copy[t]) THEN c ELSE copy[t][k]
  BY <1>1
<1>5. new # <<>>
  BY <1>1, <1>3
<1> QED
  BY <1>1, <1>2, <1>3, <1>4, <1>5 DEF Last

\* The copies of a thread after one more.
LEMMA AddedIs ==
  ASSUME CopyTyped, NEW t \in Threads, NEW c, NEW new, new = Append(copy[t], c)
  PROVE  /\ Len(new) = Len(copy[t]) + 1 /\ DOMAIN new = 1..Len(copy[t]) + 1 /\ new # <<>> /\ Last(new) = c
         /\ \A k \in DOMAIN copy[t] : new[k] = copy[t][k]
         /\ DOMAIN copy[t] = 1..Len(copy[t]) /\ Len(copy[t]) \in Nat
BY DEF CopyTyped, Last

\* Every step keeps CopyIsPrefix: a commit adds what comes next.
LEMMA StepCopyIsPrefix ==
  ASSUME Shape, Sync, [Next]_vars
  PROVE  CopyIsPrefix'
<1> SUFFICES ASSUME NEW t \in Threads, t \notin crossed', copy'[t] # <<>>
             PROVE  /\ \E x \in 0..Posts : Copy(t)'.msgs = Pulled(t, 0, x)'
                    /\ Copy(t)'.base \subseteq Copy(t)'.msgs
  BY DEF CopyIsPrefix
<1> USE ShapeIs
<1>1. /\ t \notin crossed /\ Len(posts) \in Nat /\ Len(posts) <= Posts /\ Posts \in Nat
      /\ \A m \in 0..Len(posts) : Pulled(t, 0, m)' = Pulled(t, 0, m)
  BY Grows, RemoteSyncAssumption DEF RemoteTyped
<1>2. Copy(t)' = Last(copy'[t]) /\ Copy(t) = Last(copy[t])
  BY DEF Copy, Last
<1> DEFINE Ok(c) == /\ \E x \in 0..Len(posts) : c.msgs = Pulled(t, 0, x)
                    /\ c.base \subseteq c.msgs
<1>3. copy[t] # <<>> => Ok(Copy(t))
  <2>1. ASSUME NEW x \in 0..Posts
        PROVE  \E y \in 0..Len(posts) : Pulled(t, 0, x) = Pulled(t, 0, y)
    <3>1. CASE x <= Len(posts)
      BY <1>1, <3>1
    <3>2. CASE ~(x <= Len(posts))
      <4>1. \A n \in Of(t) : n \in Nat /\ n <= Len(posts)
        BY <1>1, OfTyped
      <4>2. Pulled(t, 0, x) = Pulled(t, 0, Len(posts))
        BY <1>1, <3>2, <4>1 DEF Pulled
      <4> QED
        BY <1>1, <4>2
    <3> QED
      BY <3>1, <3>2
  <2> QED
    BY <1>1, <2>1 DEF Sync, CopyIsPrefix
<1>4. Ok(Copy(t)')
  <2> HIDE DEF Ok
  <2>1. CASE copy'[t] = copy[t]
    BY <1>2, <1>3, <2>1
  <2>2. ASSUME copy[t] # <<>>, NEW c, Touched(t, c), copy'[t] = [copy[t] EXCEPT ![Len(copy[t])] = c]
        PROVE  Ok(Copy(t)')
    <3>1. Copy(t)' = c
      BY <1>2, <2>2, TouchedIs
    <3> QED
      BY <1>3, <2>2, <3>1 DEF Ok, Touched
  <2>3. ASSUME NEW s, Sound(t, link'[t], copy'[t], s)
        PROVE  Ok(Copy(t)')
    <3>1. CASE copy'[t] = copy[t]
      BY <2>1, <3>1
    <3>2. CASE link'[t].state = "active" /\ Copy(t)'.base \subseteq Copy(t)'.msgs
      BY <1>2, <2>3, <3>2 DEF Sound, Ok
    <3>3. ASSUME copy[t] # <<>>, NEW c, copy'[t] = [copy[t] EXCEPT ![Len(copy[t])] = c],
                 c.base \subseteq c.msgs
          PROVE  Copy(t)'.base \subseteq Copy(t)'.msgs
      BY <1>2, <3>3, TouchedIs
    <3>4. ASSUME NEW c, copy'[t] = Append(copy[t], c), c.base = {}
          PROVE  Copy(t)'.base \subseteq Copy(t)'.msgs
      BY <1>2, <3>4, AddedIs
    <3> QED
      BY <2>3, <3>1, <3>2, <3>3, <3>4 DEF Sound
  <2> QED
    BY <2>1, <2>2, <2>3, ThreadStep
<1> QED
  BY <1>1, <1>4

\* Every step keeps SeenIsCopied: a commit notes only what it wrote.
LEMMA StepSeenIsCopied ==
  ASSUME Shape, Sync, [Next]_vars
  PROVE  SeenIsCopied'
<1> SUFFICES ASSUME NEW t \in Threads, t \notin crossed', link'[t].state = "active", NEW n \in Of(t)',
                    n <= link'[t].seen \/ n <= link'[t].head
             PROVE  n \in Copy(t)'.msgs
  BY DEF SeenIsCopied
<1> USE ShapeIs
<1>1. /\ t \notin crossed /\ Len(posts) \in Nat /\ n \in Nat /\ Len(posts') \in Nat
      /\ n <= Len(posts) => n \in Of(t)
  BY Grows
<1>2. Copy(t)' = Last(copy'[t]) /\ Copy(t) = Last(copy[t])
  BY DEF Copy, Last
<1>3. LinkTyped' /\ Posts \in Nat
  BY StepLink, RemoteSyncAssumption
<1>4. link'[t].seen \in Nat /\ link'[t].head \in Nat
  BY <1>3 DEF LinkTyped, Links
<1>5. ASSUME link'[t] = link[t] PROVE n \in Copy(t).msgs
  <2>1. n <= Len(posts)
    BY <1>1, <1>4, <1>5 DEF Sync, LinkSent
  <2> QED
    BY <1>1, <1>5, <2>1 DEF Sync, SeenIsCopied
<1>6. ASSUME link'[t] = link[t], copy'[t] = copy[t] PROVE n \in Copy(t)'.msgs
  BY <1>2, <1>5, <1>6
<1>7. ASSUME link'[t] = link[t], copy[t] # <<>>, NEW c, Touched(t, c),
             copy'[t] = [copy[t] EXCEPT ![Len(copy[t])] = c]
      PROVE  n \in Copy(t)'.msgs
  BY <1>2, <1>5, <1>7, TouchedIs DEF Touched
<1>8. ASSUME NEW s, Sound(t, link'[t], copy'[t], s), s = link'[t].seen
      PROVE  n \in Copy(t)'.msgs
  <2>1. PICK x \in 0..Len(posts) : /\ s <= x /\ link'[t].head <= x
                                   /\ Last(copy'[t]).msgs = Pulled(t, 0, x)
    BY <1>8 DEF Sound
  <2>2. n <= x /\ n \in Of(t)
    BY <1>1, <1>4, <1>8, <2>1
  <2> QED
    BY <1>1, <1>2, <2>1, <2>2 DEF Pulled
<1>9. link'[t] # NoLink
  BY IdlePc
<1> QED
  BY <1>6, <1>7, <1>8, <1>9, ThreadStep

\* Every step keeps ForkedForAReason: a copy that nobody wrote in is appended to.
LEMMA StepForkedForAReason ==
  ASSUME Shape, Sync, [Next]_vars
  PROVE  ForkedForAReason'
<1> SUFFICES ASSUME NEW t \in Threads, t \notin crossed', NEW k \in DOMAIN copy'[t], k < Len(copy'[t])
             PROVE  copy'[t][k].tail \/ ~copy'[t][k].alive
  BY DEF ForkedForAReason
<1> USE ShapeIs
<1>1. t \notin crossed
  BY Grows
<1>2. copy[t] \in Seq(Mirrors) /\ Len(copy[t]) \in Nat /\ DOMAIN copy[t] = 1..Len(copy[t])
  BY DEF CopyTyped
<1>3. \A i \in DOMAIN copy[t] : i < Len(copy[t]) => copy[t][i].tail \/ ~copy[t][i].alive
  BY <1>1 DEF Sync, ForkedForAReason
<1>4. CASE copy'[t] = copy[t]
  BY <1>3, <1>4
<1>5. ASSUME copy[t] # <<>>, NEW c, copy'[t] = [copy[t] EXCEPT ![Len(copy[t])] = c]
      PROVE  copy'[t][k].tail \/ ~copy'[t][k].alive
  <2>1. k \in DOMAIN copy[t] /\ k < Len(copy[t]) /\ copy'[t][k] = copy[t][k]
    BY <1>2, <1>5, TouchedIs
  <2> QED
    BY <1>3, <2>1
<1>6. ASSUME NEW c, copy'[t] = Append(copy[t], c), copy[t] # <<>> => Copy(t).tail \/ ~Copy(t).alive
      PROVE  copy'[t][k].tail \/ ~copy'[t][k].alive
  <2>1. k \in DOMAIN copy[t] /\ copy'[t][k] = copy[t][k] /\ copy[t] # <<>>
    BY <1>2, <1>6, AddedIs
  <2>2. CASE k = Len(copy[t])
    BY <1>6, <2>1, <2>2 DEF Copy
  <2>3. CASE k < Len(copy[t])
    BY <1>3, <2>1, <2>3
  <2> QED
    BY <1>2, <2>1, <2>2, <2>3
<1> QED
  BY <1>4, <1>5, <1>6, ThreadStep DEF Sound

\* No step adds messages to a copy somebody wrote in.
LEMMA StepLeftAlone ==
  ASSUME Shape, Sync, [Next]_vars, NEW t \in Threads \ crossed', NEW k \in DOMAIN copy[t], copy[t][k].tail
  PROVE  copy'[t][k].msgs = copy[t][k].msgs
<1> USE ShapeIs
<1>1. copy[t] # <<>>
  BY DEF CopyTyped
<1>2. ASSUME NEW c, copy'[t] = [copy[t] EXCEPT ![Len(copy[t])] = c], k = Len(copy[t]) => c.msgs = Copy(t).msgs
      PROVE  copy'[t][k].msgs = copy[t][k].msgs
  BY <1>1, <1>2, TouchedIs DEF Copy
<1>3. ASSUME NEW c, copy'[t] = Append(copy[t], c)
      PROVE  copy'[t][k].msgs = copy[t][k].msgs
  BY <1>3, AddedIs
<1>4. ~Copy(t).tail => k # Len(copy[t])
  BY DEF Copy
<1> QED
  BY <1>2, <1>3, <1>4, ThreadStep DEF Sound, Touched

\* Every step keeps KnownIsOld: a link's head only goes forward.
LEMMA StepKnownIsOld ==
  ASSUME Shape, Sync, [Next]_vars
  PROVE  KnownIsOld'
<1> DEFINE Old(k, l) == /\ k.state = "none" => k = NoLink
                        /\ l.state = "none" => k.state = "none"
                        /\ k.state = "detached" => l.state = "detached"
                        /\ k.head <= l.head
<1> SUFFICES ASSUME NEW r \in Runs, NEW t \in Threads, t \notin crossed',
                    run'[r].pc \in Working \ {"read"}
             PROVE  Old(run'[r].known[t], link'[t])
  BY DEF KnownIsOld
<1> USE ShapeIs
<1>1. t \notin crossed
  BY Grows
<1>2. run[r].pc \in Working \ {"read"} => Old(run[r].known[t], link[t])
  BY <1>1 DEF Sync, KnownIsOld
<1>3. Old(link[t], link[t])
  BY RemoteSyncAssumption DEF LinkHasCopy, LinkTyped, Links
<1>4. /\ run[r].known[t].head \in Nat /\ link[t].head \in Nat /\ link'[t].head \in Nat
      /\ link'[t].state \in {"none", "active", "detached"}
  <2>1. run[r].known[t] \in Links /\ LinkTyped'
    BY RunFields, StepLink
  <2> QED
    BY <2>1, RemoteSyncAssumption DEF LinkTyped, Links
<1>5. ASSUME NEW k, Old(k, link[t]), k.head \in Nat
      PROVE  \/ Old(k, link'[t])
             \/ \A q \in Runs : run[q].pc \notin Working /\ run'[q].pc = run[q].pc
  <2>1. CASE link'[t] = link[t]
    BY <1>5, <2>1
  <2>2. ASSUME NEW s, Sound(t, link'[t], copy'[t], s), link'[t].state # "none"
        PROVE  Old(k, link'[t])
    BY <1>4, <1>5, <2>2 DEF Sound
  <2> QED
    BY <2>1, <2>2, ThreadStep
<1>6. \/ /\ run[r].pc \in Working \ {"read"} /\ run'[r].known = run[r].known
      \/ run'[r].known = link
      \/ run'[r] = run[r]
      \/ \A q \in Runs : run'[q].pc = run[q].pc /\ run[q].pc \notin Working
      \/ Stop
  <2>1. ASSUME NEW q \in Runs, Moved(q) \/ Pull(q) \/ Look(q) \/ Commit(q)
        PROVE  \/ /\ run[r].pc \in Working \ {"read"} /\ run'[r].known = run[r].known
               \/ run'[r].known = link
               \/ run'[r] = run[r]
    <3>1. CASE q = r
      BY <2>1, <3>1, PullStep, LookStep, CommitStep DEF Moved, Working
    <3>2. CASE q # r
      BY <2>1, <3>2, PullStep, LookStep, CommitStep DEF Moved, SameBut
    <3> QED
      BY <3>1, <3>2
  <2>2. ASSUME NEW u \in Threads, Post(u) \/ Continue(u) \/ DeleteLocal(u) PROVE run' = run
    BY <2>2, HereIs DEF Post
  <2> QED
    BY <2>1, <2>2, Cases
<1>7. CASE Stop
  BY <1>1, <1>7, StopStep
<1>8. CASE run[r].pc \in Working \ {"read"} /\ run'[r].known = run[r].known
  BY <1>2, <1>4, <1>5, <1>8
<1>9. CASE run'[r].known = link
  BY <1>3, <1>4, <1>5, <1>9
<1>10. CASE run'[r] = run[r]
  BY <1>2, <1>4, <1>5, <1>10
<1> QED
  BY <1>6, <1>7, <1>8, <1>9, <1>10

\* A batch stays good while its thread is not crossed.
LEMMA KeepsBatch ==
  ASSUME Shape, Sync, [Next]_vars, NEW r \in Runs, run[r].pc \in {"look", "commit"},
         This(r).thread \notin crossed', This(r)' = This(r), run'[r].known = run[r].known,
         NEW b, GoodBatch(r, b)
  PROVE  GoodBatch(r, b)'
<1> USE ShapeIs
<1>1. SUFFICES ASSUME NEW t \in Threads, t = This(r).thread,
                      run[r].known[t].state # "detached"
               PROVE  /\ \E m \in This(r).seen..Len(posts') : b = Pulled(t, run[r].known[t].head, m)'
                      /\ link'[t].state = "none" /\ copy'[t] # <<>> => Copy(t)'.msgs \subseteq b
  <2>1. This(r).thread \in Threads /\ This(r)'.thread = This(r).thread
    BY HeadTyped
  <2> QED
    BY <1>1, <2>1 DEF GoodBatch, Pulled, Of, Copy
<1>2. PICK m \in This(r).seen..Len(posts) : b = Pulled(t, run[r].known[t].head, m)
  BY <1>1 DEF GoodBatch
<1>3. link[t].state = "none" /\ copy[t] # <<>> => Copy(t).msgs \subseteq b
  BY <1>1 DEF GoodBatch
<1>4. /\ Len(posts) \in Nat /\ Len(posts') \in Nat /\ Len(posts) <= Len(posts') /\ This(r).seen \in Nat
      /\ t \notin crossed'
  BY <1>1, Grows, HeadTyped, RemoteSyncAssumption
<1>5. m \in 0..Len(posts) /\ m \in This(r).seen..Len(posts')
  BY <1>2, <1>4
<1>6. b = Pulled(t, run[r].known[t].head, m)'
  <2> DEFINE hd == run[r].known[t].head
  <2>1. \A h : Pulled(t, h, m)' = Pulled(t, h, m)
    BY <1>5, Grows
  <2> QED
    BY <1>2, <2>1 DEF Pulled, Of
<1>7. ASSUME link'[t].state = "none", copy'[t] # <<>> PROVE Copy(t)'.msgs \subseteq b
  <2>1. Copy(t)' = Last(copy'[t]) /\ Copy(t) = Last(copy[t])
    BY DEF Copy, Last
  <2>2. ASSUME copy[t] # <<>>, NEW c, Touched(t, c), copy'[t] = [copy[t] EXCEPT ![Len(copy[t])] = c],
               link'[t] = link[t]
        PROVE  Copy(t)'.msgs \subseteq b
    <3>1. Last(copy'[t]) = c /\ c.msgs = Copy(t).msgs
      BY <2>2, TouchedIs, SMTT(30) DEF Touched
    <3> QED
      BY <1>3, <1>7, <2>1, <2>2, <3>1
  <2>3. run[r].pc \in Working
    BY DEF Working
  <2> QED
    BY <1>3, <1>4, <1>7, <2>1, <2>2, <2>3, ThreadStep
<1> QED
  BY <1>5, <1>6, <1>7

\* A run at a thread is the one that looked at it, or the step is not its own.
LEMMA AtThread ==
  ASSUME Shape, [Next]_vars, NEW r \in Runs, run'[r].pc \in {"look", "commit"}
  PROVE  \/ Pull(r)
         \/ Look(r)
         \/ Stop
         \/ run'[r] = run[r] /\ This(r)' = This(r) /\ ~Look(r) /\ ~Pull(r)
<1> USE ShapeIs
<1>1. ASSUME NEW q \in Runs, Moved(q) \/ Commit(q) PROVE run'[r] = run[r]
  <2>1. q # r
    BY <1>1, CommitStep DEF Moved
  <2> QED
    BY <1>1, <2>1, CommitStep DEF Moved, SameBut
<1>2. ASSUME NEW q \in Runs \ {r}, Pull(q) \/ Look(q) PROVE run'[r] = run[r]
  BY <1>2, PullStep, LookStep DEF SameBut
<1>3. ASSUME NEW u \in Threads, Post(u) \/ Continue(u) \/ DeleteLocal(u) PROVE run' = run
  BY <1>3, HereIs DEF Post
<1>4. Pull(r) \/ Look(r) \/ Stop \/ run'[r] = run[r]
  BY <1>1, <1>2, <1>3, Cases
<1>5. run'[r] = run[r] => This(r)' = This(r)
  BY DEF This
<1> QED
  BY <1>4, <1>5

\* Every step keeps LookInv.
LEMMA StepLookInv ==
  ASSUME Shape, Sync, [Next]_vars
  PROVE  LookInv'
<1> SUFFICES ASSUME NEW r \in Runs, run'[r].pc = "look", This(r)'.thread \notin crossed'
             PROVE  GoodBatch(r, run[r].batch)'
  BY DEF LookInv
<1> USE ShapeIs
<1>1. CASE Look(r)
  BY <1>1, LookStep
<1>2. CASE Stop
  <2>1. run[r].pc = "look" /\ This(r)' = This(r) /\ This(r).thread \in Threads
    BY <1>2, StopStep, HeadTyped DEF This
  <2> QED
    BY <1>2, <2>1, StopStep DEF Working
<1>3. CASE run'[r] = run[r] /\ This(r)' = This(r)
  <2>1. run[r].pc = "look" /\ This(r).thread \notin crossed
    BY <1>3, Grows
  <2>2. GoodBatch(r, run[r].batch)
    BY <2>1 DEF Sync, LookInv
  <2>3. \A x : GoodBatch(r, x) => GoodBatch(r, x)'
    BY <1>3, <2>1, KeepsBatch
  <2>4. PICK b : b = run[r].batch /\ b = run'[r].batch
    BY <1>3
  <2>5. GoodBatch(r, b)'
    BY <2>2, <2>3, <2>4
  <2> QED
    BY <2>4, <2>5 DEF GoodBatch
<1>4. CASE Pull(r)
  <2> SUFFICES ASSUME NEW t \in Threads, t = This(r).thread,
                      run[r].known[t].state # "detached"
               PROVE  /\ \E m \in This(r).seen..Len(posts) : run'[r].batch = Pulled(t, run[r].known[t].head, m)
                      /\ link[t].state = "none" /\ copy[t] # <<>> => Copy(t).msgs \subseteq run'[r].batch
    <3>1. /\ This(r).thread \in Threads /\ This(r)' = This(r) /\ run'[r].known = run[r].known
          /\ UNCHANGED <<posts, link, copy>>
      BY <1>4, PullStep DEF This, Quiet
    <3>2. \A t, h, m : Pulled(t, h, m)' = Pulled(t, h, m)
      BY <3>1 DEF Pulled, Of
    <3>3. \A t : Copy(t)' = Copy(t)
      BY <3>1 DEF Copy
    <3>4. PICK t \in Threads : t = This(r).thread
      BY <3>1
    <3>5. run'[r].known[t] = run[r].known[t]
      BY <3>1
    <3>6. (run'[r].known[t]).state = "detached" \/
            /\ \E m \in This(r)'.seen..Len(posts') : run'[r].batch = Pulled(t, run[r].known[t].head, m)'
            /\ link'[t].state = "none" /\ copy'[t] # <<>> => Copy(t)'.msgs \subseteq run'[r].batch
      <4>1. CASE run[r].known[t].state = "detached"
        BY <3>5, <4>1
      <4>2. CASE run[r].known[t].state # "detached"
        <5>1. PICK m \in This(r).seen..Len(posts) : run'[r].batch = Pulled(t, run[r].known[t].head, m)
          BY <3>4, <4>2
        <5>2. run'[r].batch = Pulled(t, run[r].known[t].head, m)'
          BY <3>1, <3>5, <5>1 DEF Pulled, Of
        <5>3. m \in This(r)'.seen..Len(posts')
          BY <3>1, <5>1
        <5>4. link'[t].state = "none" /\ copy'[t] # <<>> => Copy(t)'.msgs \subseteq run'[r].batch
          BY <3>1, <3>3, <3>4, <4>2
        <5> QED
          BY <5>2, <5>3, <5>4
      <4> QED
        BY <4>1, <4>2
    <3> QED
      BY <3>1, <3>4, <3>6 DEF GoodBatch
  <2>1. /\ run'[r].batch = {n \in Of(t) : n >= run[r].known[t].head} /\ run[r].pc = "next"
        /\ t \notin crossed /\ run[r].todo # <<>>
    BY <1>4, PullStep DEF This, Quiet
  <2>2. This(r).seen \in Nat /\ This(r).seen <= Len(posts)
    BY <2>1, HeadSent DEF Sync
  <2>3. run[r].known[t] \in Links /\ Len(posts) \in Nat
    BY RunFields DEF RemoteTyped
  <2>4. run'[r].batch = Pulled(t, run[r].known[t].head, Len(posts))
    BY <2>1, <2>3, OfTyped, RemoteSyncAssumption DEF Pulled, Links
  <2>5. ASSUME link[t].state = "none", copy[t] # <<>> PROVE Copy(t).msgs \subseteq run'[r].batch
    <3>1. run[r].known[t].head = 0
      BY <2>1, <2>5 DEF Sync, KnownIsOld, Working, NoLink
    <3>2. run'[r].batch = Of(t)
      BY <2>1, <3>1, OfTyped DEF Messages
    <3>3. Copy(t).msgs \subseteq Of(t)
      BY <2>1, <2>5 DEF Sync, CopyIsPrefix, Pulled
    <3> QED
      BY <3>2, <3>3
  <2> QED
    BY <2>2, <2>3, <2>4, <2>5
<1> QED
  BY <1>1, <1>2, <1>3, <1>4, AtThread

\* What a transaction finds depends on its thread's link and copies only.
LEMMA PlanKeeps ==
  ASSUME NEW t, link'[t] = link[t], copy'[t] = copy[t], NEW b
  PROVE  Plan(t, b)' = Plan(t, b)
BY DEF Plan, Base, Copy, Held

\* Every step keeps CommitInv: what a transaction read is as it was, or it crossed.
LEMMA StepCommitInv ==
  ASSUME Shape, Sync, [Next]_vars
  PROVE  CommitInv'
<1> SUFFICES ASSUME NEW r \in Runs, run'[r].pc = "commit", This(r)'.thread \notin crossed'
             PROVE  \E b \in SUBSET Messages : GoodBatch(r, b)' /\ run'[r].plan = Plan(This(r).thread, b)'
  BY DEF CommitInv
<1> USE ShapeIs
<1>1. CASE Look(r)
  <2>1. PICK t \in Threads : t = This(r).thread
    BY <1>1, LookStep
  <2>2. /\ run[r].pc = "look" /\ This(r)' = This(r) /\ run'[r].known = run[r].known
        /\ link'[t] = link[t] /\ copy'[t] = copy[t] /\ t \notin crossed
        /\ run'[r].plan = Plan(t, run[r].batch) /\ run[r].batch \in SUBSET Messages
    BY <1>1, <2>1, LookStep, Grows DEF This
  <2>3. GoodBatch(r, run[r].batch)
    BY <2>1, <2>2 DEF Sync, LookInv
  <2>4. \A x : GoodBatch(r, x) => GoodBatch(r, x)'
    BY <2>1, <2>2, KeepsBatch
  <2>5. PICK b \in SUBSET Messages : b = run[r].batch
    BY <2>2
  <2>6. Plan(t, b)' = Plan(t, b)
    BY <2>2, PlanKeeps
  <2>7. Plan(This(r).thread, b)' = Plan(t, b)'
    BY <2>1, <2>2 DEF Plan, Base, Copy, Held
  <2> QED
    BY <2>2, <2>3, <2>4, <2>5, <2>6, <2>7
<1>2. CASE Stop
  <2>1. run[r].pc = "commit" /\ This(r)' = This(r) /\ This(r).thread \in Threads
    BY <1>2, StopStep, HeadTyped DEF This
  <2> QED
    BY <1>2, <2>1, StopStep DEF Working
<1>3. CASE run'[r] = run[r] /\ This(r)' = This(r) /\ ~Look(r)
  <2>0. run[r].pc = "commit"
    BY <1>3
  <2>1. PICK t \in Threads : t = This(r).thread
    BY <2>0, HeadTyped
  <2>2. t \notin crossed' /\ t \notin crossed
    BY <1>3, <2>1, Grows
  <2>3. PICK b \in SUBSET Messages : GoodBatch(r, b) /\ run[r].plan = Plan(t, b)
    BY <2>0, <2>1, <2>2 DEF Sync, CommitInv
  <2>4. GoodBatch(r, b)'
    BY <1>3, <2>0, <2>1, <2>2, <2>3, KeepsBatch
  <2>5. link'[t] = link[t] /\ copy'[t] = copy[t]
    <3>1. ASSUME NEW q \in Runs, Commit(q), t = This(q).thread PROVE FALSE
      <4>0. run[q].pc = "commit"
        BY <3>1, Zenon DEF Commit
      <4>1. q = r
        BY <2>0, <2>1, <2>2, <3>1, <4>0 DEF Sync, OneOpen
      <4> QED
        BY <1>3, <2>0, <3>1, <4>1, CommitStep
    <3>2. t \in Open
      BY <2>0, <2>1 DEF Open
    <3>3. run[r].pc \in Working
      BY <2>0 DEF Working
    <3> QED
      BY <2>2, <3>1, <3>2, <3>3, ThreadStep
  <2>6. Plan(t, b)' = Plan(t, b)
    BY <2>5, PlanKeeps
  <2>7. Plan(This(r).thread, b)' = Plan(t, b)'
    BY <1>3, <2>1 DEF Plan, Base, Copy, Held
  <2> QED
    BY <1>3, <2>3, <2>4, <2>6, <2>7
<1>4. ~Pull(r)
  BY PullStep
<1> QED
  BY <1>1, <1>2, <1>3, <1>4, AtThread

\* Every step keeps OneOpen: the second transaction of a thread crosses it.
LEMMA StepOneOpen ==
  ASSUME Shape, Sync, [Next]_vars
  PROVE  OneOpen'
<1> SUFFICES ASSUME NEW r \in Runs, NEW q \in Runs, r # q, run'[r].pc = "commit", run'[q].pc = "commit",
                    This(r)'.thread = This(q)'.thread, This(r)'.thread \notin crossed'
             PROVE  FALSE
  BY DEF OneOpen
<1> USE ShapeIs
<1>1. ASSUME NEW p \in Runs, NEW o \in Runs \ {p}, Look(p), run'[o].pc = "commit",
             This(p)'.thread = This(o)'.thread, This(p)'.thread \notin crossed'
      PROVE  FALSE
  <2>1. /\ run'[o] = run[o] /\ This(p)' = This(p)
        /\ crossed' = IF This(p).thread \in Open THEN crossed \cup {This(p).thread} ELSE crossed
    BY <1>1, LookStep DEF SameBut, This
  <2>2. This(o)' = This(o)
    BY <2>1 DEF This
  <2>3. This(p).thread \in Open
    BY <1>1, <2>1, <2>2 DEF Open
  <2> QED
    BY <1>1, <2>1, <2>3
<1>2. CASE Stop
  <2>1. run[r].pc = "commit" /\ This(r)' = This(r) /\ This(r).thread \in Threads
    BY <1>2, StopStep, HeadTyped DEF This
  <2> QED
    BY <1>2, <2>1, StopStep DEF Working
<1>3. CASE /\ run'[r] = run[r] /\ This(r)' = This(r)
           /\ run'[q] = run[q] /\ This(q)' = This(q)
  <2>1. This(r).thread \notin crossed
    BY <1>3, Grows
  <2> QED
    BY <1>3, <2>1 DEF Sync, OneOpen
<1>4. ~Pull(r) /\ ~Pull(q)
  BY PullStep
<1> QED
  BY <1>1, <1>2, <1>3, <1>4, AtThread

\* A later list of messages.
LEMMA LastGrows ==
  ASSUME Shape, [Next]_vars, NEW t
  PROVE  LastOf(t) \in Nat /\ LastOf(t)' \in Nat /\ LastOf(t) <= LastOf(t)'
<1> USE ShapeIs
<1>1. RemoteTyped'
  BY StepRemote
<1>2. Of(t) \subseteq Of(t)' /\ \A n \in Of(t)' : n \in 1..Len(posts') /\ Len(posts') \in Nat
  BY Grows
<1>3. Of(t)' \in SUBSET (0..Posts)
  BY <1>2, Grows, RemoteSyncAssumption
<1>4. LastOf(t)' = Newest(Of(t)')
  BY DEF LastOf
<1>5. LastOf(t)' \in Nat /\ \A n \in Of(t)' : n <= LastOf(t)'
  BY <1>3, <1>4, NewestIs, RemoteSyncAssumption
<1>6. LastOf(t) \in Nat /\ (LastOf(t) = 0 \/ LastOf(t) \in Of(t))
  BY LastIs
<1> QED
  BY <1>2, <1>5, <1>6

\* A part of a list is as old as the list.
LEMMA SeenKeeps ==
  /\ Seen(<<>>)
  /\ \A s \in Seq(Todo) : Seen(s) =>
       /\ s # <<>> => Seen(Tail(s))
       /\ \A k \in Nat : k <= Len(s) => Seen(SubSeq(s, 1, k))
       /\ Len(s) \in Nat /\ Seen(SubSeq(s, 1, Len(s)))
<1>1. Seen(<<>>)
  BY DEF Seen
<1>2. ASSUME NEW s \in Seq(Todo), Seen(s), s # <<>>
      PROVE  Seen(Tail(s))
  <2>1. /\ Len(s) \in Nat /\ DOMAIN s = 1..Len(s) /\ DOMAIN Tail(s) = 1..Len(s) - 1
        /\ \A i \in 1..Len(s) - 1 : Tail(s)[i] = s[i + 1]
    BY <1>2
  <2> QED
    BY <1>2, <2>1 DEF Seen
<1>3. ASSUME NEW s \in Seq(Todo), Seen(s), NEW k \in Nat, k <= Len(s)
      PROVE  Seen(SubSeq(s, 1, k))
  <2>1. /\ Len(s) \in Nat /\ DOMAIN s = 1..Len(s) /\ DOMAIN SubSeq(s, 1, k) = 1..k
        /\ \A i \in 1..k : SubSeq(s, 1, k)[i] = s[i]
    BY <1>3
  <2> QED
    BY <1>3, <2>1 DEF Seen
<1> QED
  BY <1>1, <1>2, <1>3

\* No list is ahead of the remote because of a step that sends nothing.
LEMMA SeenSame ==
  ASSUME posts' = posts, NEW s, Seen(s)
  PROVE  Seen(s)'
BY DEF Seen, LastOf, Of, Newest

\* TodoOld, from the lists of the runs after a step.
LEMMA SentOn ==
  ASSUME posts' = posts, \A q \in Runs : Seen(run'[q].todo)
  PROVE  TodoOld'
<1> SUFFICES ASSUME NEW q \in Runs PROVE Seen(run[q].todo)'
  BY DEF TodoOld
<1>1. PICK s : s = run'[q].todo
  OBVIOUS
<1>2. Seen(s)'
  BY <1>1, SeenSame
<1> QED
  BY <1>1, <1>2 DEF Seen, LastOf, Of, Newest

\* Every step keeps TodoOld.
LEMMA StepTodoOld ==
  ASSUME Shape, RemoteTyped, RunTyped, TodoLeft, TodoOld, [Next]_vars
  PROVE  TodoOld'
<1>1. CASE UNCHANGED <<run, posts>>
  BY <1>1 DEF TodoOld, Seen, LastOf, Of
<1>2. ASSUME Expire \/ Save \/ (\E t \in Threads : RemoteDelete(t) \/ Continue(t) \/
             DeleteLocal(t)) \/ UNCHANGED vars
      PROVE  UNCHANGED <<run, posts>>
  BY <1>2, Zenon DEF RemoteDelete, Continue, Here, remote, DeleteLocal, Expire, Save, vars
<1>3. ASSUME NEW r \in Runs, Start(r) PROVE TodoOld'
  <2>0. run[r].todo \in Seq(Todo) /\ posts' = posts /\ \A q \in Runs : Seen(run[q].todo)
    BY <1>3, RunFields DEF TodoOld, Start, remote, Vanish
  <2>1. run[r] \in RunStates /\ Idle.todo = <<>>
    BY RunFields DEF Idle
  <2>2. \A q \in Runs \ {r} : run'[q] = run[q]
    BY <1>3 DEF Start, Set, Vanish, ThreadFails, RunTyped
  <2>3. run'[r].todo \in {run[r].todo, <<>>}
    BY <1>3, <2>1 DEF Start, Set, Vanish, ThreadFails, RunTyped, RunStates, Idle
  <2>4. Seen(run'[r].todo)
    BY <1>3, <2>0, <2>3, SeenKeeps DEF Start, TodoLeft
  <2> QED
    BY <2>0, <2>2, <2>4, SentOn
<1>4. ASSUME NEW r \in Runs, Read(r) PROVE TodoOld'
  <2>0. run[r].todo \in Seq(Todo) /\ posts' = posts /\ \A q \in Runs : Seen(run[q].todo)
    BY <1>4, RunFields DEF TodoOld, Read, remote, Vanish
  <2>1. run[r] \in RunStates /\ Idle.todo = <<>>
    BY RunFields DEF Idle
  <2>2. \A q \in Runs \ {r} : run'[q] = run[q]
    BY <1>4 DEF Read, Set, Vanish, ThreadFails, RunTyped
  <2>3. run'[r].todo \in {run[r].todo, <<>>}
    BY <1>4, <2>1 DEF Read, Set, Vanish, ThreadFails, RunTyped, RunStates, Idle
  <2>4. Seen(run'[r].todo)
    BY <1>4, <2>0, <2>3, SeenKeeps DEF Read, TodoLeft
  <2> QED
    BY <2>0, <2>2, <2>4, SentOn
<1>5. ASSUME NEW r \in Runs, List(r) PROVE TodoOld'
  <2>0. run[r].todo \in Seq(Todo) /\ posts' = posts /\ \A q \in Runs : Seen(run[q].todo)
    BY <1>5, RunFields DEF TodoOld, List, remote
  <2>2. PICK t \in OnPage(run[r].page) :
          Set(r, [run[r] EXCEPT !.page = @ + 1,
                    !.todo = IF Changed(r, t) THEN Append(@, [thread |-> t, seen |-> LastOf(t)])
                                              ELSE @])
    BY <1>5, Zenon DEF List
  <2>3. LastOf(t) <= LastOf(t)
    BY LastIs
  <2> DEFINE T == IF Changed(r, t) THEN Append(run[r].todo, [thread |-> t, seen |-> LastOf(t)])
                  ELSE run[r].todo
  <2>4. Seen(T)
    BY <2>0, <2>3 DEF Seen
  <2>5. run' = [run EXCEPT ![r] = [run[r] EXCEPT !.page = run[r].page + 1, !.todo = T]]
    BY <2>2 DEF Set
  <2> HIDE DEF T
  <2>6. run'[r].todo = T /\ \A q \in Runs \ {r} : run'[q] = run[q]
    BY <2>5, RunFields DEF RunTyped, RunStates
  <2> QED
    BY <2>0, <2>4, <2>6, SentOn
<1>6. ASSUME NEW r \in Runs, Listing(r) PROVE TodoOld'
  <2>0. run[r].todo \in Seq(Todo) /\ posts' = posts /\ \A q \in Runs : Seen(run[q].todo)
    BY <1>6, RunFields DEF TodoOld, Listing, remote
  <2>2. \A q \in Runs \ {r} : run'[q] = run[q]
    BY <1>6 DEF Listing, Set, RunTyped
  <2>3. run'[r].todo = SubSeq(run[r].todo, 1, IF Len(run[r].todo) > PerRound THEN PerRound ELSE Len(run[r].todo))
    BY <1>6, RunFields DEF Listing, Set, RunTyped, RunStates
  <2>4. Seen(run'[r].todo)
    <3> DEFINE s == run[r].todo
    <3>1. s \in Seq(Todo) /\ Seen(s)
      BY <2>0
    <3>2. Len(s) \in Nat /\ PerRound \in Nat
      BY <3>1, RemoteSyncAssumption
    <3>3. \/ run'[r].todo = SubSeq(s, 1, PerRound) /\ PerRound <= Len(s)
          \/ run'[r].todo = SubSeq(s, 1, Len(s))
      BY <2>3, <3>2
    <3> HIDE DEF s
    <3> QED
      BY <3>1, <3>2, <3>3, SeenKeeps
  <2> QED
    BY <2>0, <2>2, <2>4, SentOn
<1>7. ASSUME NEW r \in Runs, Pull(r) PROVE TodoOld'
  <2>0. run[r].todo \in Seq(Todo) /\ posts' = posts /\ \A q \in Runs : Seen(run[q].todo)
    BY <1>7, RunFields DEF TodoOld, Pull, remote, Vanish
  <2>1. run[r] \in RunStates /\ Idle.todo = <<>>
    BY RunFields DEF Idle
  <2>2. \A q \in Runs \ {r} : run'[q] = run[q]
    BY <1>7 DEF Pull, Set, Vanish, ThreadFails, RunTyped
  <2>3. run'[r].todo \in {run[r].todo, <<>>}
    BY <1>7, <2>1 DEF Pull, Set, Vanish, ThreadFails, RunTyped, RunStates, Idle
  <2>4. Seen(run'[r].todo)
    BY <1>7, <2>0, <2>3, SeenKeeps DEF Pull, TodoLeft
  <2> QED
    BY <2>0, <2>2, <2>4, SentOn
<1>8. ASSUME NEW r \in Runs, PullNothing(r) PROVE TodoOld'
  <2>0. run[r].todo \in Seq(Todo) /\ posts' = posts /\ \A q \in Runs : Seen(run[q].todo)
    BY <1>8, RunFields DEF TodoOld, PullNothing, remote, Vanish
  <2>1. run[r] \in RunStates /\ Idle.todo = <<>>
    BY RunFields DEF Idle
  <2>2. \A q \in Runs \ {r} : run'[q] = run[q]
    BY <1>8 DEF PullNothing, Set, Vanish, ThreadFails, RunTyped
  <2>3. run'[r].todo \in {run[r].todo, <<>>}
    BY <1>8, <2>1 DEF PullNothing, Set, Vanish, ThreadFails, RunTyped, RunStates, Idle
  <2>4. Seen(run'[r].todo)
    BY <1>8, <2>0, <2>3, SeenKeeps DEF PullNothing, TodoLeft
  <2> QED
    BY <2>0, <2>2, <2>4, SentOn
<1>9. ASSUME NEW r \in Runs, Look(r) PROVE TodoOld'
  <2>0. run[r].todo \in Seq(Todo) /\ posts' = posts /\ \A q \in Runs : Seen(run[q].todo)
    BY <1>9, RunFields DEF TodoOld, Look, remote, Vanish
  <2>1. run[r] \in RunStates /\ Idle.todo = <<>>
    BY RunFields DEF Idle
  <2>2. \A q \in Runs \ {r} : run'[q] = run[q]
    BY <1>9 DEF Look, Set, Vanish, ThreadFails, RunTyped
  <2>3. run'[r].todo \in {run[r].todo, <<>>}
    BY <1>9, <2>1 DEF Look, Set, Vanish, ThreadFails, RunTyped, RunStates, Idle
  <2>4. Seen(run'[r].todo)
    BY <1>9, <2>0, <2>3, SeenKeeps DEF Look, TodoLeft
  <2> QED
    BY <2>0, <2>2, <2>4, SentOn
<1>10. ASSUME NEW r \in Runs, Commit(r) PROVE TodoOld'
  <2>0. run[r].todo \in Seq(Todo) /\ posts' = posts /\ \A q \in Runs : Seen(run[q].todo)
    BY <1>10, RunFields, Zenon DEF TodoOld, Commit, remote, Vanish
  <2>1. run[r] \in RunStates /\ Idle.todo = <<>>
    BY RunFields DEF Idle
  <2>2. \A q \in Runs \ {r} : run'[q] = run[q]
    BY <1>10 DEF Commit, Set, Vanish, ThreadFails, RunTyped
  <2>3. run'[r].todo \in {run[r].todo, <<>>}
    BY <1>10, <2>1 DEF Commit, Set, Vanish, ThreadFails, RunTyped, RunStates, Idle
  <2>4. Seen(run'[r].todo)
    BY <1>10, <2>0, <2>3, SeenKeeps, Zenon DEF Commit, TodoLeft
  <2> QED
    BY <2>0, <2>2, <2>4, SentOn
<1>11. ASSUME NEW r \in Runs, CommitFails(r) PROVE TodoOld'
  <2>0. run[r].todo \in Seq(Todo) /\ posts' = posts /\ \A q \in Runs : Seen(run[q].todo)
    BY <1>11, RunFields DEF TodoOld, CommitFails, remote, Vanish
  <2>1. run[r] \in RunStates /\ Idle.todo = <<>>
    BY RunFields DEF Idle
  <2>2. \A q \in Runs \ {r} : run'[q] = run[q]
    BY <1>11 DEF CommitFails, Set, Vanish, ThreadFails, RunTyped
  <2>3. run'[r].todo \in {run[r].todo, <<>>, Tail(run[r].todo)}
    BY <1>11, <2>1 DEF CommitFails, Set, Vanish, ThreadFails, RunTyped, RunStates, Idle
  <2>4. Seen(run'[r].todo)
    BY <1>11, <2>0, <2>3, SeenKeeps DEF CommitFails, TodoLeft
  <2> QED
    BY <2>0, <2>2, <2>4, SentOn
<1>12. ASSUME NEW r \in Runs, Extend(r) PROVE TodoOld'
  <2>0. run[r].todo \in Seq(Todo) /\ posts' = posts /\ \A q \in Runs : Seen(run[q].todo)
    BY <1>12, RunFields DEF TodoOld, Extend, remote, Vanish
  <2>1. run[r] \in RunStates /\ Idle.todo = <<>>
    BY RunFields DEF Idle
  <2>2. \A q \in Runs \ {r} : run'[q] = run[q]
    BY <1>12 DEF Extend, Set, Vanish, ThreadFails, RunTyped
  <2>3. run'[r].todo \in {run[r].todo, <<>>, Tail(run[r].todo)}
    BY <1>12, <2>1 DEF Extend, Set, Vanish, ThreadFails, RunTyped, RunStates, Idle
  <2>4. Seen(run'[r].todo)
    BY <1>12, <2>0, <2>3, SeenKeeps DEF Extend, TodoLeft
  <2> QED
    BY <2>0, <2>2, <2>4, SentOn
<1>13. ASSUME NEW r \in Runs, RoundOver(r) PROVE TodoOld'
  <2>0. run[r].todo \in Seq(Todo) /\ posts' = posts /\ \A q \in Runs : Seen(run[q].todo)
    BY <1>13, RunFields DEF TodoOld, RoundOver, remote, Vanish
  <2>1. run[r] \in RunStates /\ Idle.todo = <<>>
    BY RunFields DEF Idle
  <2>2. \A q \in Runs \ {r} : run'[q] = run[q]
    BY <1>13 DEF RoundOver, Set, Vanish, ThreadFails, RunTyped
  <2>3. run'[r].todo \in {run[r].todo, <<>>}
    BY <1>13, <2>1 DEF RoundOver, Set, Vanish, ThreadFails, RunTyped, RunStates, Idle
  <2>4. Seen(run'[r].todo)
    BY <1>13, <2>0, <2>3, SeenKeeps DEF RoundOver, TodoLeft
  <2> QED
    BY <2>0, <2>2, <2>4, SentOn
<1>14. ASSUME NEW r \in Runs, Record(r) PROVE TodoOld'
  <2>0. run[r].todo \in Seq(Todo) /\ posts' = posts /\ \A q \in Runs : Seen(run[q].todo)
    BY <1>14, RunFields DEF TodoOld, Record, remote, Vanish
  <2>1. run[r] \in RunStates /\ Idle.todo = <<>>
    BY RunFields DEF Idle
  <2>2. \A q \in Runs \ {r} : run'[q] = run[q]
    BY <1>14 DEF Record, Set, Vanish, ThreadFails, RunTyped
  <2>3. run'[r].todo \in {run[r].todo, <<>>}
    BY <1>14, <2>1 DEF Record, Set, Vanish, ThreadFails, RunTyped, RunStates, Idle
  <2>4. Seen(run'[r].todo)
    BY <1>14, <2>0, <2>3, SeenKeeps DEF Record, TodoLeft
  <2> QED
    BY <2>0, <2>2, <2>4, SentOn
<1>15. ASSUME NEW r \in Runs, Release(r) PROVE TodoOld'
  <2>0. run[r].todo \in Seq(Todo) /\ posts' = posts /\ \A q \in Runs : Seen(run[q].todo)
    BY <1>15, RunFields DEF TodoOld, Release, remote, Vanish
  <2>1. run[r] \in RunStates /\ Idle.todo = <<>>
    BY RunFields DEF Idle
  <2>2. \A q \in Runs \ {r} : run'[q] = run[q]
    BY <1>15 DEF Release, Set, Vanish, ThreadFails, RunTyped
  <2>3. run'[r].todo \in {run[r].todo, <<>>}
    BY <1>15, <2>1 DEF Release, Set, Vanish, ThreadFails, RunTyped, RunStates, Idle
  <2>4. Seen(run'[r].todo)
    BY <1>15, <2>0, <2>3, SeenKeeps DEF Release, TodoLeft
  <2> QED
    BY <2>0, <2>2, <2>4, SentOn
<1>16. ASSUME NEW r \in Runs, RunFails(r) PROVE TodoOld'
  <2>0. run[r].todo \in Seq(Todo) /\ posts' = posts /\ \A q \in Runs : Seen(run[q].todo)
    BY <1>16, RunFields DEF TodoOld, RunFails, remote, Vanish
  <2>1. run[r] \in RunStates /\ Idle.todo = <<>>
    BY RunFields DEF Idle
  <2>2. \A q \in Runs \ {r} : run'[q] = run[q]
    BY <1>16 DEF RunFails, Set, Vanish, ThreadFails, RunTyped
  <2>3. run'[r].todo \in {run[r].todo, <<>>}
    BY <1>16, <2>1 DEF RunFails, Set, Vanish, ThreadFails, RunTyped, RunStates, Idle
  <2>4. Seen(run'[r].todo)
    BY <1>16, <2>0, <2>3, SeenKeeps DEF RunFails, TodoLeft
  <2> QED
    BY <2>0, <2>2, <2>4, SentOn
<1>17. ASSUME NEW r \in Runs, PullFails(r) PROVE TodoOld'
  <2>0. run[r].todo \in Seq(Todo) /\ posts' = posts /\ \A q \in Runs : Seen(run[q].todo)
    BY <1>17, RunFields DEF TodoOld, PullFails, remote, Vanish
  <2>1. run[r] \in RunStates /\ Idle.todo = <<>>
    BY RunFields DEF Idle
  <2>2. \A q \in Runs \ {r} : run'[q] = run[q]
    BY <1>17 DEF PullFails, Set, Vanish, ThreadFails, RunTyped
  <2>3. run'[r].todo \in {run[r].todo, <<>>, Tail(run[r].todo)}
    BY <1>17, <2>1 DEF PullFails, Set, Vanish, ThreadFails, RunTyped, RunStates, Idle
  <2>4. Seen(run'[r].todo)
    BY <1>17, <2>0, <2>3, SeenKeeps DEF PullFails, TodoLeft
  <2> QED
    BY <2>0, <2>2, <2>4, SentOn
<1>18. ASSUME NEW r \in Runs, ExtendFails(r) PROVE TodoOld'
  <2>0. run[r].todo \in Seq(Todo) /\ posts' = posts /\ \A q \in Runs : Seen(run[q].todo)
    BY <1>18, RunFields DEF TodoOld, ExtendFails, remote, Vanish
  <2>1. run[r] \in RunStates /\ Idle.todo = <<>>
    BY RunFields DEF Idle
  <2>2. \A q \in Runs \ {r} : run'[q] = run[q]
    BY <1>18 DEF ExtendFails, Set, Vanish, ThreadFails, RunTyped
  <2>3. run'[r].todo \in {run[r].todo, <<>>, Tail(run[r].todo)}
    BY <1>18, <2>1 DEF ExtendFails, Set, Vanish, ThreadFails, RunTyped, RunStates, Idle
  <2>4. Seen(run'[r].todo)
    BY <1>18, <2>0, <2>3, SeenKeeps DEF ExtendFails, TodoLeft
  <2> QED
    BY <2>0, <2>2, <2>4, SentOn
<1>19. ASSUME NEW r \in Runs, Refused(r) PROVE TodoOld'
  <2>0. run[r].todo \in Seq(Todo) /\ posts' = posts /\ \A q \in Runs : Seen(run[q].todo)
    BY <1>19, RunFields DEF TodoOld, Refused, remote, Vanish
  <2>1. run[r] \in RunStates /\ Idle.todo = <<>>
    BY RunFields DEF Idle
  <2>2. \A q \in Runs \ {r} : run'[q] = run[q]
    BY <1>19 DEF Refused, Set, Vanish, ThreadFails, RunTyped
  <2>3. run'[r].todo \in {run[r].todo, <<>>}
    BY <1>19, <2>1 DEF Refused, Set, Vanish, ThreadFails, RunTyped, RunStates, Idle
  <2>4. Seen(run'[r].todo)
    BY <1>19, <2>0, <2>3, SeenKeeps DEF Refused, TodoLeft
  <2> QED
    BY <2>0, <2>2, <2>4, SentOn
<1>20. ASSUME NEW r \in Runs, Cancel(r) PROVE TodoOld'
  <2>0. run[r].todo \in Seq(Todo) /\ posts' = posts /\ \A q \in Runs : Seen(run[q].todo)
    BY <1>20, RunFields DEF TodoOld, Cancel, remote, Vanish
  <2>1. run[r] \in RunStates /\ Idle.todo = <<>>
    BY RunFields DEF Idle
  <2>2. \A q \in Runs \ {r} : run'[q] = run[q]
    BY <1>20 DEF Cancel, Set, Vanish, ThreadFails, RunTyped
  <2>3. run'[r].todo \in {run[r].todo, <<>>}
    BY <1>20, <2>1 DEF Cancel, Set, Vanish, ThreadFails, RunTyped, RunStates, Idle
  <2>4. Seen(run'[r].todo)
    BY <1>20, <2>0, <2>3, SeenKeeps DEF Cancel, TodoLeft
  <2> QED
    BY <2>0, <2>2, <2>4, SentOn
<1>21. ASSUME NEW r \in Runs, Crash(r) PROVE TodoOld'
  <2>0. run[r].todo \in Seq(Todo) /\ posts' = posts /\ \A q \in Runs : Seen(run[q].todo)
    BY <1>21, RunFields DEF TodoOld, Crash, remote, Vanish
  <2>1. run[r] \in RunStates /\ Idle.todo = <<>>
    BY RunFields DEF Idle
  <2>2. \A q \in Runs \ {r} : run'[q] = run[q]
    BY <1>21 DEF Crash, Set, Vanish, ThreadFails, RunTyped
  <2>3. run'[r].todo \in {run[r].todo, <<>>}
    BY <1>21, <2>1 DEF Crash, Set, Vanish, ThreadFails, RunTyped, RunStates, Idle
  <2>4. Seen(run'[r].todo)
    BY <1>21, <2>0, <2>3, SeenKeeps DEF Crash, TodoLeft
  <2> QED
    BY <2>0, <2>2, <2>4, SentOn
<1>22. ASSUME NEW t \in Threads, Post(t) PROVE TodoOld'
  <2>1. run' = run
    BY <1>22 DEF Post
  <2>2. \A q \in Runs : \A i \in DOMAIN run[q].todo : run[q].todo[i].seen \in Nat
    <3> SUFFICES ASSUME NEW q \in Runs, NEW i \in DOMAIN run[q].todo PROVE run[q].todo[i].seen \in Nat
      OBVIOUS
    <3>1. run[q].todo \in Seq(Todo)
      BY RunFields
    <3>2. run[q].todo[i] \in Todo
      BY <3>1
    <3> QED
      BY <3>2, RemoteSyncAssumption DEF Todo
  <2>3. \A u : LastOf(u) \in Nat /\ LastOf(u)' \in Nat /\ LastOf(u) <= LastOf(u)'
    BY LastGrows
  <2>4. ASSUME NEW q \in Runs, NEW i \in DOMAIN run[q].todo
        PROVE  run[q].todo[i].seen <= LastOf(run[q].todo[i].thread)'
    <3>1. PICK u : u = run[q].todo[i].thread
      OBVIOUS
    <3>2. run[q].todo[i].seen <= LastOf(u)'
      BY <2>2, <2>3, <3>1 DEF TodoOld, Seen
    <3> QED
      BY <2>1, <3>1, <3>2 DEF LastOf, Of, Newest
  <2> QED
    BY <2>1, <2>4 DEF TodoOld, Seen
<1>23. ASSUME Stop PROVE TodoOld'
  <2>1. posts' = posts
    BY <1>23 DEF Stop, remote
  <2>2. \A q \in Runs : run'[q].todo = run[q].todo
    BY <1>23, RunFields DEF Stop, RunStates
  <2> QED
    BY <2>1, <2>2, SentOn DEF TodoOld
<1> QED
  BY <1>1, <1>2, <1>3, <1>4, <1>5, <1>6, <1>7, <1>8, <1>9, <1>10, <1>11, <1>12, <1>13, <1>14,
     <1>15, <1>16, <1>17, <1>18, <1>19, <1>20, <1>21, <1>22, <1>23 DEF Next, Step, Fault,
     Others

\* Sync holds to begin with.
LEMMA InitSync ==
  ASSUME Init
  PROVE  Sync
<1>0. Shape /\ RemoteTyped
  BY InitShape, ShapeIs
<1>1. TodoOld /\ KnownIsOld /\ LookInv /\ CommitInv /\ OneOpen
  BY IdlePc, SeenKeeps DEF Init, TodoOld, KnownIsOld, LookInv, CommitInv, OneOpen, Idle, Working
<1>2. LinkSent /\ SeenIsCopied
  BY <1>0 DEF Init, LinkSent, SeenIsCopied, NoLink, RemoteTyped
<1>3. ASSUME NEW t \in Threads, copy[t] # <<>>
      PROVE  copy[t] = <<Mirror(Of(t))>>
  BY <1>3 DEF Init
<1>4. CopyIsPrefix
  <2> SUFFICES ASSUME NEW t \in Threads, copy[t] # <<>>
               PROVE  /\ \E x \in 0..Posts : Copy(t).msgs = Pulled(t, 0, x)
                      /\ Copy(t).base \subseteq Copy(t).msgs
    BY DEF CopyIsPrefix
  <2>1. Copy(t).msgs = Of(t) /\ Copy(t).base = {}
    <3>1. Len(<<Mirror(Of(t))>>) = 1 /\ <<Mirror(Of(t))>>[1] = Mirror(Of(t))
      OBVIOUS
    <3>2. Copy(t) = Mirror(Of(t))
      BY <1>3, <3>1 DEF Copy
    <3> QED
      BY <3>2 DEF Mirror
  <2>2. Of(t) = Pulled(t, 0, Len(posts)) /\ Len(posts) \in 0..Posts
    BY <1>0, OfTyped, RemoteSyncAssumption DEF Pulled, RemoteTyped
  <2> QED
    BY <2>1, <2>2
<1>5. ForkedForAReason
  <2> SUFFICES ASSUME NEW t \in Threads, NEW k \in DOMAIN copy[t], k < Len(copy[t]) PROVE FALSE
    BY DEF ForkedForAReason
  <2>1. \A x : Len(<<x>>) = 1
    OBVIOUS
  <2>2. copy[t] \in Seq(Mirrors)
    BY <1>0, ShapeIs DEF CopyTyped
  <2>3. copy[t] # <<>>
    BY <2>2
  <2>4. Len(copy[t]) = 1
    BY <1>3, <2>1, <2>3
  <2> QED
    BY <2>2, <2>4
<1> QED
  BY <1>1, <1>2, <1>4, <1>5 DEF Sync

\* Every step keeps Sync.
LEMMA StepSync ==
  ASSUME Shape, Sync, [Next]_vars
  PROVE  Sync'
<1>1. TodoOld' /\ KnownIsOld' /\ LookInv' /\ CommitInv' /\ OneOpen'
  BY ShapeIs, StepTodoOld, StepKnownIsOld, StepLookInv, StepCommitInv, StepOneOpen DEF Sync
<1>2. LinkSent' /\ SeenIsCopied' /\ CopyIsPrefix' /\ ForkedForAReason'
  BY StepLinkSent, StepSeenIsCopied, StepCopyIsPrefix, StepForkedForAReason
<1> QED
  BY <1>1, <1>2 DEF Sync

\* The inductive invariant: what the links, the runs and the transactions say of the
\* copies stays true, whatever runs and owners do in between.
THEOREM SyncAlways == Spec => [](Shape /\ Sync)
<1>1. Init => Shape /\ Sync
  BY InitShape, InitSync
<1>2. Shape /\ Sync /\ [Next]_vars => (Shape /\ Sync)'
  BY StepShape, StepSync
<1> QED
  BY <1>1, <1>2, PTL DEF Spec

\* What a link says was seen, and where its next pull stops, is in the copy it tracks:
\* no message is passed over, for any number of runs, threads, faults and take-overs.
THEOREM SeenIsCopiedAlways == Spec => []SeenIsCopied
<1>1. Shape /\ Sync => SeenIsCopied
  BY DEF Sync
<1> QED
  BY <1>1, SyncAlways, PTL

\* A thread gets a second copy only after somebody wrote in the first or deleted it,
\* however runs overlap.
THEOREM ForkedForAReasonAlways == Spec => []ForkedForAReason
<1>1. Shape /\ Sync => ForkedForAReason
  BY DEF Sync
<1> QED
  BY <1>1, SyncAlways, PTL

\* No step adds remote messages to a copy that somebody wrote in, not even one whose
\* transaction read the copy before that.
THEOREM ContinuedIsLeftAloneAlways == Spec => ContinuedIsLeftAlone
<1> DEFINE Alone == \A t \in Threads \ crossed' : \A k \in DOMAIN copy[t] :
                      copy[t][k].tail => copy'[t][k].msgs = copy[t][k].msgs
<1>1. Shape /\ Sync /\ [Next]_vars => [Alone]_vars
  BY StepLeftAlone
<1> QED
  BY <1>1, SyncAlways, PTL DEF Spec, ContinuedIsLeftAlone

-----------------------------------------------------------------------------
(* The walk through the list.                                               *)

\* Where a thread stands in the list.
Above(t) == {u \in Listed : LastOf(u) >= LastOf(t)}
Rank(t) == Cardinality(Above(t))

\* Two threads do not have the same last message.
LEMMA LastOne ==
  ASSUME RemoteTyped, NEW t \in Listed, NEW u \in Listed, LastOf(t) = LastOf(u)
  PROVE  t = u
<1>1. LastOf(t) \in Of(t) /\ LastOf(u) \in Of(u)
  BY LastIs DEF Listed
<1> QED
  BY <1>1 DEF Of

\* The list is finite, for no two threads share a last message.
LEMMA ListedFinite ==
  ASSUME RemoteTyped
  PROVE  IsFiniteSet(Listed)
<1> DEFINE f == [t \in Listed |-> LastOf(t)]
<1>1. \A t \in Listed : LastOf(t) \in 0..Posts
  BY OfTyped
<1>2. f \in [Listed -> 0..Posts]
  BY <1>1
<1>3. \A t, u \in Listed : f[t] = f[u] => t = u
  BY LastOne
<1> HIDE DEF f
<1>4. f \in Injection(Listed, 0..Posts)
  BY <1>2, <1>3 DEF Injection, IsInjective
<1>5. IsFiniteSet(0..Posts)
  BY RemoteSyncAssumption, FS_Interval
<1> QED
  BY <1>4, <1>5, FS_Injection

\* A place in the list is a number, one thread's, and larger the longer it was still.
LEMMA RankIs ==
  ASSUME RemoteTyped, NEW t \in Listed
  PROVE  /\ IsFiniteSet(Above(t)) /\ Rank(t) \in Nat /\ Rank(t) >= 1 /\ t \in Above(t)
         /\ \A u \in Listed : LastOf(t) < LastOf(u) => Rank(u) < Rank(t)
         /\ \A u \in Listed : Rank(u) = Rank(t) => u = t
<1>1. \A u \in Listed : IsFiniteSet(Above(u)) /\ Rank(u) \in Nat /\ u \in Above(u) /\ LastOf(u) \in Nat
  <2> SUFFICES ASSUME NEW u \in Listed
               PROVE  IsFiniteSet(Above(u)) /\ Rank(u) \in Nat /\ u \in Above(u) /\ LastOf(u) \in Nat
    OBVIOUS
  <2>1. Above(u) \in SUBSET Listed /\ IsFiniteSet(Listed)
    BY ListedFinite DEF Above
  <2>2. IsFiniteSet(Above(u))
    BY <2>1, FS_Subset
  <2>3. LastOf(u) \in Nat
    BY LastIs
  <2> QED
    BY <2>2, <2>3, FS_CardinalityType DEF Rank, Above
<1>2. Rank(t) >= 1
  <2>1. Cardinality(Above(t)) # 0
    BY <1>1, FS_EmptySet
  <2> QED
    BY <1>1, <2>1 DEF Rank
<1>3. ASSUME NEW v \in Listed, NEW u \in Listed, LastOf(v) < LastOf(u) PROVE Rank(u) < Rank(v)
  <2>1. Above(u) \in SUBSET Above(v) /\ v \notin Above(u)
    <3>1. \A x \in Listed : LastOf(x) \in Nat
      BY <1>1
    <3> QED
      BY <1>3, <3>1 DEF Above
  <2>2. Rank(u) <= Rank(v) /\ (Rank(v) = Rank(u) => Above(v) = Above(u))
    BY <1>1, <2>1, FS_Subset DEF Rank
  <2> QED
    BY <1>1, <2>1, <2>2
<1>4. ASSUME NEW u \in Listed, Rank(u) = Rank(t) PROVE u = t
  <2>1. ~(LastOf(t) < LastOf(u)) /\ ~(LastOf(u) < LastOf(t))
    BY <1>1, <1>3, <1>4
  <2> QED
    BY <1>1, <2>1, LastOne
<1> QED
  BY <1>1, <1>2, <1>3, <1>4

\* No place in the list is empty, up to that of a thread that is in it.
LEMMA RankFills ==
  ASSUME RemoteTyped, NEW t \in Listed, NEW p \in Nat, p >= 1, p <= Rank(t)
  PROVE  \E u \in Listed : Rank(u) = p
<1> DEFINE T == {Rank(u) : u \in {v \in Listed : Rank(v) >= p}}
<1>1. T \subseteq Nat /\ T # {}
  <2>1. t \in {v \in Listed : Rank(v) >= p}
    BY RankIs
  <2> QED
    BY <2>1, RankIs
<1>2. PICK m \in T : \A n \in T : m <= n
  <2> HIDE DEF T
  <2> QED
    BY <1>1, Least
<1>3. PICK u \in Listed : Rank(u) >= p /\ m = Rank(u)
  BY <1>2
<1>4. \A v \in Listed : Rank(v) >= p => Rank(u) <= Rank(v)
  BY <1>2, <1>3
<1> SUFFICES ASSUME Rank(u) # p PROVE FALSE
  BY <1>3
<1> HIDE DEF T
<1>5. Rank(u) > p /\ Rank(u) \in Nat
  BY <1>3, RankIs
<1> DEFINE W == Above(u) \ {u}
<1>6. IsFiniteSet(W) /\ Cardinality(W) = Rank(u) - 1
  BY <1>3, RankIs, FS_RemoveElement DEF Rank
<1>7. W # {}
  BY <1>5, <1>6, FS_EmptySet
<1> DEFINE L == {LastOf(w) : w \in W}
<1>8. L \subseteq Nat /\ L # {}
  BY <1>7, LastIs
<1>9. PICK w \in W : \A x \in W : LastOf(w) <= LastOf(x)
  <2>1. PICK n \in L : \A k \in L : n <= k
    <3> HIDE DEF L
    <3> QED
      BY <1>8, Least
  <2> QED
    BY <2>1
<1>10. Above(w) = W
  <2>1. \A x \in Listed : LastOf(x) \in Nat
    BY LastIs
  <2>2. w \in Listed /\ w # u /\ LastOf(w) >= LastOf(u)
    BY DEF Above
  <2>3. LastOf(w) > LastOf(u)
    BY <2>1, <2>2, LastOne
  <2>4. W \subseteq Above(w)
    BY <1>9, <2>1 DEF Above
  <2>5. Above(w) \subseteq W
    BY <2>1, <2>2, <2>3 DEF Above
  <2> QED
    BY <2>4, <2>5
<1>11. w \in Listed /\ Rank(w) = Rank(u) - 1
  BY <1>6, <1>10 DEF Rank, Above
<1> QED
  BY <1>4, <1>5, <1>11

\* A message moves its thread to the top of the list.
LEMMA PostLast ==
  ASSUME Shape, NEW z \in Threads, Post(z)
  PROVE  /\ LastOf(z)' = Len(posts) + 1 /\ z \notin deleted
         /\ \A t \in Threads \ {z} : LastOf(t)' = LastOf(t) /\ Of(t)' = Of(t)
         /\ \A t \in Threads : LastOf(t) <= Len(posts) /\ LastOf(t) \in Nat
         /\ Listed' = Listed \cup {z}
<1> USE ShapeIs
<1>1. /\ posts \in Seq(Threads) /\ posts' = Append(posts, z) /\ deleted' = deleted /\ z \notin deleted
      /\ Len(posts) \in Nat /\ Len(posts) + 1 <= Posts
  BY RemoteSyncAssumption DEF Post, RemoteTyped
<1>2. \A t \in Threads \ {z} : Of(t)' = Of(t)
  BY <1>1 DEF Of
<1>3. Of(z)' = Of(z) \cup {Len(posts) + 1}
  BY <1>1 DEF Of
<1>4. \A t \in Threads \ {z} : LastOf(t)' = LastOf(t)
  <2> SUFFICES ASSUME NEW t \in Threads \ {z} PROVE LastOf(t)' = LastOf(t)
    OBVIOUS
  <2>1. LastOf(t)' = Newest(Of(t)')
    BY DEF LastOf
  <2> QED
    BY <1>2, <2>1 DEF LastOf
<1>5. LastOf(z)' = Len(posts) + 1
  <2>1. Of(z)' \in SUBSET (0..Posts) /\ Of(z)' # {} /\ \A n \in Of(z)' : n \in Nat /\ n <= Len(posts) + 1
    BY <1>1, <1>3, OfTyped, RemoteSyncAssumption
  <2>2. LastOf(z)' = Newest(Of(z)')
    BY DEF LastOf
  <2> QED
    BY <1>1, <1>3, <2>1, <2>2, NewestIs
<1>6. Listed' = Listed \cup {z}
  <2>1. Of(z)' # {}
    BY <1>3
  <2> QED
    BY <1>1, <1>2, <2>1 DEF Listed
<1>7. \A t \in Threads : LastOf(t) <= Len(posts) /\ LastOf(t) \in Nat
  BY LastIs
<1> QED
  BY <1>1, <1>2, <1>4, <1>5, <1>6, <1>7

\* A message takes no other thread up the list.
LEMMA RankGrows ==
  ASSUME Shape, NEW z \in Threads, Post(z), NEW t \in Listed, t # z
  PROVE  Rank(t) \in Nat /\ Rank(t)' \in Nat /\ Rank(t) <= Rank(t)'
<1> USE ShapeIs
<1>1. IsFiniteSet(Listed')
  BY PostLast, ListedFinite, FS_AddElement
<1>2. Above(t)' \in SUBSET Listed'
  BY DEF Above
<1>3. Above(t) \subseteq Above(t)'
  <2>1. \A u \in Listed : u \in Threads
    BY DEF Listed
  <2>2. \A u \in Listed : LastOf(u) <= LastOf(u)' /\ LastOf(u) \in Nat /\ LastOf(u)' \in Nat
    BY <2>1, PostLast, LastGrows DEF Next, Others
  <2>3. LastOf(t)' = LastOf(t)
    BY <2>1, PostLast
  <2> QED
    BY <2>1, <2>2, <2>3, PostLast DEF Above
<1>4. IsFiniteSet(Above(t)')
  BY <1>1, <1>2, FS_Subset
<1>5. Cardinality(Above(t)) <= Cardinality(Above(t)') /\ Cardinality(Above(t)') \in Nat
  BY <1>3, <1>4, FS_Subset, FS_CardinalityType
<1>6. Rank(t)' = Cardinality(Above(t)')
  BY DEF Rank
<1>7. Rank(t) \in Nat
  BY RankIs
<1> QED
  BY <1>5, <1>6, <1>7 DEF Rank

-----------------------------------------------------------------------------
(* What an incremental walk relies on.                                      *)

\* What a link, a run or its list says was seen of a thread is not ahead of it.
LinkOld == \A t \in Threads : link[t].seen <= LastOf(t)
KnownSeenOld == \A r \in Runs, t \in Threads : run[r].known[t].seen <= LastOf(t)

Fine(x) ==
  /\ x.pc = "idle" => x = Idle
  /\ x.pc = "read" /\ x.last = 0 => ~x.applied
  /\ x.last # 0 => x.last >= 2
  /\ x.pc = "list" => x.page >= 1
RunsFine == \A r \in Runs : Fine(run[r])
OffIsFree == ~account.on => lease = Nobody

\* Nobody but the holder of the lease has written, and nothing was cut short.
Sole == account.on /\ ~cut /\ \A r \in Runs : run[r].applied => lease = r

\* The threads of a set are the ones that have been still the longest, of those listed;
\* or those behind them are further down the list than a place in it.
Ordered(S) == \A t \in Listed \ S, u \in Listed \cap S : LastOf(t) > LastOf(u)
Walked(S, p) == \A t \in Listed \ S, u \in Listed \cap S : LastOf(t) > LastOf(u) \/ Rank(t) >= p

\* The threads whose link has seen all, those a run found so, and those that what it
\* has left to do brings there.
UpToDate == {t \in Threads : link[t].state # "none" /\ link[t].seen = LastOf(t)}
Unchanged(r) == {t \in Threads : ~Changed(r, t)}
Rest(r) == IF run[r].pc = "extend" THEN Tail(run[r].todo) ELSE run[r].todo
In(s, t, n) == \E i \in DOMAIN s : s[i].thread = t /\ s[i].seen = n
Pending(r) == {t \in Threads : In(Rest(r), t, LastOf(t))}

\* A list goes on from what the links have seen.
Rising(s) ==
  \A i \in DOMAIN s : /\ link[s[i].thread].seen <= s[i].seen
                      /\ \A j \in DOMAIN s : i < j /\ s[j].thread = s[i].thread => s[i].seen <= s[j].seen

Round == {"next", "look", "commit", "extend"}
Settled == ~account.fresh /\ ~account.behind /\ (lease = Nobody \/ ~run[lease].applied)

\* The run that holds the lease: as it walks, as it writes, and once it has succeeded.
Holder(r) ==
  /\ run[r].pc = "list" =>
       /\ link = run[r].known /\ Walked(Unchanged(r) \cup Pending(r), run[r].page) /\ Rising(Rest(r))
       /\ ~run[r].full => Ordered(Unchanged(r))
  /\ run[r].pc \in Round /\ ~run[r].failed /\ run[r].over = 0 =>
       Ordered(UpToDate \cup Pending(r)) /\ Rising(Rest(r))
  /\ run[r].pc = "ok" /\ run[r].over = 0 => Ordered(UpToDate)

HolderInv ==
  Sole => /\ Settled => Ordered(UpToDate)
          /\ \A r \in Runs : lease = r => Holder(r)

Early == LinkOld /\ KnownSeenOld /\ RunsFine /\ OffIsFree /\ HolderInv

-----------------------------------------------------------------------------
(* The steps, as that sees them.                                            *)

\* A run that goes on: it writes nothing and keeps its lease.
Steady(r) == /\ SameBut(r) /\ UNCHANGED <<posts, deleted, account, lease, link, cut>>
             /\ run'[r].applied = run[r].applied

\* It goes on with its round, what is left to do as it was; it skips a thread that is
\* gone; it ends its round otherwise than well.
Proceeds(r) ==
  /\ run[r].pc \in Round /\ run'[r].pc \in Round
  /\ run'[r].failed = run[r].failed /\ run'[r].over = run[r].over /\ Rest(r)' = Rest(r)
Skips(r) ==
  /\ run[r].pc = "next" /\ run'[r].pc = "extend" /\ run[r].todo # <<>> /\ This(r).thread \in deleted
  /\ run'[r].failed = run[r].failed /\ run'[r].over = run[r].over /\ run'[r].todo = run[r].todo
Breaks(r) ==
  /\ run'[r].pc # "list"
  /\ run'[r].pc \in Round => run'[r].failed
  /\ run'[r].pc = "ok" => run'[r].over # 0

\* It is gone, its result unrecorded.
Gone(r) ==
  /\ SameBut(r) /\ run'[r] = Idle /\ UNCHANGED <<posts, deleted, account, link>>
  /\ lease' \in {lease, Nobody} /\ (lease # r => lease' = lease)
  /\ cut' = (cut \/ (run[r].applied /\ (lease \notin {r, Nobody} \/ (~account.fresh /\ ~account.behind))))

Walks(r) ==
  /\ Steady(r)
  /\ Read(r) \/ List(r) \/ Listing(r) \/ Proceeds(r) \/ Skips(r) \/ RoundOver(r) \/ Breaks(r)

\* What a run holds, the rest of its fields.
LEMMA MoreFields ==
  ASSUME RunTyped, NEW r \in Runs
  PROVE  /\ run[r].over \in Nat /\ run[r].last \in Nat /\ run[r].page \in Nat
         /\ run[r].failed \in BOOLEAN /\ run[r].applied \in BOOLEAN /\ run[r].full \in BOOLEAN
         /\ run[r].pc \in Pcs
<1>1. run[r] \in RunStates
  BY RunFields
<1> QED
  BY <1>1, RunIs

\* The fields of a run that is not one.
LEMMA IdleIs ==
  /\ Idle.pc = "idle" /\ Idle.todo = <<>> /\ Idle.applied = FALSE /\ Idle.over = 0 /\ Idle.last = 0
  /\ Idle.failed = FALSE /\ Idle.page = 1 /\ Idle.known = [t \in Threads |-> NoLink]
BY DEF Idle

Entry(t) == [thread |-> t, seen |-> LastOf(t)]

\* A page of the walk.
LEMMA ListStep ==
  ASSUME Shape, NEW r \in Runs, List(r)
  PROVE  /\ run[r].pc = "list" /\ SameBut(r) /\ run'[r].pc = "list" /\ run'[r].known = run[r].known
         /\ run'[r].full = run[r].full /\ run'[r].applied = run[r].applied
         /\ run'[r].page = run[r].page + 1
         /\ \E t \in OnPage(run[r].page) :
              run'[r].todo = IF Changed(r, t) THEN Append(run[r].todo, Entry(t)) ELSE run[r].todo
<1> USE ShapeIs
<1>1. PICK t \in OnPage(run[r].page) :
        Set(r, [run[r] EXCEPT !.page = @ + 1,
                  !.todo = IF Changed(r, t) THEN Append(@, [thread |-> t, seen |-> LastOf(t)])
                                            ELSE @])
  BY Zenon DEF List
<1> DEFINE T == IF Changed(r, t) THEN Append(run[r].todo, Entry(t)) ELSE run[r].todo
<1>2. run' = [run EXCEPT ![r] = [run[r] EXCEPT !.page = run[r].page + 1, !.todo = T]]
  BY <1>1 DEF Set, Entry
<1> HIDE DEF T
<1>3. SameBut(r) /\ run'[r] = [run[r] EXCEPT !.page = run[r].page + 1, !.todo = T]
  BY <1>2 DEF SameBut, RunTyped
<1>4. run[r] \in RunStates
  BY RunFields
<1>5. /\ run'[r].pc = run[r].pc /\ run'[r].known = run[r].known /\ run'[r].full = run[r].full
      /\ run'[r].applied = run[r].applied /\ run'[r].page = run[r].page + 1 /\ run'[r].todo = T
  BY <1>3, <1>4 DEF RunStates
<1>6. run[r].pc = "list"
  BY DEF List
<1> QED
  BY <1>3, <1>5, <1>6 DEF T

\* A run that keeps its lease goes on with the next thread.
LEMMA ExtendOn ==
  ASSUME Shape, NEW r \in Runs, Extend(r), lease = r
  PROVE  /\ run[r].pc = "extend" /\ run'[r].pc = "next" /\ run'[r].todo = Tail(run[r].todo)
         /\ run'[r].failed = run[r].failed /\ run'[r].over = run[r].over /\ run'[r].last = run[r].last
         /\ run'[r].applied = run[r].applied /\ SameBut(r)
<1> USE ShapeIs
<1>1. run' = [run EXCEPT ![r] = [run[r] EXCEPT !.pc = "next", !.todo = Tail(run[r].todo)]]
  BY DEF Extend, Set
<1>2. run'[r] = [run[r] EXCEPT !.pc = "next", !.todo = Tail(run[r].todo)]
  BY <1>1 DEF RunTyped
<1>3. run[r] \in RunStates
  BY RunFields
<1>4. run'[r].failed = run[r].failed /\ run'[r].over = run[r].over /\ run'[r].last = run[r].last
  BY <1>2, <1>3 DEF RunStates
<1>5. run'[r].pc = "next" /\ run'[r].todo = Tail(run[r].todo)
  BY <1>2, <1>3 DEF RunStates
<1>6. run'[r].applied = run[r].applied
  BY <1>2, <1>3 DEF RunStates
<1>7. SameBut(r)
  BY <1>1 DEF RunTyped, SameBut
<1> QED
  BY <1>4, <1>5, <1>6, <1>7 DEF Extend

\* The steps that end a round otherwise than well.
LEMMA BreaksIs ==
  ASSUME Shape, RunsFine, NEW r \in Runs,
         \/ PullFails(r)
         \/ CommitFails(r)
         \/ RunFails(r)
         \/ Refused(r)
         \/ Cancel(r)
  PROVE  Steady(r) /\ Breaks(r)
<1> USE ShapeIs
<1>0. run[r] \in RunStates /\ Fine(run[r])
  BY RunFields DEF RunsFine
<1>1. CASE PullFails(r)
  <2>1. SameBut(r)
    BY <1>1 DEF PullFails, Set, Vanish, ThreadFails, RunTyped, SameBut
  <2>2. UNCHANGED <<posts, deleted, account, lease, link, cut>>
    BY <1>1 DEF PullFails, remote, row, local
  <2>3. run'[r].applied = run[r].applied
    BY <1>0, <1>1 DEF PullFails, Set, Vanish, ThreadFails, RunTyped, RunStates
  <2>4. Breaks(r)
    BY <1>0, <1>1 DEF PullFails, Set, ThreadFails, RunTyped, RunStates, Breaks, Round, Fine
  <2> QED
    BY <2>1, <2>2, <2>3, <2>4 DEF Steady, Breaks
<1>2. CASE CommitFails(r)
  <2>1. SameBut(r)
    BY <1>2 DEF CommitFails, Set, Vanish, ThreadFails, RunTyped, SameBut
  <2>2. UNCHANGED <<posts, deleted, account, lease, link, cut>>
    BY <1>2 DEF CommitFails, remote, row, local
  <2>3. run'[r].applied = run[r].applied
    BY <1>0, <1>2 DEF CommitFails, Set, Vanish, ThreadFails, RunTyped, RunStates
  <2>4. Breaks(r)
    BY <1>0, <1>2 DEF CommitFails, Set, ThreadFails, RunTyped, RunStates, Breaks, Round, Fine
  <2> QED
    BY <2>1, <2>2, <2>3, <2>4 DEF Steady, Breaks
<1>3. CASE RunFails(r)
  <2>1. SameBut(r)
    BY <1>3 DEF RunFails, Set, Vanish, ThreadFails, RunTyped, SameBut
  <2>2. UNCHANGED <<posts, deleted, account, lease, link, cut>>
    BY <1>3 DEF RunFails, remote, row, local
  <2>3. run'[r].applied = run[r].applied
    BY <1>0, <1>3 DEF RunFails, Set, Vanish, ThreadFails, RunTyped, RunStates
  <2>4. Breaks(r)
    BY <1>0, <1>3 DEF RunFails, Set, ThreadFails, RunTyped, RunStates, Breaks, Round, Fine
  <2> QED
    BY <2>1, <2>2, <2>3, <2>4 DEF Steady, Breaks
<1>4. CASE Refused(r)
  <2>1. SameBut(r)
    BY <1>4 DEF Refused, Set, Vanish, ThreadFails, RunTyped, SameBut
  <2>2. UNCHANGED <<posts, deleted, account, lease, link, cut>>
    BY <1>4 DEF Refused, remote, row, local
  <2>3. run'[r].applied = run[r].applied
    BY <1>0, <1>4 DEF Refused, Set, Vanish, ThreadFails, RunTyped, RunStates
  <2>4. Breaks(r)
    BY <1>0, <1>4 DEF Refused, Set, ThreadFails, RunTyped, RunStates, Breaks, Round, Fine
  <2> QED
    BY <2>1, <2>2, <2>3, <2>4 DEF Steady, Breaks
<1>5. CASE Cancel(r)
  <2>1. SameBut(r)
    BY <1>5 DEF Cancel, Set, Vanish, ThreadFails, RunTyped, SameBut
  <2>2. UNCHANGED <<posts, deleted, account, lease, link, cut>>
    BY <1>5 DEF Cancel, remote, row, local
  <2>3. run'[r].applied = run[r].applied
    BY <1>0, <1>5 DEF Cancel, Set, Vanish, ThreadFails, RunTyped, RunStates
  <2>4. Breaks(r)
    BY <1>0, <1>5 DEF Cancel, Set, ThreadFails, RunTyped, RunStates, Breaks, Round, Fine
  <2> QED
    BY <2>1, <2>2, <2>3, <2>4 DEF Steady, Breaks
<1> QED
  BY <1>1, <1>2, <1>3, <1>4, <1>5

\* The steps that go on with a thread.
LEMMA ProceedsIs ==
  ASSUME Shape, RunsFine, NEW r \in Runs,
         \/ Pull(r)
         \/ Look(r)
         \/ ExtendFails(r)
         \/ (Extend(r) /\ lease = r)
  PROVE  Steady(r) /\ Proceeds(r)
<1> USE ShapeIs
<1>0. run[r] \in RunStates /\ Fine(run[r])
  BY RunFields DEF RunsFine
<1>1. CASE Pull(r)
  <2>0. run[r].todo # <<>>
    BY <1>1 DEF Pull, TodoLeft
  <2>1. SameBut(r)
    BY <1>1 DEF Pull, Set, Vanish, ThreadFails, RunTyped, SameBut
  <2>2. UNCHANGED <<posts, deleted, account, lease, link, cut>>
    BY <1>1 DEF Pull, remote, row, local
  <2>3. run'[r].applied = run[r].applied
    BY <1>0, <1>1 DEF Pull, Set, Vanish, ThreadFails, RunTyped, RunStates
  <2>5. run[r].pc \in Round /\ run'[r].pc \in Round
    BY <1>0, <1>1 DEF Pull, Set, RunTyped, RunStates, Round
  <2>7. run'[r].failed = run[r].failed /\ run'[r].over = run[r].over
    BY <1>0, <1>1 DEF Pull, Set, RunTyped, RunStates
  <2>6. run'[r].todo = (IF run[r].pc = "extend" THEN Tail(run[r].todo) ELSE run[r].todo) /\ run'[r].pc # "extend"
    BY <1>0, <1>1 DEF Pull, Set, RunTyped, RunStates
  <2>4. Proceeds(r)
    BY <2>5, <2>6, <2>7 DEF Proceeds, Rest
  <2> QED
    BY <2>1, <2>2, <2>3, <2>4 DEF Steady, Proceeds
<1>2. CASE Look(r)
  <2>0. run[r].todo # <<>>
    BY <1>2 DEF Look, TodoLeft
  <2>1. SameBut(r)
    BY <1>2 DEF Look, Set, Vanish, ThreadFails, RunTyped, SameBut
  <2>2. UNCHANGED <<posts, deleted, account, lease, link, cut>>
    BY <1>2 DEF Look, remote, row, local
  <2>3. run'[r].applied = run[r].applied
    BY <1>0, <1>2 DEF Look, Set, Vanish, ThreadFails, RunTyped, RunStates
  <2>5. run[r].pc \in Round /\ run'[r].pc \in Round
    BY <1>0, <1>2 DEF Look, Set, RunTyped, RunStates, Round
  <2>7. run'[r].failed = run[r].failed /\ run'[r].over = run[r].over
    BY <1>0, <1>2 DEF Look, Set, RunTyped, RunStates
  <2>6. run'[r].todo = (IF run[r].pc = "extend" THEN Tail(run[r].todo) ELSE run[r].todo) /\ run'[r].pc # "extend"
    BY <1>0, <1>2 DEF Look, Set, RunTyped, RunStates
  <2>4. Proceeds(r)
    BY <2>5, <2>6, <2>7 DEF Proceeds, Rest
  <2> QED
    BY <2>1, <2>2, <2>3, <2>4 DEF Steady, Proceeds
<1>3. CASE ExtendFails(r)
  <2>0. run[r].todo # <<>>
    BY <1>3 DEF ExtendFails, TodoLeft
  <2>1. SameBut(r)
    BY <1>3 DEF ExtendFails, Set, Vanish, ThreadFails, RunTyped, SameBut
  <2>2. UNCHANGED <<posts, deleted, account, lease, link, cut>>
    BY <1>3 DEF ExtendFails, remote, row, local
  <2>3. run'[r].applied = run[r].applied
    BY <1>0, <1>3 DEF ExtendFails, Set, Vanish, ThreadFails, RunTyped, RunStates
  <2>5. run[r].pc \in Round /\ run'[r].pc \in Round
    BY <1>0, <1>3 DEF ExtendFails, Set, RunTyped, RunStates, Round
  <2>7. run'[r].failed = run[r].failed /\ run'[r].over = run[r].over
    BY <1>0, <1>3 DEF ExtendFails, Set, RunTyped, RunStates
  <2>6. run'[r].todo = (IF run[r].pc = "extend" THEN Tail(run[r].todo) ELSE run[r].todo) /\ run'[r].pc # "extend"
    BY <1>0, <1>3 DEF ExtendFails, Set, RunTyped, RunStates
  <2>4. Proceeds(r)
    BY <2>5, <2>6, <2>7 DEF Proceeds, Rest
  <2> QED
    BY <2>1, <2>2, <2>3, <2>4 DEF Steady, Proceeds
<1>4. CASE Extend(r) /\ lease = r
  <2>0. run[r].todo # <<>>
    BY <1>4 DEF Extend, TodoLeft
  <2>1. SameBut(r)
    BY <1>4 DEF Extend, Set, Vanish, ThreadFails, RunTyped, SameBut
  <2>2. UNCHANGED <<posts, deleted, account, lease, link, cut>>
    BY <1>4 DEF Extend, remote, row, local
  <2>3. run'[r].applied = run[r].applied
    BY <1>4, ExtendOn
  <2>5. run[r].pc \in Round /\ run'[r].pc \in Round
    BY <1>0, <1>4 DEF Extend, Set, RunTyped, RunStates, Round
  <2>7. run'[r].failed = run[r].failed /\ run'[r].over = run[r].over
    BY <1>0, <1>4, ExtendOn, Zenon DEF Extend, Set, RunTyped, RunStates
  <2>6. run'[r].todo = (IF run[r].pc = "extend" THEN Tail(run[r].todo) ELSE run[r].todo) /\ run'[r].pc # "extend"
    BY <1>0, <1>4, ExtendOn
  <2>4. Proceeds(r)
    BY <2>5, <2>6, <2>7 DEF Proceeds, Rest
  <2> QED
    BY <2>1, <2>2, <2>3, <2>4 DEF Steady, Proceeds
<1> QED
  BY <1>1, <1>2, <1>3, <1>4

\* The step that skips a thread.
LEMMA SkipsIs ==
  ASSUME Shape, RunsFine, NEW r \in Runs,
         \/ PullNothing(r)
  PROVE  Steady(r) /\ Skips(r)
<1> USE ShapeIs
<1>0. run[r] \in RunStates /\ Fine(run[r])
  BY RunFields DEF RunsFine
<1>1. CASE PullNothing(r)
  <2>1. SameBut(r)
    BY <1>1 DEF PullNothing, Set, Vanish, ThreadFails, RunTyped, SameBut
  <2>2. UNCHANGED <<posts, deleted, account, lease, link, cut>>
    BY <1>1 DEF PullNothing, remote, row, local
  <2>3. run'[r].applied = run[r].applied
    BY <1>0, <1>1 DEF PullNothing, Set, Vanish, ThreadFails, RunTyped, RunStates
  <2>4. Skips(r)
    BY <1>0, <1>1 DEF PullNothing, Set, RunTyped, RunStates, Skips
  <2> QED
    BY <2>1, <2>2, <2>3, <2>4 DEF Steady, Skips
<1> QED
  BY <1>1

\* A page of the walk writes nothing.
LEMMA ListSteady ==
  ASSUME Shape, RunsFine, NEW r \in Runs,
         \/ List(r)
  PROVE  Steady(r)
<1> USE ShapeIs
<1>0. run[r] \in RunStates /\ Fine(run[r])
  BY RunFields DEF RunsFine
<1>1. CASE List(r)
  <2>1. SameBut(r) /\ run'[r].applied = run[r].applied
    BY <1>1, ListStep
  <2>2. UNCHANGED <<posts, deleted, account, lease, link, cut>>
    BY <1>1, Zenon DEF List, remote, row, local
  <2> QED
    BY <2>1, <2>2 DEF Steady
<1> QED
  BY <1>1

\* A round's beginning, the end of its walk and its own end write nothing.
LEMMA SteadyIs ==
  ASSUME Shape, RunsFine, NEW r \in Runs,
         \/ Read(r)
         \/ Listing(r)
         \/ RoundOver(r)
  PROVE  Steady(r)
<1> USE ShapeIs
<1>0. run[r] \in RunStates /\ Fine(run[r])
  BY RunFields DEF RunsFine
<1>1. CASE Read(r)
  <2>1. SameBut(r)
    BY <1>1 DEF Read, Set, Vanish, ThreadFails, RunTyped, SameBut
  <2>2. UNCHANGED <<posts, deleted, account, lease, link, cut>>
    BY <1>1 DEF Read, remote, row, local
  <2>3. run'[r].applied = run[r].applied
    BY <1>0, <1>1 DEF Read, Set, Vanish, ThreadFails, RunTyped, RunStates
  <2> QED
    BY <2>1, <2>2, <2>3 DEF Steady
<1>2. CASE Listing(r)
  <2>1. SameBut(r)
    BY <1>2 DEF Listing, Set, Vanish, ThreadFails, RunTyped, SameBut
  <2>2. UNCHANGED <<posts, deleted, account, lease, link, cut>>
    BY <1>2 DEF Listing, remote, row, local
  <2>3. run'[r].applied = run[r].applied
    BY <1>0, <1>2 DEF Listing, Set, Vanish, ThreadFails, RunTyped, RunStates
  <2> QED
    BY <2>1, <2>2, <2>3 DEF Steady
<1>3. CASE RoundOver(r)
  <2>1. SameBut(r)
    BY <1>3 DEF RoundOver, Set, Vanish, ThreadFails, RunTyped, SameBut
  <2>2. UNCHANGED <<posts, deleted, account, lease, link, cut>>
    BY <1>3 DEF RoundOver, remote, row, local
  <2>3. run'[r].applied = run[r].applied
    BY <1>0, <1>3 DEF RoundOver, Set, Vanish, ThreadFails, RunTyped, RunStates
  <2> QED
    BY <2>1, <2>2, <2>3 DEF Steady
<1> QED
  BY <1>1, <1>2, <1>3

\* The steps that end a run and record nothing.
LEMMA GoneIs ==
  ASSUME Shape, RunsFine, NEW r \in Runs,
         \/ (Extend(r) /\ lease # r)
         \/ Release(r)
         \/ Crash(r)
  PROVE  Gone(r)
<1> USE ShapeIs
<1>0. run[r] \in RunStates /\ Fine(run[r])
  BY RunFields DEF RunsFine
<1>1. CASE Extend(r) /\ lease # r
  <2>1. SameBut(r) /\ run'[r] = Idle
    BY <1>1 DEF Extend, Set, Vanish, RunTyped, SameBut
  <2>2. UNCHANGED <<posts, deleted, account, link>>
    BY <1>1 DEF Extend, remote, row, local
  <2>3. lease' \in {lease, Nobody} /\ (lease # r => lease' = lease)
    BY <1>1 DEF Extend, row
  <2>4. cut' = (cut \/ (run[r].applied /\ (lease \notin {r, Nobody} \/ (~account.fresh /\ ~account.behind))))
    BY <1>1 DEF Extend, Vanish
  <2> QED
    BY <2>1, <2>2, <2>3, <2>4 DEF Gone
<1>2. CASE Release(r)
  <2>1. SameBut(r) /\ run'[r] = Idle
    BY <1>2 DEF Release, Set, Vanish, RunTyped, SameBut
  <2>2. UNCHANGED <<posts, deleted, account, link>>
    BY <1>2 DEF Release, remote, row, local
  <2>3. lease' \in {lease, Nobody} /\ (lease # r => lease' = lease)
    BY <1>2 DEF Release, row
  <2>4. cut' = (cut \/ (run[r].applied /\ (lease \notin {r, Nobody} \/ (~account.fresh /\ ~account.behind))))
    BY <1>2 DEF Release, Vanish
  <2> QED
    BY <2>1, <2>2, <2>3, <2>4 DEF Gone
<1>3. CASE Crash(r)
  <2>1. SameBut(r) /\ run'[r] = Idle
    BY <1>3 DEF Crash, Set, Vanish, RunTyped, SameBut
  <2>2. UNCHANGED <<posts, deleted, account, link>>
    BY <1>3 DEF Crash, remote, row, local
  <2>3. lease' \in {lease, Nobody} /\ (lease # r => lease' = lease)
    BY <1>3 DEF Crash, row
  <2>4. cut' = (cut \/ (run[r].applied /\ (lease \notin {r, Nobody} \/ (~account.fresh /\ ~account.behind))))
    BY <1>3 DEF Crash, Vanish
  <2> QED
    BY <2>1, <2>2, <2>3, <2>4 DEF Gone
<1> QED
  BY <1>1, <1>2, <1>3

\* The steps, as the order of the list sees them.
LEMMA Kinds ==
  ASSUME Shape, RunsFine, [Next]_vars
  PROVE  \/ \E r \in Runs : Start(r) \/ Record(r) \/ Commit(r) \/ Gone(r) \/ Walks(r)
         \/ \E z \in Threads : Post(z) \/ RemoteDelete(z)
         \/ Stop \/ Save
         \/ UNCHANGED <<posts, deleted, account, lease, link, run, cut>>
<1>1. ASSUME NEW r \in Runs, Step(r) \/ Fault(r)
      PROVE  Record(r) \/ Commit(r) \/ Gone(r) \/ Walks(r)
  <2>1. ASSUME PullFails(r) \/ CommitFails(r) \/ RunFails(r) \/ Refused(r) \/ Cancel(r) PROVE Walks(r)
    BY <2>1, BreaksIs DEF Walks
  <2>2. ASSUME Pull(r) \/ Look(r) \/ ExtendFails(r) \/ (Extend(r) /\ lease = r) PROVE Walks(r)
    BY <2>2, ProceedsIs DEF Walks
  <2>3. ASSUME PullNothing(r) PROVE Walks(r)
    BY <2>3, SkipsIs DEF Walks
  <2>4. ASSUME Read(r) \/ List(r) \/ Listing(r) \/ RoundOver(r) PROVE Walks(r)
    BY <2>4, SteadyIs, ListSteady DEF Walks
  <2>5. ASSUME (Extend(r) /\ lease # r) \/ Release(r) \/ Crash(r) PROVE Gone(r)
    BY <2>5, GoneIs
  <2> QED
    BY <1>1, <2>1, <2>2, <2>3, <2>4, <2>5 DEF Step, Fault
<1>2. ASSUME Expire \/ (\E t \in Threads : Continue(t) \/ DeleteLocal(t)) \/ UNCHANGED vars
      PROVE  UNCHANGED <<posts, deleted, account, lease, link, run, cut>>
  BY <1>2, Zenon DEF Expire, Continue, DeleteLocal, Here, vars, remote, row, local
<1> QED
  BY <1>1, <1>2 DEF Next, Others

\* Every step keeps OffIsFree: a stop gives up the lease.
LEMMA StepOffIsFree ==
  ASSUME Shape, OffIsFree, [Next]_vars
  PROVE  OffIsFree'
<1> USE ShapeIs DEF OffIsFree
<1>1. ASSUME NEW r \in Runs, Step(r) \/ Fault(r) PROVE OffIsFree'
  <2>1. (account' = account /\ (lease' = lease \/ lease' = Nobody)) \/ Record(r)
    BY <1>1, Zenon DEF Step, Fault, Read, List, Listing, Pull, PullNothing, Look, Commit, CommitFails, Extend,
                RoundOver, Release, RunFails, PullFails, ExtendFails, Refused, Cancel, Crash, row
  <2> QED
    BY <2>1 DEF Record
<1>2. ASSUME NEW r \in Runs, Start(r) PROVE OffIsFree'
  BY <1>2, Zenon DEF Start
<1>3. ASSUME Stop \/ Save PROVE OffIsFree'
  BY <1>3 DEF Stop, Save, RowTyped, Accounts, NewAccount
<1>4. ASSUME Expire \/ (\E t \in Threads : Post(t) \/ RemoteDelete(t) \/ Continue(t) \/ DeleteLocal(t))
             \/ UNCHANGED vars
      PROVE  OffIsFree'
  BY <1>4, Zenon DEF Expire, Post, RemoteDelete, Continue, DeleteLocal, Here, vars, row
<1> QED
  BY <1>1, <1>2, <1>3, <1>4 DEF Next, Others

\* Every step keeps LinkOld.
LEMMA StepLinkOld ==
  ASSUME Shape, TodoOld, LinkOld, [Next]_vars
  PROVE  LinkOld'
<1> USE ShapeIs
<1> SUFFICES ASSUME NEW t \in Threads PROVE link'[t].seen <= LastOf(t)'
  BY DEF LinkOld
<1>1. /\ LastOf(t) \in Nat /\ LastOf(t)' \in Nat /\ LastOf(t) <= LastOf(t)'
      /\ link[t].seen \in Nat /\ link[t].seen <= LastOf(t)
  BY LastGrows, RemoteSyncAssumption DEF LinkOld, LinkTyped, Links
<1>2. CASE link'[t] = link[t]
  BY <1>1, <1>2
<1>3. ASSUME NEW r \in Runs, Commit(r) PROVE link'[t].seen <= LastOf(t)'
  <2>1. CASE t = This(r).thread
    <3>1. link'[t].seen = This(r).seen /\ run[r].todo # <<>>
      BY <1>3, <2>1, CommitStep DEF TodoLeft
    <3>2. This(r).seen \in Nat /\ This(r).seen <= LastOf(t)
      BY <2>1, <3>1, HeadSent
    <3> QED
      BY <1>1, <3>1, <3>2
  <2>2. CASE t # This(r).thread
    BY <1>2, <1>3, <2>2, CommitStep
  <2> QED
    BY <2>1, <2>2
<1>4. ASSUME Stop PROVE link'[t].seen <= LastOf(t)'
  BY <1>1, <1>4, StopStep DEF NoLink
<1>5. (\E r \in Runs : Commit(r)) \/ Stop \/ link' = link
  <2>1. ASSUME NEW z \in Threads, Post(z) \/ Continue(z) \/ DeleteLocal(z) PROVE link' = link
    BY <2>1, HereIs DEF Post, local
  <2> QED
    BY <2>1, Cases, Zenon DEF Quiet, Moved, Pull, Look, local
<1> QED
  BY <1>2, <1>3, <1>4, <1>5

\* Every step keeps RunsFine.
LEMMA StepRunsFine ==
  ASSUME Shape, RemoteTyped, RunTyped, TodoLeft, RunsFine, [Next]_vars
  PROVE  RunsFine'
<1>1. CASE UNCHANGED run
  BY <1>1 DEF RunsFine
<1>2. ASSUME Expire \/ Save \/ (\E t \in Threads : Post(t) \/ RemoteDelete(t) \/ Continue(t)
             \/ DeleteLocal(t)) \/ UNCHANGED vars
      PROVE  UNCHANGED run
  BY <1>2, Zenon DEF Post, RemoteDelete, Continue, Here, DeleteLocal, Expire, Save, vars
<1>3. ASSUME NEW r \in Runs, Start(r) PROVE RunsFine'
  <2>1. run[r] \in RunStates /\ Fine(run[r])
    BY RunFields DEF RunsFine
  <2>2. \A q \in Runs \ {r} : run'[q] = run[q]
    BY <1>3 DEF Start, Set, Vanish, ThreadFails, RunTyped
  <2>3. Fine(run'[r])
    BY <1>3, <2>1, IdleIs DEF Start, Set, Vanish, ThreadFails, RunTyped, RunStates, Fine, Working
  <2> QED
    BY <2>2, <2>3 DEF RunsFine
<1>4. ASSUME NEW r \in Runs, Read(r) PROVE RunsFine'
  <2>1. run[r] \in RunStates /\ Fine(run[r])
    BY RunFields DEF RunsFine
  <2>2. \A q \in Runs \ {r} : run'[q] = run[q]
    BY <1>4 DEF Read, Set, Vanish, ThreadFails, RunTyped
  <2>3. Fine(run'[r])
    BY <1>4, <2>1, IdleIs DEF Read, Set, Vanish, ThreadFails, RunTyped, RunStates, Fine, Working
  <2> QED
    BY <2>2, <2>3 DEF RunsFine
<1>5. ASSUME NEW r \in Runs, List(r) PROVE RunsFine'
  <2>1. Fine(run[r]) /\ run[r].page \in Nat
    BY MoreFields DEF RunsFine
  <2>2. SameBut(r) /\ run'[r].pc = "list" /\ run'[r].page = run[r].page + 1 /\ run[r].pc = "list"
    BY <1>5, ListStep
  <2>4. run'[r].last = run[r].last
    <3>1. PICK t : run' = [run EXCEPT ![r] = [run[r] EXCEPT !.page = run[r].page + 1,
                       !.todo = IF Changed(r, t) THEN Append(run[r].todo, [thread |-> t, seen |-> LastOf(t)])
                                ELSE run[r].todo]]
      BY <1>5, Zenon DEF List, Set
    <3> QED
      BY <3>1, RunFields DEF RunTyped, RunStates
  <2>3. Fine(run'[r])
    BY <2>1, <2>2, <2>4 DEF Fine
  <2> QED
    BY <2>2, <2>3 DEF RunsFine, SameBut
<1>6. ASSUME NEW r \in Runs, Listing(r) PROVE RunsFine'
  <2>1. run[r] \in RunStates /\ Fine(run[r])
    BY RunFields DEF RunsFine
  <2>2. \A q \in Runs \ {r} : run'[q] = run[q]
    BY <1>6 DEF Listing, Set, Vanish, ThreadFails, RunTyped
  <2>3. Fine(run'[r])
    BY <1>6, <2>1, IdleIs DEF Listing, Set, Vanish, ThreadFails, RunTyped, RunStates, Fine, Working
  <2> QED
    BY <2>2, <2>3 DEF RunsFine
<1>7. ASSUME NEW r \in Runs, Pull(r) PROVE RunsFine'
  <2>1. run[r] \in RunStates /\ Fine(run[r])
    BY RunFields DEF RunsFine
  <2>2. \A q \in Runs \ {r} : run'[q] = run[q]
    BY <1>7 DEF Pull, Set, Vanish, ThreadFails, RunTyped
  <2>3. Fine(run'[r])
    BY <1>7, <2>1, IdleIs DEF Pull, Set, Vanish, ThreadFails, RunTyped, RunStates, Fine, Working
  <2> QED
    BY <2>2, <2>3 DEF RunsFine
<1>8. ASSUME NEW r \in Runs, PullNothing(r) PROVE RunsFine'
  <2>1. run[r] \in RunStates /\ Fine(run[r])
    BY RunFields DEF RunsFine
  <2>2. \A q \in Runs \ {r} : run'[q] = run[q]
    BY <1>8 DEF PullNothing, Set, Vanish, ThreadFails, RunTyped
  <2>3. Fine(run'[r])
    BY <1>8, <2>1, IdleIs DEF PullNothing, Set, Vanish, ThreadFails, RunTyped, RunStates, Fine, Working
  <2> QED
    BY <2>2, <2>3 DEF RunsFine
<1>9. ASSUME NEW r \in Runs, Look(r) PROVE RunsFine'
  <2>1. run[r] \in RunStates /\ Fine(run[r])
    BY RunFields DEF RunsFine
  <2>2. \A q \in Runs \ {r} : run'[q] = run[q]
    BY <1>9 DEF Look, Set, Vanish, ThreadFails, RunTyped
  <2>3. Fine(run'[r])
    BY <1>9, <2>1, IdleIs DEF Look, Set, Vanish, ThreadFails, RunTyped, RunStates, Fine, Working
  <2> QED
    BY <2>2, <2>3 DEF RunsFine
<1>10. ASSUME NEW r \in Runs, Commit(r) PROVE RunsFine'
  <2>1. run[r] \in RunStates /\ Fine(run[r])
    BY RunFields DEF RunsFine
  <2>2. \A q \in Runs \ {r} : run'[q] = run[q]
    BY <1>10 DEF Commit, Set, Vanish, ThreadFails, RunTyped
  <2>3. Fine(run'[r])
    BY <1>10, <2>1, IdleIs DEF Commit, Set, Vanish, ThreadFails, RunTyped, RunStates, Fine, Working
  <2> QED
    BY <2>2, <2>3 DEF RunsFine
<1>11. ASSUME NEW r \in Runs, CommitFails(r) PROVE RunsFine'
  <2>1. run[r] \in RunStates /\ Fine(run[r])
    BY RunFields DEF RunsFine
  <2>2. \A q \in Runs \ {r} : run'[q] = run[q]
    BY <1>11 DEF CommitFails, Set, Vanish, ThreadFails, RunTyped
  <2>3. Fine(run'[r])
    BY <1>11, <2>1, IdleIs DEF CommitFails, Set, Vanish, ThreadFails, RunTyped, RunStates, Fine, Working
  <2> QED
    BY <2>2, <2>3 DEF RunsFine
<1>12. ASSUME NEW r \in Runs, Extend(r) PROVE RunsFine'
  <2>1. run[r] \in RunStates /\ Fine(run[r])
    BY RunFields DEF RunsFine
  <2>2. \A q \in Runs \ {r} : run'[q] = run[q]
    BY <1>12 DEF Extend, Set, Vanish, ThreadFails, RunTyped
  <2>3. Fine(run'[r])
    <3>1. CASE lease = r
      BY <1>12, <2>1, <3>1, ExtendOn DEF Fine
    <3>2. CASE lease # r
      BY <1>12, <3>2, GoneIs, IdleIs DEF Gone, Fine
    <3> QED
      BY <3>1, <3>2
  <2> QED
    BY <2>2, <2>3 DEF RunsFine
<1>13. ASSUME NEW r \in Runs, RoundOver(r) PROVE RunsFine'
  <2>1. run[r] \in RunStates /\ Fine(run[r])
    BY RunFields DEF RunsFine
  <2>2. \A q \in Runs \ {r} : run'[q] = run[q]
    BY <1>13 DEF RoundOver, Set, Vanish, ThreadFails, RunTyped
  <2>3. Fine(run'[r])
    BY <1>13, <2>1, IdleIs DEF RoundOver, Set, Vanish, ThreadFails, RunTyped, RunStates, Fine, Working
  <2> QED
    BY <2>2, <2>3 DEF RunsFine
<1>14. ASSUME NEW r \in Runs, Record(r) PROVE RunsFine'
  <2>1. run[r] \in RunStates /\ Fine(run[r])
    BY RunFields DEF RunsFine
  <2>2. \A q \in Runs \ {r} : run'[q] = run[q]
    BY <1>14 DEF Record, Set, Vanish, ThreadFails, RunTyped
  <2>3. Fine(run'[r])
    BY <1>14, <2>1, IdleIs DEF Record, Set, Vanish, ThreadFails, RunTyped, RunStates, Fine, Working
  <2> QED
    BY <2>2, <2>3 DEF RunsFine
<1>15. ASSUME NEW r \in Runs, Release(r) PROVE RunsFine'
  <2>1. run[r] \in RunStates /\ Fine(run[r])
    BY RunFields DEF RunsFine
  <2>2. \A q \in Runs \ {r} : run'[q] = run[q]
    BY <1>15 DEF Release, Set, Vanish, ThreadFails, RunTyped
  <2>3. Fine(run'[r])
    BY <1>15, <2>1, IdleIs DEF Release, Set, Vanish, ThreadFails, RunTyped, RunStates, Fine, Working
  <2> QED
    BY <2>2, <2>3 DEF RunsFine
<1>16. ASSUME NEW r \in Runs, RunFails(r) PROVE RunsFine'
  <2>1. run[r] \in RunStates /\ Fine(run[r])
    BY RunFields DEF RunsFine
  <2>2. \A q \in Runs \ {r} : run'[q] = run[q]
    BY <1>16 DEF RunFails, Set, Vanish, ThreadFails, RunTyped
  <2>3. Fine(run'[r])
    BY <1>16, <2>1, IdleIs DEF RunFails, Set, Vanish, ThreadFails, RunTyped, RunStates, Fine, Working
  <2> QED
    BY <2>2, <2>3 DEF RunsFine
<1>17. ASSUME NEW r \in Runs, PullFails(r) PROVE RunsFine'
  <2>1. run[r] \in RunStates /\ Fine(run[r])
    BY RunFields DEF RunsFine
  <2>2. \A q \in Runs \ {r} : run'[q] = run[q]
    BY <1>17 DEF PullFails, Set, Vanish, ThreadFails, RunTyped
  <2>3. Fine(run'[r])
    BY <1>17, <2>1, IdleIs DEF PullFails, Set, Vanish, ThreadFails, RunTyped, RunStates, Fine, Working
  <2> QED
    BY <2>2, <2>3 DEF RunsFine
<1>18. ASSUME NEW r \in Runs, ExtendFails(r) PROVE RunsFine'
  <2>1. run[r] \in RunStates /\ Fine(run[r])
    BY RunFields DEF RunsFine
  <2>2. \A q \in Runs \ {r} : run'[q] = run[q]
    BY <1>18 DEF ExtendFails, Set, Vanish, ThreadFails, RunTyped
  <2>3. Fine(run'[r])
    BY <1>18, <2>1, IdleIs DEF ExtendFails, Set, Vanish, ThreadFails, RunTyped, RunStates, Fine, Working
  <2> QED
    BY <2>2, <2>3 DEF RunsFine
<1>19. ASSUME NEW r \in Runs, Refused(r) PROVE RunsFine'
  <2>1. run[r] \in RunStates /\ Fine(run[r])
    BY RunFields DEF RunsFine
  <2>2. \A q \in Runs \ {r} : run'[q] = run[q]
    BY <1>19 DEF Refused, Set, Vanish, ThreadFails, RunTyped
  <2>3. Fine(run'[r])
    BY <1>19, <2>1, IdleIs DEF Refused, Set, Vanish, ThreadFails, RunTyped, RunStates, Fine, Working
  <2> QED
    BY <2>2, <2>3 DEF RunsFine
<1>20. ASSUME NEW r \in Runs, Cancel(r) PROVE RunsFine'
  <2>1. run[r] \in RunStates /\ Fine(run[r])
    BY RunFields DEF RunsFine
  <2>2. \A q \in Runs \ {r} : run'[q] = run[q]
    BY <1>20 DEF Cancel, Set, Vanish, ThreadFails, RunTyped
  <2>3. Fine(run'[r])
    BY <1>20, <2>1, IdleIs DEF Cancel, Set, Vanish, ThreadFails, RunTyped, RunStates, Fine, Working
  <2> QED
    BY <2>2, <2>3 DEF RunsFine
<1>21. ASSUME NEW r \in Runs, Crash(r) PROVE RunsFine'
  <2>1. run[r] \in RunStates /\ Fine(run[r])
    BY RunFields DEF RunsFine
  <2>2. \A q \in Runs \ {r} : run'[q] = run[q]
    BY <1>21 DEF Crash, Set, Vanish, ThreadFails, RunTyped
  <2>3. Fine(run'[r])
    BY <1>21, <2>1, IdleIs DEF Crash, Set, Vanish, ThreadFails, RunTyped, RunStates, Fine, Working
  <2> QED
    BY <2>2, <2>3 DEF RunsFine
<1>22. ASSUME Stop PROVE RunsFine'
  <2> SUFFICES ASSUME NEW q \in Runs PROVE Fine(run'[q])
    BY DEF RunsFine
  <2>1. run[q] \in RunStates /\ Fine(run[q])
    BY RunFields DEF RunsFine
  <2>2. run'[q] = IF run[q].pc = "commit" THEN [run[q] EXCEPT !.plan.kind = "void"] ELSE run[q]
    BY <1>22 DEF Stop
  <2>3. CASE run[q].pc = "commit"
    <3>1. run'[q].pc = "commit" /\ run'[q].last = run[q].last
      BY <2>1, <2>2, <2>3 DEF RunStates
    <3> QED
      BY <2>1, <3>1 DEF Fine
  <2>4. CASE run[q].pc # "commit"
    BY <2>1, <2>2, <2>4
  <2> QED
    BY <2>3, <2>4
<1> QED
  BY <1>1, <1>2, <1>3, <1>4, <1>5, <1>6, <1>7, <1>8, <1>9, <1>10, <1>11, <1>12, <1>13, <1>14,
     <1>15, <1>16, <1>17, <1>18, <1>19, <1>20, <1>21, <1>22 DEF Next, Step, Fault, Others

\* KnownSeenOld, from what the runs know after a step.
LEMMA KnownOn ==
  ASSUME Shape, LinkOld, KnownSeenOld, [Next]_vars,
         \A q \in Runs : run'[q].known \in {run[q].known, link, Idle.known}
  PROVE  KnownSeenOld'
<1> USE ShapeIs
<1> SUFFICES ASSUME NEW q \in Runs, NEW t \in Threads PROVE run'[q].known[t].seen <= LastOf(t)'
  BY DEF KnownSeenOld
<1>1. LastOf(t) \in Nat /\ LastOf(t)' \in Nat /\ LastOf(t) <= LastOf(t)'
  BY LastGrows
<1>2. link[t].seen <= LastOf(t) /\ run[q].known[t].seen <= LastOf(t) /\ Idle.known[t].seen <= LastOf(t)
  BY <1>1, IdleIs DEF LinkOld, KnownSeenOld, NoLink
<1>3. link[t].seen \in Nat /\ run[q].known[t].seen \in Nat /\ Idle.known[t].seen \in Nat
  <2>1. run[q].known[t] \in Links /\ link[t] \in Links
    BY RunFields DEF LinkTyped
  <2> QED
    BY <2>1, IdleIs, RemoteSyncAssumption DEF NoLink, Links
<1> QED
  BY <1>1, <1>2, <1>3

\* Every step keeps KnownSeenOld.
LEMMA StepKnownSeenOld ==
  ASSUME Shape, RemoteTyped, RunTyped, TodoLeft, LinkOld, KnownSeenOld, [Next]_vars
  PROVE  KnownSeenOld'
<1>1. CASE UNCHANGED <<run, posts>>
  BY <1>1 DEF KnownSeenOld, LastOf, Of
<1>2. ASSUME Expire \/ Save \/ (\E t \in Threads : RemoteDelete(t) \/ Continue(t) \/
             DeleteLocal(t)) \/ UNCHANGED vars
      PROVE  UNCHANGED <<run, posts>>
  BY <1>2, Zenon DEF RemoteDelete, Continue, Here, remote, DeleteLocal, Expire, Save, vars
<1>3. ASSUME NEW r \in Runs, Start(r) PROVE KnownSeenOld'
  <2>1. run[r] \in RunStates
    BY RunFields
  <2>2. \A q \in Runs \ {r} : run'[q] = run[q]
    BY <1>3 DEF Start, Set, Vanish, ThreadFails, RunTyped
  <2>3. run'[r].known \in {run[r].known, link, Idle.known}
    BY <1>3, <2>1, IdleIs DEF Start, Set, Vanish, ThreadFails, RunTyped, RunStates
  <2> QED
    BY <2>2, <2>3, KnownOn
<1>4. ASSUME NEW r \in Runs, Read(r) PROVE KnownSeenOld'
  <2>1. run[r] \in RunStates
    BY RunFields
  <2>2. \A q \in Runs \ {r} : run'[q] = run[q]
    BY <1>4 DEF Read, Set, Vanish, ThreadFails, RunTyped
  <2>3. run'[r].known \in {run[r].known, link, Idle.known}
    BY <1>4, <2>1, IdleIs DEF Read, Set, Vanish, ThreadFails, RunTyped, RunStates
  <2> QED
    BY <2>2, <2>3, KnownOn
<1>5. ASSUME NEW r \in Runs, List(r) PROVE KnownSeenOld'
  <2>2. SameBut(r) /\ run'[r].known = run[r].known
    BY <1>5, ListStep
  <2> QED
    BY <2>2, KnownOn DEF SameBut
<1>6. ASSUME NEW r \in Runs, Listing(r) PROVE KnownSeenOld'
  <2>1. run[r] \in RunStates
    BY RunFields
  <2>2. \A q \in Runs \ {r} : run'[q] = run[q]
    BY <1>6 DEF Listing, Set, Vanish, ThreadFails, RunTyped
  <2>3. run'[r].known \in {run[r].known, link, Idle.known}
    BY <1>6, <2>1, IdleIs DEF Listing, Set, Vanish, ThreadFails, RunTyped, RunStates
  <2> QED
    BY <2>2, <2>3, KnownOn
<1>7. ASSUME NEW r \in Runs, Pull(r) PROVE KnownSeenOld'
  <2>1. run[r] \in RunStates
    BY RunFields
  <2>2. \A q \in Runs \ {r} : run'[q] = run[q]
    BY <1>7 DEF Pull, Set, Vanish, ThreadFails, RunTyped
  <2>3. run'[r].known \in {run[r].known, link, Idle.known}
    BY <1>7, <2>1, IdleIs DEF Pull, Set, Vanish, ThreadFails, RunTyped, RunStates
  <2> QED
    BY <2>2, <2>3, KnownOn
<1>8. ASSUME NEW r \in Runs, PullNothing(r) PROVE KnownSeenOld'
  <2>1. run[r] \in RunStates
    BY RunFields
  <2>2. \A q \in Runs \ {r} : run'[q] = run[q]
    BY <1>8 DEF PullNothing, Set, Vanish, ThreadFails, RunTyped
  <2>3. run'[r].known \in {run[r].known, link, Idle.known}
    BY <1>8, <2>1, IdleIs DEF PullNothing, Set, Vanish, ThreadFails, RunTyped, RunStates
  <2> QED
    BY <2>2, <2>3, KnownOn
<1>9. ASSUME NEW r \in Runs, Look(r) PROVE KnownSeenOld'
  <2>1. run[r] \in RunStates
    BY RunFields
  <2>2. \A q \in Runs \ {r} : run'[q] = run[q]
    BY <1>9 DEF Look, Set, Vanish, ThreadFails, RunTyped
  <2>3. run'[r].known \in {run[r].known, link, Idle.known}
    BY <1>9, <2>1, IdleIs DEF Look, Set, Vanish, ThreadFails, RunTyped, RunStates
  <2> QED
    BY <2>2, <2>3, KnownOn
<1>10. ASSUME NEW r \in Runs, Commit(r) PROVE KnownSeenOld'
  <2>1. run[r] \in RunStates
    BY RunFields
  <2>2. \A q \in Runs \ {r} : run'[q] = run[q]
    BY <1>10 DEF Commit, Set, Vanish, ThreadFails, RunTyped
  <2>3. run'[r].known \in {run[r].known, link, Idle.known}
    BY <1>10, <2>1, IdleIs DEF Commit, Set, Vanish, ThreadFails, RunTyped, RunStates
  <2> QED
    BY <2>2, <2>3, KnownOn
<1>11. ASSUME NEW r \in Runs, CommitFails(r) PROVE KnownSeenOld'
  <2>1. run[r] \in RunStates
    BY RunFields
  <2>2. \A q \in Runs \ {r} : run'[q] = run[q]
    BY <1>11 DEF CommitFails, Set, Vanish, ThreadFails, RunTyped
  <2>3. run'[r].known \in {run[r].known, link, Idle.known}
    BY <1>11, <2>1, IdleIs DEF CommitFails, Set, Vanish, ThreadFails, RunTyped, RunStates
  <2> QED
    BY <2>2, <2>3, KnownOn
<1>12. ASSUME NEW r \in Runs, Extend(r) PROVE KnownSeenOld'
  <2>1. run[r] \in RunStates
    BY RunFields
  <2>2. \A q \in Runs \ {r} : run'[q] = run[q]
    BY <1>12 DEF Extend, Set, Vanish, ThreadFails, RunTyped
  <2>3. run'[r].known \in {run[r].known, link, Idle.known}
    BY <1>12, <2>1, IdleIs, ZenonT(40) DEF Extend, Set, Vanish, ThreadFails, RunTyped, RunStates
  <2> QED
    BY <2>2, <2>3, KnownOn
<1>13. ASSUME NEW r \in Runs, RoundOver(r) PROVE KnownSeenOld'
  <2>1. run[r] \in RunStates
    BY RunFields
  <2>2. \A q \in Runs \ {r} : run'[q] = run[q]
    BY <1>13 DEF RoundOver, Set, Vanish, ThreadFails, RunTyped
  <2>3. run'[r].known \in {run[r].known, link, Idle.known}
    BY <1>13, <2>1, IdleIs DEF RoundOver, Set, Vanish, ThreadFails, RunTyped, RunStates
  <2> QED
    BY <2>2, <2>3, KnownOn
<1>14. ASSUME NEW r \in Runs, Record(r) PROVE KnownSeenOld'
  <2>1. run[r] \in RunStates
    BY RunFields
  <2>2. \A q \in Runs \ {r} : run'[q] = run[q]
    BY <1>14 DEF Record, Set, Vanish, ThreadFails, RunTyped
  <2>3. run'[r].known \in {run[r].known, link, Idle.known}
    BY <1>14, <2>1, IdleIs DEF Record, Set, Vanish, ThreadFails, RunTyped, RunStates
  <2> QED
    BY <2>2, <2>3, KnownOn
<1>15. ASSUME NEW r \in Runs, Release(r) PROVE KnownSeenOld'
  <2>1. run[r] \in RunStates
    BY RunFields
  <2>2. \A q \in Runs \ {r} : run'[q] = run[q]
    BY <1>15 DEF Release, Set, Vanish, ThreadFails, RunTyped
  <2>3. run'[r].known \in {run[r].known, link, Idle.known}
    BY <1>15, <2>1, IdleIs DEF Release, Set, Vanish, ThreadFails, RunTyped, RunStates
  <2> QED
    BY <2>2, <2>3, KnownOn
<1>16. ASSUME NEW r \in Runs, RunFails(r) PROVE KnownSeenOld'
  <2>1. run[r] \in RunStates
    BY RunFields
  <2>2. \A q \in Runs \ {r} : run'[q] = run[q]
    BY <1>16 DEF RunFails, Set, Vanish, ThreadFails, RunTyped
  <2>3. run'[r].known \in {run[r].known, link, Idle.known}
    BY <1>16, <2>1, IdleIs DEF RunFails, Set, Vanish, ThreadFails, RunTyped, RunStates
  <2> QED
    BY <2>2, <2>3, KnownOn
<1>17. ASSUME NEW r \in Runs, PullFails(r) PROVE KnownSeenOld'
  <2>1. run[r] \in RunStates
    BY RunFields
  <2>2. \A q \in Runs \ {r} : run'[q] = run[q]
    BY <1>17 DEF PullFails, Set, Vanish, ThreadFails, RunTyped
  <2>3. run'[r].known \in {run[r].known, link, Idle.known}
    BY <1>17, <2>1, IdleIs DEF PullFails, Set, Vanish, ThreadFails, RunTyped, RunStates
  <2> QED
    BY <2>2, <2>3, KnownOn
<1>18. ASSUME NEW r \in Runs, ExtendFails(r) PROVE KnownSeenOld'
  <2>1. run[r] \in RunStates
    BY RunFields
  <2>2. \A q \in Runs \ {r} : run'[q] = run[q]
    BY <1>18 DEF ExtendFails, Set, Vanish, ThreadFails, RunTyped
  <2>3. run'[r].known \in {run[r].known, link, Idle.known}
    BY <1>18, <2>1, IdleIs DEF ExtendFails, Set, Vanish, ThreadFails, RunTyped, RunStates
  <2> QED
    BY <2>2, <2>3, KnownOn
<1>19. ASSUME NEW r \in Runs, Refused(r) PROVE KnownSeenOld'
  <2>1. run[r] \in RunStates
    BY RunFields
  <2>2. \A q \in Runs \ {r} : run'[q] = run[q]
    BY <1>19 DEF Refused, Set, Vanish, ThreadFails, RunTyped
  <2>3. run'[r].known \in {run[r].known, link, Idle.known}
    BY <1>19, <2>1, IdleIs DEF Refused, Set, Vanish, ThreadFails, RunTyped, RunStates
  <2> QED
    BY <2>2, <2>3, KnownOn
<1>20. ASSUME NEW r \in Runs, Cancel(r) PROVE KnownSeenOld'
  <2>1. run[r] \in RunStates
    BY RunFields
  <2>2. \A q \in Runs \ {r} : run'[q] = run[q]
    BY <1>20 DEF Cancel, Set, Vanish, ThreadFails, RunTyped
  <2>3. run'[r].known \in {run[r].known, link, Idle.known}
    BY <1>20, <2>1, IdleIs DEF Cancel, Set, Vanish, ThreadFails, RunTyped, RunStates
  <2> QED
    BY <2>2, <2>3, KnownOn
<1>21. ASSUME NEW r \in Runs, Crash(r) PROVE KnownSeenOld'
  <2>1. run[r] \in RunStates
    BY RunFields
  <2>2. \A q \in Runs \ {r} : run'[q] = run[q]
    BY <1>21 DEF Crash, Set, Vanish, ThreadFails, RunTyped
  <2>3. run'[r].known \in {run[r].known, link, Idle.known}
    BY <1>21, <2>1, IdleIs DEF Crash, Set, Vanish, ThreadFails, RunTyped, RunStates
  <2> QED
    BY <2>2, <2>3, KnownOn
<1>22. ASSUME NEW t \in Threads, Post(t) PROVE KnownSeenOld'
  <2>1. run' = run
    BY <1>22 DEF Post
  <2> QED
    BY <2>1, KnownOn
<1>23. ASSUME Stop PROVE KnownSeenOld'
  <2>1. \A q \in Runs : run'[q].known = run[q].known
    BY <1>23, RunFields DEF Stop, RunStates
  <2> QED
    BY <2>1, KnownOn
<1> QED
  BY <1>1, <1>2, <1>3, <1>4, <1>5, <1>6, <1>7, <1>8, <1>9, <1>10, <1>11, <1>12, <1>13, <1>14,
     <1>15, <1>16, <1>17, <1>18, <1>19, <1>20, <1>21, <1>22, <1>23 DEF Next, Step, Fault,
     Others

\* A set in order stays so while nothing is sent.
LEMMA OrderedSame ==
  ASSUME posts' = posts, deleted \subseteq deleted', NEW S, Ordered(S)
  PROVE  Ordered(S)'
<1>1. Listed' \subseteq Listed /\ \A t : LastOf(t)' = LastOf(t)
  BY DEF Listed, LastOf, Of, Newest
<1> QED
  BY <1>1 DEF Ordered

\* A set in order stays so without the thread of a message.
LEMMA OrderedPost ==
  ASSUME Shape, NEW z \in Threads, Post(z), NEW S, Ordered(S)
  PROVE  Ordered(S \ {z})'
<1> SUFFICES ASSUME NEW t \in Listed', t \notin S \ {z}, NEW u \in Listed', u \in S, u # z
             PROVE  LastOf(t)' > LastOf(u)'
  BY DEF Ordered
<1>1. u \in Listed /\ u \in Threads /\ LastOf(u)' = LastOf(u) /\ LastOf(u) \in Nat /\ LastOf(u) <= Len(posts)
  BY PostLast DEF Listed
<1>2. CASE t = z
  BY <1>1, <1>2, PostLast, ShapeIs DEF RemoteTyped
<1>3. CASE t # z
  BY <1>1, <1>3, PostLast DEF Ordered, Listed
<1> QED
  BY <1>2, <1>3

\* What is further down the list stays there while nothing is sent or deleted.
LEMMA WalkedSame ==
  ASSUME posts' = posts, deleted' = deleted, NEW S, NEW p, Walked(S, p)
  PROVE  Walked(S, p)'
<1>1. Listed' = Listed /\ \A t : LastOf(t)' = LastOf(t)
  BY DEF Listed, LastOf, Of, Newest
<1>2. \A t : Rank(t)' = Rank(t)
  BY <1>1 DEF Rank, Above
<1> QED
  BY <1>1, <1>2 DEF Walked

\* It stays there when something is sent, but for the thread it is sent in.
LEMMA WalkedPost ==
  ASSUME Shape, NEW z \in Threads, Post(z), NEW S, NEW p \in Nat, Walked(S, p)
  PROVE  Walked(S \ {z}, p)'
<1> SUFFICES ASSUME NEW t \in Listed', t \notin S \ {z}, NEW u \in Listed', u \in S, u # z
             PROVE  LastOf(t)' > LastOf(u)' \/ Rank(t)' >= p
  BY DEF Walked
<1>1. u \in Listed /\ u \in Threads /\ LastOf(u)' = LastOf(u) /\ LastOf(u) \in Nat /\ LastOf(u) <= Len(posts)
  BY PostLast DEF Listed
<1>2. CASE t = z
  BY <1>1, <1>2, PostLast, ShapeIs DEF RemoteTyped
<1>3. CASE t # z
  <2>1. t \in Listed /\ t \in Threads /\ t \notin S
    BY <1>3, PostLast DEF Listed
  <2>2. LastOf(t) > LastOf(u) \/ Rank(t) >= p
    BY <1>1, <2>1 DEF Walked
  <2>3. LastOf(t)' = LastOf(t) /\ Rank(t) \in Nat /\ Rank(t)' \in Nat /\ Rank(t) <= Rank(t)'
    BY <1>3, <2>1, PostLast, RankGrows
  <2> QED
    BY <1>1, <2>2, <2>3
<1> QED
  BY <1>2, <1>3

\* The sets after a message: its thread is in none of them.
LEMMA UpToDatePost ==
  ASSUME Shape, LinkOld, NEW z \in Threads, Post(z)
  PROVE  UpToDate' = UpToDate \ {z}
<1>1. link' = link /\ link[z].seen \in Nat /\ link[z].seen <= LastOf(z)
  BY ShapeIs, RemoteSyncAssumption DEF Post, local, LinkOld, LinkTyped, Links
<1>2. LastOf(z)' # link[z].seen
  BY <1>1, PostLast, ShapeIs DEF RemoteTyped
<1>3. \A t \in Threads \ {z} : LastOf(t)' = LastOf(t)
  BY PostLast
<1> QED
  BY <1>1, <1>2, <1>3 DEF UpToDate

\* A run finds a thread with a new message changed.
LEMMA UnchangedPost ==
  ASSUME Shape, KnownSeenOld, NEW z \in Threads, Post(z), NEW r \in Runs
  PROVE  Unchanged(r)' = Unchanged(r) \ {z}
<1>1. run' = run /\ run[r].known[z].seen \in Nat /\ run[r].known[z].seen <= LastOf(z)
  BY ShapeIs, RunFields, RemoteSyncAssumption DEF Post, KnownSeenOld, Links
<1>2. LastOf(z)' # run[r].known[z].seen
  BY <1>1, PostLast, ShapeIs DEF RemoteTyped
<1>3. \A t \in Threads \ {z} : LastOf(t)' = LastOf(t)
  BY PostLast
<1> QED
  BY <1>1, <1>2, <1>3 DEF Unchanged, Changed

\* What a run has left to do is a list of entries, none ahead of the remote.
LEMMA RestIs ==
  ASSUME Shape, TodoOld, NEW r \in Runs
  PROVE  /\ Rest(r) \in Seq(Todo) /\ Seen(Rest(r))
         /\ \A i \in DOMAIN Rest(r) : Rest(r)[i] \in Todo /\ Rest(r)[i].seen \in Nat
<1> USE ShapeIs
<1>1. run[r].todo \in Seq(Todo) /\ Seen(run[r].todo)
  BY RunFields DEF TodoOld
<1>2. run[r].pc = "extend" => run[r].todo # <<>> /\ Tail(run[r].todo) \in Seq(Todo)
  BY HeadTyped DEF TodoLeft
<1>3. Rest(r) \in Seq(Todo) /\ Seen(Rest(r))
  BY <1>1, <1>2, SeenKeeps DEF Rest
<1>4. \A i \in DOMAIN Rest(r) : Rest(r)[i] \in Todo
  BY <1>3
<1> QED
  BY <1>3, <1>4, RemoteSyncAssumption DEF Todo

\* What it has left to do does not bring a thread with a new message up to date.
LEMMA PendingPost ==
  ASSUME Shape, TodoOld, NEW z \in Threads, Post(z), NEW r \in Runs
  PROVE  Pending(r)' = Pending(r) \ {z}
<1>1. Rest(r)' = Rest(r)
  BY DEF Post, Rest
<1>2. ASSUME NEW i \in DOMAIN Rest(r), Rest(r)[i].thread = z PROVE Rest(r)[i].seen # LastOf(z)'
  <2>1. Rest(r)[i].seen \in Nat /\ Rest(r)[i].seen <= LastOf(z)
    BY <1>2, RestIs DEF Seen
  <2> QED
    BY <2>1, PostLast, ShapeIs DEF RemoteTyped
<1>3. \A t \in Threads \ {z} : LastOf(t)' = LastOf(t)
  BY PostLast
<1>4. \A t, n : In(Rest(r), t, n)' <=> In(Rest(r), t, n)
  BY <1>1 DEF In
<1>5. \A t : t \in Pending(r)' <=> t \in Threads /\ In(Rest(r), t, LastOf(t)')
  BY <1>1 DEF Pending, In
<1>6. \A t : t \in Pending(r) <=> t \in Threads /\ In(Rest(r), t, LastOf(t))
  BY DEF Pending
<1>7. ~In(Rest(r), z, LastOf(z)')
  BY <1>2 DEF In
<1> QED
  BY <1>3, <1>5, <1>6, <1>7

\* The holder stays as it is while others do things that it need not know of.
LEMMA HolderFrame ==
  ASSUME Shape, Sync, LinkOld, KnownSeenOld, NEW r \in Runs, Holder(r), run'[r] = run[r], link' = link,
         \/ posts' = posts /\ deleted' = deleted
         \/ posts' = posts /\ deleted \subseteq deleted' /\ run[r].pc # "list"
         \/ \E z \in Threads : Post(z)
  PROVE  Holder(r)'
<1>1. Rest(r)' = Rest(r) /\ (Rising(Rest(r)) => Rising(Rest(r))')
  BY DEF Rest, Rising
<1>2. CASE posts' = posts /\ deleted \subseteq deleted' /\ (deleted' = deleted \/ run[r].pc # "list")
  <2>1. \A t : LastOf(t)' = LastOf(t)
    BY <1>2 DEF LastOf, Of, Newest
  <2>2. UpToDate' = UpToDate /\ Unchanged(r)' = Unchanged(r)
    BY <2>1 DEF UpToDate, Unchanged, Changed
  <2>3. Pending(r)' = Pending(r)
    BY <1>1, <2>1 DEF Pending, In
  <2>4. \A S : Ordered(S) => Ordered(S)'
    BY <1>2, OrderedSame
  <2>5. run[r].pc = "list" => \A S, p : Walked(S, p) => Walked(S, p)'
    BY <1>2, WalkedSame
  <2>6. Ordered(UpToDate) => Ordered(UpToDate)'
    BY <2>2, <2>4 DEF Ordered
  <2>7. Ordered(UpToDate \cup Pending(r)) => Ordered(UpToDate \cup Pending(r))'
    BY <2>2, <2>3, <2>4 DEF Ordered
  <2>8. Ordered(Unchanged(r)) => Ordered(Unchanged(r))'
    BY <2>2, <2>4 DEF Ordered
  <2>9. run[r].pc = "list" /\ Walked(Unchanged(r) \cup Pending(r), run[r].page) =>
          Walked(Unchanged(r) \cup Pending(r), run[r].page)'
    BY <2>2, <2>3, <2>5 DEF Walked
  <2> QED
    BY <1>1, <2>6, <2>7, <2>8, <2>9 DEF Holder
<1>3. ASSUME NEW z \in Threads, Post(z) PROVE Holder(r)'
  <2>1. UpToDate' = UpToDate \ {z} /\ Unchanged(r)' = Unchanged(r) \ {z} /\ Pending(r)' = Pending(r) \ {z}
    BY <1>3, UpToDatePost, UnchangedPost, PendingPost DEF Sync
  <2>2. \A S : Ordered(S) => Ordered(S \ {z})'
    BY <1>3, OrderedPost
  <2>3. run[r].page \in Nat
    BY MoreFields, ShapeIs
  <2>6. Ordered(UpToDate) => Ordered(UpToDate)'
    BY <2>1, <2>2 DEF Ordered
  <2>5. (UpToDate \cup Pending(r)) \ {z} = (UpToDate \ {z}) \cup (Pending(r) \ {z})
    OBVIOUS
  <2>7. Ordered(UpToDate \cup Pending(r)) => Ordered(UpToDate \cup Pending(r))'
    <3>1. PICK S : S = UpToDate \cup Pending(r)
      OBVIOUS
    <3>2. Ordered(S) => Ordered(S \ {z})'
      BY <2>2
    <3>3. S \ {z} = UpToDate' \cup Pending(r)'
      BY <2>1, <2>5, <3>1
    <3> QED
      BY <3>1, <3>2, <3>3 DEF Ordered
  <2>8. Ordered(Unchanged(r)) => Ordered(Unchanged(r))'
    BY <2>1, <2>2 DEF Ordered
  <2>9. Walked(Unchanged(r) \cup Pending(r), run[r].page) =>
          Walked(Unchanged(r) \cup Pending(r), run[r].page)'
    <3>1. (Unchanged(r) \cup Pending(r)) \ {z} = (Unchanged(r) \ {z}) \cup (Pending(r) \ {z})
      OBVIOUS
    <3>2. PICK p \in Nat : p = run[r].page
      BY <2>3
    <3>3. PICK S : S = Unchanged(r) \cup Pending(r)
      OBVIOUS
    <3>4. Walked(S, p) => Walked(S \ {z}, p)'
      BY <1>3, WalkedPost
    <3>5. S \ {z} = Unchanged(r)' \cup Pending(r)'
      BY <2>1, <3>1, <3>3
    <3> QED
      BY <3>2, <3>3, <3>4, <3>5 DEF Walked
  <2> QED
    BY <1>1, <2>6, <2>7, <2>8, <2>9 DEF Holder
<1> QED
  BY <1>2, <1>3

\* What a commit changes of its run, and what it leaves alone.
LEMMA CommitMore ==
  ASSUME Shape, NEW r \in Runs, Commit(r)
  PROVE  /\ UNCHANGED <<deleted, account, lease, cut>>
         /\ run'[r].applied /\ run'[r].failed = run[r].failed /\ run'[r].over = run[r].over
<1> USE ShapeIs
<1>1. run' = [run EXCEPT ![r] = [run[r] EXCEPT !.pc = "extend", !.plan = NoPlan, !.applied = TRUE]]
  BY DEF Commit, Set
<1>2. run'[r] = [run[r] EXCEPT !.pc = "extend", !.plan = NoPlan, !.applied = TRUE]
  BY <1>1 DEF RunTyped
<1>3. run[r] \in RunStates
  BY RunFields
<1>4. run'[r].applied = TRUE
  BY <1>2, <1>3 DEF RunStates
<1>5. run'[r].failed = run[r].failed /\ run'[r].over = run[r].over
  BY <1>2, <1>3 DEF RunStates
<1>6. UNCHANGED <<deleted, account, lease, cut>>
  BY Zenon DEF Commit, remote, row
<1> QED
  BY <1>4, <1>5, <1>6

\* What a claim changes.
LEMMA StartIs ==
  ASSUME Shape, NEW r \in Runs, Start(r)
  PROVE  /\ SameBut(r) /\ run[r] = Idle /\ run'[r].pc = "read" /\ ~run'[r].applied
         /\ UNCHANGED <<posts, deleted, account, link, cut>> /\ lease' = r
         /\ lease = Nobody \/ expired
<1> USE ShapeIs
<1>1. run' = [run EXCEPT ![r] = [Idle EXCEPT !.pc = "read"]]
  BY DEF Start, Set
<1>2. SameBut(r) /\ run'[r] = [Idle EXCEPT !.pc = "read"]
  BY <1>1 DEF RunTyped, SameBut
<1>3. run'[r].pc = "read"
  BY <1>2 DEF Idle
<1>4. run'[r].applied = FALSE
  BY <1>2 DEF Idle
<1> QED
  BY <1>2, <1>3, <1>4 DEF Start, remote, local

\* What the record of a result changes.
LEMMA RecordIs ==
  ASSUME Shape, NEW r \in Runs, Record(r)
  PROVE  /\ SameBut(r) /\ run'[r] = Idle /\ lease = r /\ lease' = Nobody
         /\ UNCHANGED <<posts, deleted, link>> /\ account'.on = account.on
         /\ account'.fresh <=> (account.fresh /\ run[r].pc # "ok")
         /\ account'.behind <=> (run[r].over > 0)
         /\ cut' = (cut \/ (/\ run[r].pc # "ok" /\ run[r].over = 0
                            /\ ~account.fresh /\ (run[r].applied \/ account.behind)))
<1> USE ShapeIs
<1>1. SameBut(r) /\ run'[r] = Idle
  BY DEF Record, Set, RunTyped, SameBut
<1>2. account \in Accounts
  BY DEF RowTyped
<1>3. account' = [account EXCEPT !.fresh = account.fresh /\ run[r].pc # "ok", !.behind = run[r].over > 0,
                                 !.attention = run[r].pc = "attention"]
  BY DEF Record
<1>4. account'.on = account.on
  BY <1>2, <1>3 DEF Accounts
<1>5. account'.fresh = (account.fresh /\ run[r].pc # "ok")
  BY <1>2, <1>3 DEF Accounts
<1>6. account'.behind = (run[r].over > 0)
  BY <1>2, <1>3 DEF Accounts
<1> QED
  BY <1>1, <1>4, <1>5, <1>6 DEF Record, remote, local

\* When nobody but the holder of the lease has written after a step, so it was before,
\* or the next walk goes through the whole list.
LEMMA SoleStep ==
  ASSUME Shape, RunsFine, OffIsFree, [Next]_vars, Sole'
  PROVE  Sole \/ (lease' = Nobody /\ (account'.fresh \/ account'.behind))
<1> USE ShapeIs
<1>0. Nobody \notin Runs /\ lease \in Runs \cup {Nobody}
  BY RemoteSyncAssumption DEF RowTyped
<1>00. account'.on /\ ~cut' /\ \A q \in Runs : run'[q].applied => lease' = q
  BY DEF Sole
<1>1. ASSUME NEW r \in Runs, Start(r) PROVE Sole
  <2>1. ~run[r].applied
    BY <1>1, StartIs, IdleIs
  <2>2. \A q \in Runs \ {r} : ~run[q].applied
    BY <1>00, <1>1, StartIs DEF SameBut
  <2> QED
    BY <1>00, <1>1, <2>1, <2>2, StartIs DEF Sole
<1>2. ASSUME NEW r \in Runs, Record(r) PROVE Sole
  <2>1. \A q \in Runs \ {r} : ~run[q].applied
    BY <1>0, <1>00, <1>2, RecordIs DEF SameBut
  <2>2. account.on /\ ~cut /\ lease = r
    BY <1>00, <1>2, RecordIs
  <2> QED
    BY <2>1, <2>2 DEF Sole
<1>3. ASSUME NEW r \in Runs, Commit(r) PROVE Sole
  <2>1. lease = r /\ account.on /\ ~cut
    BY <1>00, <1>3, CommitMore
  <2>2. \A q \in Runs \ {r} : run'[q] = run[q]
    BY <1>3, CommitStep DEF SameBut
  <2> QED
    BY <1>00, <1>3, <2>1, <2>2, CommitMore DEF Sole
<1>4. ASSUME NEW r \in Runs, Gone(r)
      PROVE  Sole \/ (lease' = Nobody /\ (account'.fresh \/ account'.behind))
  <2>1. account.on /\ ~cut /\ account' = account
    BY <1>00, <1>4 DEF Gone
  <2>2. \A q \in Runs \ {r} : run[q].applied => lease = q
    BY <1>0, <1>00, <1>4 DEF Gone, SameBut
  <2>3. CASE ~run[r].applied \/ lease = r
    BY <2>1, <2>2, <2>3 DEF Sole
  <2>4. CASE run[r].applied /\ lease # r
    <3>1. lease \in {r, Nobody} /\ (account.fresh \/ account.behind)
      BY <1>00, <1>4, <2>4 DEF Gone
    <3> QED
      BY <1>0, <1>4, <2>1, <2>4, <3>1 DEF Gone
  <2> QED
    BY <2>3, <2>4
<1>5. ASSUME NEW r \in Runs, Walks(r) PROVE Sole
  BY <1>00, <1>5 DEF Walks, Steady, SameBut, Sole
<1>6. ASSUME NEW z \in Threads, Post(z) \/ RemoteDelete(z) PROVE Sole
  <2>1. UNCHANGED <<account, lease, run>>
    BY <1>6 DEF Post, RemoteDelete, row
  <2>2. ~cut
    BY <1>00, <1>6 DEF Post, RemoteDelete
  <2> QED
    BY <1>00, <2>1, <2>2 DEF Sole
<1>7. ~Stop
  BY <1>00 DEF Stop, NewAccount
<1>8. ASSUME Save PROVE Sole \/ (lease' = Nobody /\ (account'.fresh \/ account'.behind))
  <2>1. CASE account.on
    BY <1>00, <1>8, <2>1 DEF Save, Sole
  <2>2. CASE ~account.on
    <3>1. lease' = Nobody /\ account' = NewAccount
      BY <1>8, <2>2 DEF Save, OffIsFree
    <3> QED
      BY <3>1 DEF NewAccount
  <2> QED
    BY <2>1, <2>2
<1>9. ASSUME UNCHANGED <<posts, deleted, account, lease, link, run, cut>> PROVE Sole
  BY <1>00, <1>9 DEF Sole
<1> QED
  BY <1>1, <1>2, <1>3, <1>4, <1>5, <1>6, <1>7, <1>8, <1>9, Kinds

\* While the holder has not written, the links stay in order.
LEMMA StepSettled ==
  ASSUME Shape, LinkOld, RunsFine, OffIsFree, HolderInv, [Next]_vars, Sole', Settled'
  PROVE  Ordered(UpToDate)'
<1> USE ShapeIs
<1>0. Nobody \notin Runs /\ lease \in Runs \cup {Nobody}
  BY RemoteSyncAssumption DEF RowTyped
<1>00. ~cut' /\ \A q \in Runs : run'[q].applied => lease' = q
  BY DEF Sole
<1>01. Sole
  BY SoleStep DEF Settled
<1>02. ASSUME UNCHANGED <<posts, link>>, deleted \subseteq deleted', Ordered(UpToDate)
       PROVE  Ordered(UpToDate)'
  <2>1. \A t : LastOf(t)' = LastOf(t)
    BY <1>02 DEF LastOf, Of, Newest
  <2>2. UpToDate' = UpToDate
    BY <1>02, <2>1 DEF UpToDate
  <2>3. PICK S : S = UpToDate
    OBVIOUS
  <2>4. Ordered(S)'
    BY <1>02, <2>3, OrderedSame
  <2> QED
    BY <2>2, <2>3, <2>4 DEF Ordered
<1>03. ~account'.fresh /\ ~account'.behind /\ (lease' = Nobody \/ ~run'[lease'].applied)
  BY DEF Settled
<1>04. ASSUME ~account.fresh, ~account.behind, lease = Nobody \/ ~run[lease].applied
       PROVE  Ordered(UpToDate)
  BY <1>01, <1>04 DEF HolderInv, Settled
<1>1. ASSUME NEW r \in Runs, Start(r) PROVE Ordered(UpToDate)'
  <2>1. ~account.fresh /\ ~account.behind /\ UNCHANGED <<posts, link, deleted>>
    BY <1>1, <1>03, StartIs
  <2>2. \A q \in Runs : ~run[q].applied
    BY <1>00, <1>1, StartIs, IdleIs DEF SameBut
  <2> QED
    BY <1>0, <1>02, <1>04, <2>1, <2>2
<1>2. ASSUME NEW r \in Runs, Record(r) PROVE Ordered(UpToDate)'
  <2>1. lease = r /\ UNCHANGED <<posts, link, deleted>> /\ run[r].over = 0
    BY <1>2, <1>03, RecordIs, MoreFields
  <2>2. CASE run[r].pc = "ok"
    <3>1. Ordered(UpToDate)
      BY <1>01, <2>1, <2>2 DEF HolderInv, Holder
    <3> QED
      BY <1>02, <2>1, <3>1
  <2>3. CASE run[r].pc # "ok"
    <3>1. ~account.fresh /\ ~run[r].applied /\ ~account.behind
      BY <1>00, <1>03, <1>2, <2>1, <2>3, RecordIs
    <3> QED
      BY <1>02, <1>04, <2>1, <3>1
  <2> QED
    BY <2>2, <2>3
<1>3. ASSUME NEW r \in Runs, Commit(r) PROVE FALSE
  BY <1>0, <1>00, <1>03, <1>3, CommitMore
<1>4. ASSUME NEW r \in Runs, Gone(r) PROVE Ordered(UpToDate)'
  <2>1. ~account.fresh /\ ~account.behind /\ UNCHANGED <<posts, link, deleted>>
    BY <1>4, <1>03 DEF Gone
  <2>2. lease = Nobody \/ ~run[lease].applied
    <3>1. CASE lease = r
      BY <1>00, <1>4, <2>1, <3>1 DEF Gone
    <3>2. CASE lease # r /\ lease # Nobody
      BY <1>0, <1>03, <1>4, <3>2 DEF Gone, SameBut
    <3> QED
      BY <3>1, <3>2
  <2> QED
    BY <1>02, <1>04, <2>1, <2>2
<1>5. ASSUME NEW r \in Runs, Walks(r) PROVE Ordered(UpToDate)'
  <2>1. ~account.fresh /\ ~account.behind /\ UNCHANGED <<posts, link, deleted, lease>>
    BY <1>5, <1>03 DEF Walks, Steady
  <2>2. \A q \in Runs : run'[q].applied = run[q].applied
    BY <1>5 DEF Walks, Steady, SameBut
  <2> QED
    BY <1>0, <1>02, <1>03, <1>04, <2>1, <2>2
<1>6. ASSUME NEW z \in Threads, Post(z) PROVE Ordered(UpToDate)'
  <2>1. Ordered(UpToDate)
    BY <1>03, <1>04, <1>6 DEF Post, row
  <2>2. UpToDate' = UpToDate \ {z}
    BY <1>6, UpToDatePost
  <2>3. PICK S : S = UpToDate
    OBVIOUS
  <2>4. Ordered(S \ {z})'
    BY <1>6, <2>1, <2>3, OrderedPost
  <2> QED
    BY <2>2, <2>3, <2>4 DEF Ordered
<1>7. ASSUME NEW z \in Threads, RemoteDelete(z) PROVE Ordered(UpToDate)'
  BY <1>02, <1>03, <1>04, <1>7 DEF RemoteDelete, row, local
<1>8. ~Stop
  BY DEF Stop, NewAccount, Sole
<1>9. ASSUME Save PROVE Ordered(UpToDate)'
  <2>1. account \in Accounts /\ account.on
    BY <1>03, <1>9 DEF Save, NewAccount, RowTyped
  <2>2. account' = [account EXCEPT !.attention = FALSE]
    BY <1>9, <2>1 DEF Save
  <2>3. account'.fresh = account.fresh
    BY <2>1, <2>2 DEF Accounts
  <2>4. account'.behind = account.behind
    BY <2>1, <2>2 DEF Accounts
  <2>5. UNCHANGED <<posts, deleted, lease, link, run>>
    BY <1>9 DEF Save, remote, local
  <2> QED
    BY <1>02, <1>03, <1>04, <2>3, <2>4, <2>5
<1>10. ASSUME UNCHANGED <<posts, deleted, account, lease, link, run, cut>> PROVE Ordered(UpToDate)'
  BY <1>02, <1>03, <1>04, <1>10
<1> QED
  BY <1>1, <1>2, <1>3, <1>4, <1>5, <1>6, <1>7, <1>8, <1>9, <1>10, Kinds

\* What is left to do, as its head goes or another entry comes.
LEMMA InHead ==
  ASSUME NEW s \in Seq(Todo), s # <<>>, NEW t, NEW n
  PROVE  In(s, t, n) <=> (Head(s).thread = t /\ Head(s).seen = n) \/ In(Tail(s), t, n)
<1>1. /\ Len(s) \in Nat /\ Len(s) >= 1 /\ DOMAIN s = 1..Len(s) /\ Head(s) = s[1]
      /\ DOMAIN Tail(s) = 1..(Len(s) - 1) /\ \A i \in 1..(Len(s) - 1) : Tail(s)[i] = s[i + 1]
  OBVIOUS
<1>2. ASSUME In(s, t, n) PROVE (Head(s).thread = t /\ Head(s).seen = n) \/ In(Tail(s), t, n)
  <2>1. PICK i \in DOMAIN s : s[i].thread = t /\ s[i].seen = n
    BY <1>2 DEF In
  <2>2. CASE i = 1
    BY <1>1, <2>1, <2>2
  <2>3. CASE i # 1
    <3>1. i - 1 \in DOMAIN Tail(s) /\ Tail(s)[i - 1] = s[i]
      BY <1>1, <2>1, <2>3
    <3> QED
      BY <2>1, <3>1 DEF In
  <2> QED
    BY <2>2, <2>3
<1>3. ASSUME Head(s).thread = t /\ Head(s).seen = n PROVE In(s, t, n)
  BY <1>1, <1>3 DEF In
<1>4. ASSUME In(Tail(s), t, n) PROVE In(s, t, n)
  <2>1. PICK i \in DOMAIN Tail(s) : Tail(s)[i].thread = t /\ Tail(s)[i].seen = n
    BY <1>4 DEF In
  <2>2. i + 1 \in DOMAIN s /\ s[i + 1] = Tail(s)[i]
    BY <1>1, <2>1
  <2> QED
    BY <2>1, <2>2 DEF In
<1> QED
  BY <1>2, <1>3, <1>4

\* An entry more.
LEMMA InAppend ==
  ASSUME NEW s \in Seq(Todo), NEW e \in Todo, NEW t, NEW n
  PROVE  In(Append(s, e), t, n) <=> In(s, t, n) \/ (e.thread = t /\ e.seen = n)
<1>1. /\ Len(s) \in Nat /\ DOMAIN s = 1..Len(s) /\ DOMAIN Append(s, e) = 1..(Len(s) + 1)
      /\ Append(s, e)[Len(s) + 1] = e /\ \A i \in 1..Len(s) : Append(s, e)[i] = s[i]
  OBVIOUS
<1>2. DOMAIN Append(s, e) = DOMAIN s \cup {Len(s) + 1}
  BY <1>1
<1> QED
  BY <1>1, <1>2 DEF In

\* What is left of a list that goes on from the links does so too.
LEMMA RisingTail ==
  ASSUME NEW s \in Seq(Todo), s # <<>>, Rising(s)
  PROVE  /\ Rising(Tail(s)) /\ link[Head(s).thread].seen <= Head(s).seen
         /\ \A i \in DOMAIN Tail(s) : Tail(s)[i].thread = Head(s).thread => Head(s).seen <= Tail(s)[i].seen
<1>1. /\ Len(s) \in Nat /\ Len(s) >= 1 /\ DOMAIN s = 1..Len(s) /\ Head(s) = s[1]
      /\ DOMAIN Tail(s) = 1..(Len(s) - 1) /\ \A i \in 1..(Len(s) - 1) : Tail(s)[i] = s[i + 1]
  OBVIOUS
<1>2. link[Head(s).thread].seen <= Head(s).seen
  BY <1>1 DEF Rising
<1>3. \A i \in DOMAIN Tail(s) : i + 1 \in DOMAIN s /\ Tail(s)[i] = s[i + 1] /\ 1 < i + 1 /\ i \in Nat
  BY <1>1
<1>4. \A i \in DOMAIN Tail(s) : Tail(s)[i].thread = Head(s).thread => Head(s).seen <= Tail(s)[i].seen
  <2> SUFFICES ASSUME NEW i \in DOMAIN Tail(s), Tail(s)[i].thread = Head(s).thread
               PROVE  Head(s).seen <= Tail(s)[i].seen
    OBVIOUS
  <2>1. 1 \in DOMAIN s /\ i + 1 \in DOMAIN s /\ 1 < i + 1 /\ s[i + 1].thread = s[1].thread
    BY <1>1, <1>3
  <2>2. s[1].seen <= s[i + 1].seen
    BY <2>1 DEF Rising
  <2> QED
    BY <1>1, <1>3, <2>2
<1>5. Rising(Tail(s))
  <2> SUFFICES ASSUME NEW i \in DOMAIN Tail(s)
               PROVE  /\ link[Tail(s)[i].thread].seen <= Tail(s)[i].seen
                      /\ \A j \in DOMAIN Tail(s) : i < j /\ Tail(s)[j].thread = Tail(s)[i].thread
                                                   => Tail(s)[i].seen <= Tail(s)[j].seen
    BY DEF Rising
  <2>1. link[Tail(s)[i].thread].seen <= Tail(s)[i].seen
    BY <1>3 DEF Rising
  <2>2. ASSUME NEW j \in DOMAIN Tail(s), i < j, Tail(s)[j].thread = Tail(s)[i].thread
        PROVE  Tail(s)[i].seen <= Tail(s)[j].seen
    <3>1. i + 1 \in DOMAIN s /\ j + 1 \in DOMAIN s /\ i + 1 < j + 1 /\ s[j + 1].thread = s[i + 1].thread
      BY <1>3, <2>2
    <3>2. s[i + 1].seen <= s[j + 1].seen
      BY <3>1 DEF Rising
    <3> QED
      BY <1>3, <3>2
  <2> QED
    BY <2>1, <2>2
<1> QED
  BY <1>2, <1>4, <1>5

\* It goes on from the links with the entry of a thread as it is.
LEMMA RisingAppend ==
  ASSUME RemoteTyped, NEW s \in Seq(Todo), Rising(s), Seen(s), LinkOld, NEW t \in Threads
  PROVE  Rising(Append(s, Entry(t)))
<1> DEFINE e == Entry(t)
           z == Append(s, e)
<1>1. e.thread = t /\ e.seen = LastOf(t)
  BY DEF Entry
<1> HIDE DEF e
<1>2. /\ Len(s) \in Nat /\ DOMAIN s = 1..Len(s) /\ DOMAIN z = 1..(Len(s) + 1)
      /\ z[Len(s) + 1] = e /\ \A i \in 1..Len(s) : z[i] = s[i]
  OBVIOUS
<1> HIDE DEF z
<1> SUFFICES ASSUME NEW i \in DOMAIN z
             PROVE  /\ link[z[i].thread].seen <= z[i].seen
                    /\ \A j \in DOMAIN z : i < j /\ z[j].thread = z[i].thread => z[i].seen <= z[j].seen
  BY DEF Rising, z, e
<1>3. CASE i = Len(s) + 1
  <2>1. z[i] = e /\ \A j \in DOMAIN z : ~(i < j)
    BY <1>2, <1>3
  <2> QED
    BY <1>1, <2>1 DEF LinkOld
<1>4. CASE i \in DOMAIN s
  <2>1. z[i] = s[i] /\ link[s[i].thread].seen <= s[i].seen
    BY <1>2, <1>4 DEF Rising
  <2>2. ASSUME NEW j \in DOMAIN z, i < j, z[j].thread = z[i].thread PROVE z[i].seen <= z[j].seen
    <3>1. CASE j \in DOMAIN s
      BY <1>2, <1>4, <2>1, <2>2, <3>1 DEF Rising
    <3>2. CASE j = Len(s) + 1
      <4>1. z[j] = e /\ s[i].thread = t
        BY <1>1, <1>2, <2>1, <2>2, <3>2
      <4>2. s[i].seen <= LastOf(t)
        BY <1>4, <4>1 DEF Seen
      <4> QED
        BY <1>1, <2>1, <4>1, <4>2
    <3> QED
      BY <1>2, <2>2, <3>1, <3>2
  <2> QED
    BY <2>1, <2>2
<1> QED
  BY <1>2, <1>3, <1>4

\* A thread is written: its entry goes from what is left to do to what the links have seen.
LEMMA HolderCommit ==
  ASSUME Shape, Sync, LinkOld, NEW r \in Runs, Holder(r), Commit(r)
  PROVE  Holder(r)'
<1> USE ShapeIs
<1> DEFINE t == This(r).thread
           s == This(r).seen
           l == run[r].todo
<1>1. /\ t \in Threads /\ run[r].pc = "commit" /\ posts' = posts /\ deleted' = deleted
      /\ run'[r].pc = "extend" /\ run'[r].todo = l
      /\ run'[r].failed = run[r].failed /\ run'[r].over = run[r].over
      /\ \A u \in Threads \ {t} : link'[u] = link[u]
      /\ link'[t].state # "none" /\ link'[t].seen = s
  BY CommitStep, CommitMore
<1>2. l \in Seq(Todo) /\ l # <<>> /\ Head(l).thread = t /\ Head(l).seen = s /\ Seen(l)
  BY <1>1, RunFields DEF TodoLeft, This, Sync, TodoOld
<1>3. Rest(r) = l /\ Rest(r)' = Tail(l)
  BY <1>1 DEF Rest
<1>4. s \in Nat /\ s <= LastOf(t) /\ LastOf(t) \in Nat
  BY <1>2, HeadSent, LastIs DEF Sync
<1> HIDE DEF t, s, l
<1> SUFFICES ASSUME ~run[r].failed, run[r].over = 0
             PROVE  Ordered(UpToDate \cup Pending(r))' /\ Rising(Rest(r))'
  BY <1>1 DEF Holder, Round
<1>5. Ordered(UpToDate \cup Pending(r)) /\ Rising(l)
  BY <1>1, <1>3 DEF Holder, Round
<1>6. /\ Rising(Tail(l)) /\ link[t].seen <= s
      /\ \A i \in DOMAIN Tail(l) : Tail(l)[i].thread = t => s <= Tail(l)[i].seen
  BY <1>2, <1>5, RisingTail
<1>7. \A u : LastOf(u)' = LastOf(u)
  BY <1>1 DEF LastOf, Of, Newest
<1>8. \A u : u \in Pending(r) <=> u \in Threads /\ In(l, u, LastOf(u))
  BY <1>3 DEF Pending
<1>9. \A u : u \in Pending(r)' <=> u \in Threads /\ In(Tail(l), u, LastOf(u))
  BY <1>3, <1>7 DEF Pending, In
<1>10. \A u : In(l, u, LastOf(u)) <=> (t = u /\ s = LastOf(u)) \/ In(Tail(l), u, LastOf(u))
  BY <1>2, InHead
<1>11. UpToDate' \cup Pending(r)' = UpToDate \cup Pending(r)
  <2>1. ASSUME NEW u \in Threads \ {t}
        PROVE  u \in UpToDate' \cup Pending(r)' <=> u \in UpToDate \cup Pending(r)
    BY <1>1, <1>7, <1>8, <1>9, <1>10 DEF UpToDate
  <2>2. t \in UpToDate' \cup Pending(r)' <=> s = LastOf(t) \/ In(Tail(l), t, LastOf(t))
    BY <1>1, <1>7, <1>9 DEF UpToDate
  <2>3. t \in UpToDate => s = LastOf(t)
    BY <1>4, <1>6 DEF UpToDate
  <2>4. s = LastOf(t) \/ In(Tail(l), t, LastOf(t)) => t \in Pending(r)
    BY <1>1, <1>8, <1>10
  <2>5. t \in Pending(r) => s = LastOf(t) \/ In(Tail(l), t, LastOf(t))
    BY <1>8, <1>10
  <2>6. UpToDate' \cup Pending(r)' \subseteq Threads /\ UpToDate \cup Pending(r) \subseteq Threads
    BY DEF UpToDate, Pending
  <2> QED
    BY <2>1, <2>2, <2>3, <2>4, <2>5, <2>6
<1>12. Ordered(UpToDate \cup Pending(r))'
  <2>1. PICK S : S = UpToDate \cup Pending(r)
    OBVIOUS
  <2>2. Ordered(S)'
    BY <1>1, <1>5, <2>1, OrderedSame
  <2> QED
    BY <1>11, <2>1, <2>2 DEF Ordered
<1>13. Rising(Rest(r))'
  <2>0. Tail(l) \in Seq(Todo)
    BY <1>2
  <2>1. PICK z \in Seq(Todo) : z = Tail(l)
    BY <2>0
  <2>2. \A i \in DOMAIN z : z[i].thread \in Threads
    <3>1. \A i \in DOMAIN z : z[i] \in Todo
      OBVIOUS
    <3> QED
      BY <3>1 DEF Todo
  <2>3. \A i \in DOMAIN z : link'[z[i].thread].seen <= z[i].seen
    BY <1>1, <1>6, <2>1, <2>2 DEF Rising
  <2>4. Rising(z)'
    BY <1>6, <2>1, <2>3 DEF Rising
  <2> QED
    BY <1>3, <2>1, <2>4 DEF Rising
<1> QED
  BY <1>12, <1>13

\* What the beginning of a round changes.
LEMMA ReadIs ==
  ASSUME Shape, NEW r \in Runs, Read(r)
  PROVE  /\ run[r].pc = "read" /\ run'[r].pc = "list" /\ run'[r].known = link /\ run'[r].page = 1
         /\ run'[r].todo = <<>> /\ run'[r].full = WholeList(r)
<1> USE ShapeIs
<1>1. run' = [run EXCEPT ![r] = [Idle EXCEPT !.pc = "list", !.known = link, !.last = run[r].last,
                                             !.applied = run[r].applied, !.full = WholeList(r)]]
  BY DEF Read, Set
<1> DEFINE w == WholeList(r)
<1>2. run'[r] = [Idle EXCEPT !.pc = "list", !.known = link, !.last = run[r].last,
                             !.applied = run[r].applied, !.full = w]
  BY <1>1 DEF RunTyped
<1> HIDE DEF w
<1>3. run'[r].pc = "list" /\ run'[r].known = link /\ run'[r].page = 1 /\ run'[r].todo = <<>>
  BY <1>2 DEF Idle
<1>4. run'[r].full = w
  BY <1>2 DEF Idle
<1> QED
  BY <1>3, <1>4 DEF Read, w

\* What the end of a walk changes.
LEMMA ListingIs ==
  ASSUME Shape, NEW r \in Runs, Listing(r)
  PROVE  /\ run[r].pc = "list" /\ run'[r].pc = "next" /\ run'[r].known = run[r].known
         /\ \A t \in OnPage(run[r].page) : ~run[r].full /\ ~Changed(r, t)
         /\ run'[r].over = 0 => run'[r].todo = run[r].todo
<1> USE ShapeIs
<1> DEFINE l == run[r].todo
           n == Len(l)
           m == IF n > PerRound THEN PerRound ELSE n
           o == Over(n)
<1>1. run' = [run EXCEPT ![r] = [run[r] EXCEPT !.pc = "next", !.over = o, !.todo = SubSeq(l, 1, m)]]
  BY DEF Listing, Set
<1>2. l \in Seq(Todo) /\ n \in Nat /\ SubSeq(l, 1, n) = l
  BY RunFields
<1>3. o = 0 => m = n
  BY <1>2, RemoteSyncAssumption DEF Over
<1> HIDE DEF l, m, o, n
<1>4. run'[r] = [run[r] EXCEPT !.pc = "next", !.over = o, !.todo = SubSeq(l, 1, m)]
  BY <1>1 DEF RunTyped
<1>5. run[r] \in RunStates
  BY RunFields
<1>6. run'[r].pc = "next" /\ run'[r].known = run[r].known /\ run'[r].over = o /\ run'[r].todo = SubSeq(l, 1, m)
  BY <1>4, <1>5 DEF RunStates
<1>7. run'[r].over = 0 => run'[r].todo = run[r].todo
  BY <1>2, <1>3, <1>6 DEF l
<1> QED
  BY <1>6, <1>7 DEF Listing

\* What the end of a round changes.
LEMMA RoundOverIs ==
  ASSUME Shape, NEW r \in Runs, RoundOver(r)
  PROVE  /\ run[r].pc = "next" /\ run[r].todo = <<>> /\ run'[r].pc \in {"read", "error", "ok"}
         /\ run'[r].pc = "ok" => ~run[r].failed /\ run'[r].over = run[r].over
<1> USE ShapeIs
<1>1. run[r] \in RunStates
  BY RunFields
<1>2. run[r].pc = "next" /\ run[r].todo = <<>>
  BY DEF RoundOver
<1>3. CASE run' = [run EXCEPT ![r] = [run[r] EXCEPT !.pc = "read", !.last = run[r].over + 1]]
  <2>1. run'[r] = [run[r] EXCEPT !.pc = "read", !.last = run[r].over + 1]
    BY <1>3 DEF RunTyped
  <2>2. run'[r].pc = "read"
    BY <1>1, <2>1 DEF RunStates
  <2> QED
    BY <1>2, <2>2
<1>4. CASE run' = [run EXCEPT ![r] = [run[r] EXCEPT !.pc = IF run[r].failed THEN "error" ELSE "ok"]]
  <2>1. run'[r] = [run[r] EXCEPT !.pc = IF run[r].failed THEN "error" ELSE "ok"]
    BY <1>4 DEF RunTyped
  <2>2. run'[r].pc = (IF run[r].failed THEN "error" ELSE "ok")
    BY <1>1, <2>1 DEF RunStates
  <2>3. run'[r].over = run[r].over
    BY <1>1, <2>1 DEF RunStates
  <2> QED
    BY <1>2, <2>2, <2>3
<1> QED
  BY <1>3, <1>4 DEF RoundOver, Set

\* A page holds the thread of that place.
LEMMA OnPageIs ==
  ASSUME NEW p
  PROVE  OnPage(p) = {t \in Listed : Rank(t) = p}
BY DEF OnPage, Rank, Above

\* A round begins at the first page, and stops early only if the links are in order.
LEMMA HolderRead ==
  ASSUME Shape, RunsFine, HolderInv, Sole, NEW r \in Runs, lease = r, Steady(r), Read(r)
  PROVE  Holder(r)'
<1> USE ShapeIs
<1>0. Nobody \notin Runs
  BY RemoteSyncAssumption
<1>1. /\ run[r].pc = "read" /\ run'[r].pc = "list" /\ run'[r].known = link /\ run'[r].page = 1
      /\ run'[r].todo = <<>> /\ run'[r].full = WholeList(r) /\ link' = link
      /\ posts' = posts /\ deleted' = deleted
  BY ReadIs DEF Steady
<1>2. \A u : LastOf(u)' = LastOf(u)
  BY <1>1 DEF LastOf, Of, Newest
<1>3. Listed' = Listed
  BY <1>1 DEF Listed, Of
<1>4. \A u \in Listed : Rank(u) \in Nat /\ Rank(u) >= 1
  BY RankIs
<1>5. \A u : Rank(u)' = Rank(u)
  BY <1>2, <1>3 DEF Rank, Above
<1>6. \A u \in Listed' : Rank(u)' >= run'[r].page
  BY <1>1, <1>3, <1>4, <1>5
<1>7. Walked(Unchanged(r) \cup Pending(r), run[r].page)'
  BY <1>6 DEF Walked
<1>8. Rest(r)' = <<>>
  BY <1>1 DEF Rest
<1>9. Rising(Rest(r))'
  <2>1. DOMAIN <<>> = {}
    OBVIOUS
  <2> QED
    BY <1>8, <2>1 DEF Rising
<1>10. ASSUME ~run'[r].full PROVE Ordered(Unchanged(r))'
  <2>1. ~account.fresh /\ ~account.behind /\ run[r].last = 0
    BY <1>1, <1>10 DEF WholeList
  <2>2. ~run[r].applied
    BY <1>1, <2>1 DEF RunsFine, Fine
  <2>3. Ordered(UpToDate)
    BY <2>1, <2>2 DEF HolderInv, Settled
  <2>4. Unchanged(r)' = UpToDate
    BY <1>1, <1>2 DEF Unchanged, Changed, UpToDate
  <2>5. PICK S : S = UpToDate
    OBVIOUS
  <2>6. Ordered(S)'
    BY <1>1, <2>3, <2>5, OrderedSame
  <2> QED
    BY <2>4, <2>5, <2>6 DEF Ordered
<1> QED
  BY <1>1, <1>7, <1>9, <1>10 DEF Holder, Round

\* A page further on: the thread on it is unchanged or left to do, and every other one
\* of the list has its place before it or after it.
LEMMA HolderList ==
  ASSUME Shape, Sync, LinkOld, NEW r \in Runs, Holder(r), Steady(r), List(r)
  PROVE  Holder(r)'
<1> USE ShapeIs
<1>1. /\ run[r].pc = "list" /\ run'[r].pc = "list" /\ run'[r].known = run[r].known
      /\ run'[r].full = run[r].full /\ run'[r].page = run[r].page + 1
      /\ link' = link /\ posts' = posts /\ deleted' = deleted
  BY ListStep DEF Steady
<1>2. PICK t \in OnPage(run[r].page) :
        run'[r].todo = IF Changed(r, t) THEN Append(run[r].todo, Entry(t)) ELSE run[r].todo
  BY ListStep
<1> DEFINE l == run[r].todo
           p == run[r].page
<1>3. t \in Listed /\ t \in Threads /\ Rank(t) = p /\ p \in Nat
  BY <1>2, OnPageIs, MoreFields DEF Listed
<1>4. l \in Seq(Todo) /\ Seen(l)
  BY RunFields DEF Sync, TodoOld
<1>5. /\ link = run[r].known /\ Walked(Unchanged(r) \cup Pending(r), p) /\ Rising(l)
      /\ ~run[r].full => Ordered(Unchanged(r))
  BY <1>1 DEF Holder, Rest
<1>6. \A u : LastOf(u)' = LastOf(u)
  BY <1>1 DEF LastOf, Of, Newest
<1>7. Listed' = Listed /\ \A u : Rank(u)' = Rank(u)
  <2>1. Listed' = Listed
    BY <1>1 DEF Listed, Of
  <2> QED
    BY <1>6, <2>1 DEF Rank, Above
<1>8. Unchanged(r)' = Unchanged(r)
  BY <1>1, <1>6 DEF Unchanged, Changed
<1>9. Rest(r) = l /\ Rest(r)' = run'[r].todo
  BY <1>1 DEF Rest
<1>10. \A u : u \in Pending(r) <=> u \in Threads /\ In(l, u, LastOf(u))
  BY <1>9 DEF Pending
<1>11. \A u : u \in Pending(r)' <=> u \in Threads /\ In(run'[r].todo, u, LastOf(u))
  BY <1>6, <1>9 DEF Pending, In
<1> HIDE DEF l, p
<1>12. /\ Entry(t) \in Todo /\ Entry(t).thread = t /\ Entry(t).seen = LastOf(t)
  BY <1>3, OfTyped DEF Entry, Todo
<1>13. Unchanged(r)' \cup Pending(r)' = Unchanged(r) \cup Pending(r) \cup {t}
  <2>1. CASE Changed(r, t)
    <3>1. run'[r].todo = Append(l, Entry(t))
      BY <1>2, <2>1 DEF l
    <3>2. \A u : In(run'[r].todo, u, LastOf(u)) <=> In(l, u, LastOf(u)) \/ u = t
      BY <1>4, <1>12, <3>1, InAppend
    <3>3. Pending(r)' = Pending(r) \cup {t}
      BY <1>3, <1>10, <1>11, <3>2
    <3> QED
      BY <1>8, <3>3
  <2>2. CASE ~Changed(r, t)
    <3>1. run'[r].todo = l
      BY <1>2, <2>2 DEF l
    <3>2. Pending(r)' = Pending(r)
      BY <1>10, <1>11, <3>1
    <3>3. t \in Unchanged(r)
      BY <1>3, <2>2 DEF Unchanged
    <3> QED
      BY <1>8, <3>2, <3>3
  <2> QED
    BY <2>1, <2>2
<1>14. Walked(Unchanged(r) \cup Pending(r), run[r].page)'
  <2>1. PICK S : S = Unchanged(r) \cup Pending(r)
    OBVIOUS
  <2>2. ASSUME NEW x \in Listed, x \notin S, x # t, NEW u \in Listed, u \in S \cup {t}
        PROVE  LastOf(x) > LastOf(u) \/ Rank(x) >= p + 1
    <3>0. Rank(x) \in Nat /\ LastOf(x) \in Nat /\ LastOf(t) \in Nat
      BY <2>2, RankIs, LastIs
    <3>1. CASE u \in S
      <4>1. LastOf(x) > LastOf(u) \/ Rank(x) >= p
        BY <1>5, <2>1, <2>2, <3>1 DEF Walked
      <4>2. Rank(x) # p
        BY <1>3, <2>2, RankIs
      <4> QED
        BY <1>3, <3>0, <4>1, <4>2
    <3>2. CASE u = t
      <4>1. LastOf(x) # LastOf(t)
        BY <1>3, <2>2, LastOne
      <4>2. LastOf(x) < LastOf(t) => Rank(t) < Rank(x)
        BY <1>3, <2>2, RankIs
      <4> QED
        BY <1>3, <3>0, <3>2, <4>1, <4>2
    <3> QED
      BY <2>2, <3>1, <3>2
  <2>3. Unchanged(r)' \cup Pending(r)' = S \cup {t}
    BY <1>13, <2>1
  <2>4. run'[r].page = p + 1
    BY <1>1 DEF p
  <2> QED
    BY <1>6, <1>7, <2>2, <2>3, <2>4 DEF Walked
<1>15. Rising(Rest(r))'
  <2>1. Rising(run'[r].todo)
    <3>1. CASE Changed(r, t)
      BY <1>2, <1>3, <1>4, <1>5, <3>1, RisingAppend DEF l
    <3>2. CASE ~Changed(r, t)
      BY <1>2, <1>5, <3>2 DEF l
    <3> QED
      BY <3>1, <3>2
  <2>2. PICK z : z = run'[r].todo
    OBVIOUS
  <2> QED
    BY <1>1, <1>9, <2>1, <2>2 DEF Rising
<1>16. ~run'[r].full => Ordered(Unchanged(r))'
  <2>1. PICK S : S = Unchanged(r)
    OBVIOUS
  <2>2. Ordered(S) => Ordered(S)'
    BY <1>1, OrderedSame
  <2> QED
    BY <1>1, <1>5, <1>8, <2>1, <2>2 DEF Ordered
<1> QED
  BY <1>1, <1>5, <1>14, <1>15, <1>16 DEF Holder, Round

\* The walk is over: what the first unchanged page hides is unchanged.
LEMMA HolderListing ==
  ASSUME Shape, RunsFine, NEW r \in Runs, Holder(r), Steady(r), Listing(r)
  PROVE  Holder(r)'
<1> USE ShapeIs
<1>1. /\ run[r].pc = "list" /\ run'[r].pc = "next" /\ run'[r].known = run[r].known
      /\ \A t \in OnPage(run[r].page) : ~run[r].full /\ ~Changed(r, t)
      /\ run'[r].over = 0 => run'[r].todo = run[r].todo
      /\ link' = link /\ posts' = posts /\ deleted' = deleted
  BY ListingIs DEF Steady
<1>2. /\ link = run[r].known /\ Walked(Unchanged(r) \cup Pending(r), run[r].page) /\ Rising(run[r].todo)
      /\ ~run[r].full => Ordered(Unchanged(r))
  BY <1>1 DEF Holder, Rest
<1> SUFFICES ASSUME run'[r].over = 0
             PROVE  Ordered(UpToDate \cup Pending(r))' /\ Rising(Rest(r))'
  BY <1>1 DEF Holder, Round
<1>3. Rest(r) = run[r].todo /\ Rest(r)' = run[r].todo
  BY <1>1 DEF Rest
<1>4. \A u : LastOf(u)' = LastOf(u)
  BY <1>1 DEF LastOf, Of, Newest
<1>5. Pending(r)' = Pending(r)
  BY <1>3, <1>4 DEF Pending, In
<1>6. UpToDate' = Unchanged(r)
  BY <1>1, <1>2, <1>4 DEF UpToDate, Unchanged, Changed
<1>7. PICK S : S = Unchanged(r) \cup Pending(r)
  OBVIOUS
<1>8. Ordered(S)
  <2> SUFFICES ASSUME NEW x \in Listed, x \notin S, NEW u \in Listed, u \in S
               PROVE  LastOf(x) > LastOf(u)
    BY DEF Ordered
  <2>1. LastOf(x) > LastOf(u) \/ Rank(x) >= run[r].page
    BY <1>2, <1>7 DEF Walked
  <2>2. ASSUME Rank(x) >= run[r].page PROVE FALSE
    <3>1. run[r].page \in Nat /\ run[r].page >= 1 /\ Rank(x) \in Nat
      BY <1>1, <2>2, RankIs, MoreFields DEF RunsFine, Fine
    <3>2. PICK y \in Listed : Rank(y) = run[r].page
      BY <2>2, <3>1, RankFills
    <3>3. ~run[r].full /\ ~Changed(r, y)
      BY <1>1, <3>2, OnPageIs
    <3>4. y \in Unchanged(r) /\ x \notin Unchanged(r)
      BY <1>7, <3>2, <3>3 DEF Unchanged, Listed
    <3>5. LastOf(x) > LastOf(y)
      BY <1>2, <3>2, <3>3, <3>4 DEF Ordered
    <3>6. LastOf(x) \in Nat /\ LastOf(y) \in Nat
      BY LastIs
    <3>7. Rank(x) < Rank(y)
      BY <3>2, <3>5, <3>6, RankIs
    <3> QED
      BY <2>2, <3>1, <3>2, <3>7
  <2> QED
    BY <2>1, <2>2
<1>9. Ordered(S)'
  BY <1>1, <1>8, OrderedSame
<1>10. Ordered(UpToDate \cup Pending(r))'
  BY <1>5, <1>6, <1>7, <1>9 DEF Ordered
<1>11. Rising(Rest(r))'
  BY <1>1, <1>2, <1>3 DEF Rising
<1> QED
  BY <1>10, <1>11

\* A step that goes on with a thread leaves the order as it was.
LEMMA HolderProceeds ==
  ASSUME NEW r \in Runs, Holder(r), Steady(r), Proceeds(r)
  PROVE  Holder(r)'
<1>1. /\ run[r].pc \in Round /\ run'[r].pc \in Round
      /\ run'[r].failed = run[r].failed /\ run'[r].over = run[r].over /\ Rest(r)' = Rest(r)
      /\ link' = link /\ posts' = posts /\ deleted' = deleted
  BY DEF Proceeds, Steady
<1> SUFFICES ASSUME ~run[r].failed, run[r].over = 0
             PROVE  Ordered(UpToDate \cup Pending(r))' /\ Rising(Rest(r))'
  BY <1>1 DEF Holder, Round
<1>2. Ordered(UpToDate \cup Pending(r)) /\ Rising(Rest(r))
  BY <1>1 DEF Holder
<1>3. \A u : LastOf(u)' = LastOf(u)
  BY <1>1 DEF LastOf, Of, Newest
<1>4. Pending(r)' = Pending(r) /\ UpToDate' = UpToDate
  BY <1>1, <1>3 DEF Pending, In, UpToDate
<1>5. PICK S : S = UpToDate \cup Pending(r)
  OBVIOUS
<1>6. Ordered(S)'
  BY <1>1, <1>2, <1>5, OrderedSame
<1>7. Ordered(UpToDate \cup Pending(r))'
  BY <1>4, <1>5, <1>6 DEF Ordered
<1>8. Rising(Rest(r))'
  BY <1>1, <1>2 DEF Rising
<1> QED
  BY <1>7, <1>8

\* A thread that is gone is not in the list, and so it may be left out.
LEMMA HolderSkips ==
  ASSUME Shape, NEW r \in Runs, Holder(r), Steady(r), Skips(r)
  PROVE  Holder(r)'
<1> USE ShapeIs
<1>1. /\ run[r].pc = "next" /\ run'[r].pc = "extend" /\ run[r].todo # <<>> /\ This(r).thread \in deleted
      /\ run'[r].failed = run[r].failed /\ run'[r].over = run[r].over /\ run'[r].todo = run[r].todo
      /\ link' = link /\ posts' = posts /\ deleted' = deleted
  BY DEF Skips, Steady
<1> SUFFICES ASSUME ~run[r].failed, run[r].over = 0
             PROVE  Ordered(UpToDate \cup Pending(r))' /\ Rising(Rest(r))'
  BY <1>1 DEF Holder, Round
<1> DEFINE l == run[r].todo
<1>2. Rest(r) = l /\ Rest(r)' = Tail(l) /\ l \in Seq(Todo) /\ l # <<>> /\ Head(l).thread \in deleted
  BY <1>1, RunFields DEF Rest, This
<1> HIDE DEF l
<1>3. Ordered(UpToDate \cup Pending(r)) /\ Rising(l)
  BY <1>1, <1>2 DEF Holder, Round
<1>4. \A u : LastOf(u)' = LastOf(u)
  BY <1>1 DEF LastOf, Of, Newest
<1>5. UpToDate' = UpToDate
  BY <1>1, <1>4 DEF UpToDate
<1>6. \A u : u \in Pending(r) <=> u \in Threads /\ In(l, u, LastOf(u))
  BY <1>2 DEF Pending
<1>7. \A u : u \in Pending(r)' <=> u \in Threads /\ In(Tail(l), u, LastOf(u))
  BY <1>2, <1>4 DEF Pending, In
<1>8. \A u \in Listed : u \in Pending(r)' <=> u \in Pending(r)
  <2>1. \A u \in Listed : u # Head(l).thread
    BY <1>2 DEF Listed
  <2>2. \A u : In(l, u, LastOf(u)) <=> (Head(l).thread = u /\ Head(l).seen = LastOf(u)) \/ In(Tail(l), u, LastOf(u))
    BY <1>2, InHead
  <2> QED
    BY <1>6, <1>7, <2>1, <2>2
<1>9. Listed' = Listed
  BY <1>1 DEF Listed, Of
<1>10. Ordered(UpToDate \cup Pending(r))'
  BY <1>3, <1>4, <1>5, <1>8, <1>9 DEF Ordered
<1>11. Rising(Rest(r))'
  <2>1. Rising(Tail(l))
    BY <1>2, <1>3, RisingTail
  <2> QED
    BY <1>1, <1>2, <2>1 DEF Rising
<1> QED
  BY <1>10, <1>11

\* A round that is over has nothing left to do: the links alone are in order.
LEMMA HolderRoundOver ==
  ASSUME Shape, NEW r \in Runs, Holder(r), Steady(r), RoundOver(r)
  PROVE  Holder(r)'
<1>1. /\ run[r].pc = "next" /\ run[r].todo = <<>> /\ run'[r].pc \in {"read", "error", "ok"}
      /\ run'[r].pc = "ok" => ~run[r].failed /\ run'[r].over = run[r].over
      /\ link' = link /\ posts' = posts /\ deleted' = deleted
  BY RoundOverIs DEF Steady
<1>2. ASSUME run'[r].pc = "ok", run'[r].over = 0 PROVE Ordered(UpToDate)'
  <2>1. Ordered(UpToDate \cup Pending(r))
    BY <1>1, <1>2 DEF Holder, Round
  <2>2. Pending(r) = {}
    <3>1. DOMAIN <<>> = {} /\ Rest(r) = <<>>
      BY <1>1 DEF Rest
    <3> QED
      BY <3>1 DEF Pending, In
  <2>3. \A u : LastOf(u)' = LastOf(u)
    BY <1>1 DEF LastOf, Of, Newest
  <2>4. UpToDate' = UpToDate
    BY <1>1, <2>3 DEF UpToDate
  <2>5. PICK S : S = UpToDate \cup Pending(r)
    OBVIOUS
  <2>6. Ordered(S)' /\ S = UpToDate
    BY <1>1, <2>1, <2>2, <2>5, OrderedSame
  <2> QED
    BY <2>4, <2>6 DEF Ordered
<1> QED
  BY <1>1, <1>2 DEF Holder, Round

\* A step of the holder that writes nothing keeps it as it should be.
LEMMA HolderWalk ==
  ASSUME Shape, Sync, LinkOld, RunsFine, HolderInv, Sole, NEW r \in Runs, lease = r, Walks(r)
  PROVE  Holder(r)'
<1>1. Holder(r)
  BY DEF HolderInv
<1>2. CASE Breaks(r)
  BY <1>2 DEF Breaks, Holder
<1> QED
  BY <1>1, <1>2, HolderRead, HolderList, HolderListing, HolderProceeds, HolderSkips, HolderRoundOver DEF Walks

\* Whoever holds the lease after a step is as it should be.
LEMMA StepHeld ==
  ASSUME Shape, Sync, LinkOld, KnownSeenOld, RunsFine, OffIsFree, HolderInv, [Next]_vars, Sole',
         NEW r \in Runs, lease' = r
  PROVE  Holder(r)'
<1> USE ShapeIs
<1>0. Nobody \notin Runs /\ Sole /\ ~cut' /\ \A q \in Runs : run'[q].applied => q = r
  BY SoleStep, RemoteSyncAssumption DEF Sole
<1>00. lease = r => Holder(r)
  BY <1>0 DEF HolderInv
<1>1. ASSUME NEW q \in Runs, Start(q) PROVE Holder(r)'
  <2>1. run'[r].pc = "read"
    BY <1>1, StartIs
  <2> QED
    BY <2>1 DEF Holder, Round
<1>2. ASSUME NEW q \in Runs, Record(q) PROVE FALSE
  BY <1>0, <1>2, RecordIs
<1>3. ASSUME NEW q \in Runs, Commit(q) PROVE Holder(r)'
  <2>1. q = r /\ lease = r
    BY <1>0, <1>3, CommitMore
  <2> QED
    BY <1>00, <1>3, <2>1, HolderCommit
<1>4. ASSUME NEW q \in Runs, Gone(q) PROVE Holder(r)'
  <2>1. lease = r /\ UNCHANGED <<posts, deleted, link>>
    BY <1>0, <1>4 DEF Gone, RowTyped
  <2>2. CASE q = r
    <3>1. run'[r].pc = "idle"
      BY <1>4, <2>2, IdleIs DEF Gone
    <3> QED
      BY <3>1 DEF Holder, Round
  <2>3. CASE q # r
    <3>1. run'[r] = run[r]
      BY <1>4, <2>3 DEF Gone, SameBut
    <3> QED
      BY <1>00, <2>1, <3>1, HolderFrame
  <2> QED
    BY <2>2, <2>3
<1>5. ASSUME NEW q \in Runs, Walks(q) PROVE Holder(r)'
  <2>1. lease = r /\ UNCHANGED <<posts, deleted, link>>
    BY <1>5 DEF Walks, Steady
  <2>2. CASE q = r
    BY <1>0, <1>5, <2>1, <2>2, HolderWalk
  <2>3. CASE q # r
    <3>1. run'[r] = run[r]
      BY <1>5, <2>3 DEF Walks, Steady, SameBut
    <3> QED
      BY <1>00, <2>1, <3>1, HolderFrame
  <2> QED
    BY <2>2, <2>3
<1>6. ASSUME NEW z \in Threads, Post(z) PROVE Holder(r)'
  <2>1. lease = r /\ link' = link /\ run' = run
    BY <1>6 DEF Post, row, local
  <2> QED
    BY <1>00, <1>6, <2>1, HolderFrame
<1>7. ASSUME NEW z \in Threads, RemoteDelete(z) PROVE Holder(r)'
  <2>1. lease = r /\ link' = link /\ run' = run /\ posts' = posts /\ deleted \subseteq deleted'
    BY <1>7 DEF RemoteDelete, row, local
  <2>2. run[r].pc # "list"
    BY <1>0, <1>7 DEF RemoteDelete
  <2> QED
    BY <1>00, <2>1, <2>2, HolderFrame
<1>8. ~Stop
  BY DEF Stop, NewAccount, Sole
<1>9. ASSUME Save \/ UNCHANGED <<posts, deleted, account, lease, link, run, cut>> PROVE Holder(r)'
  <2>1. UNCHANGED <<posts, deleted, lease, link, run>>
    BY <1>9 DEF Save, remote, local
  <2> QED
    BY <1>00, <2>1, HolderFrame
<1> QED
  BY <1>1, <1>2, <1>3, <1>4, <1>5, <1>6, <1>7, <1>8, <1>9, Kinds

\* Every step keeps Early.
LEMMA StepEarly ==
  ASSUME Shape, Sync, Early, [Next]_vars
  PROVE  Early'
<1>1. Early => LinkOld /\ KnownSeenOld /\ RunsFine /\ OffIsFree /\ HolderInv
  BY DEF Early
<1>2. TodoOld
  BY DEF Sync
<1>3. LinkOld'
  BY <1>1, <1>2, StepLinkOld
<1>4. KnownSeenOld'
  BY <1>1, StepKnownSeenOld, ShapeIs
<1>5. RunsFine'
  BY <1>1, StepRunsFine, ShapeIs
<1>6. OffIsFree'
  BY <1>1, StepOffIsFree
<1>7. HolderInv'
  <2>1. Sole' /\ Settled' => Ordered(UpToDate)'
    BY <1>1, StepSettled
  <2>2. ASSUME Sole', NEW r \in Runs, lease' = r PROVE Holder(r)'
    BY <1>1, <2>2, StepHeld
  <2> QED
    BY <2>1, <2>2 DEF HolderInv
<1> QED
  BY <1>3, <1>4, <1>5, <1>6, <1>7 DEF Early

\* Early holds to begin with: the first walk is a full one.
LEMMA InitEarly ==
  ASSUME Init, Shape
  PROVE  Early
<1>1. \A t : LastOf(t) \in Nat
  BY ShapeIs, LastIs
<1>2. LinkOld
  BY <1>1 DEF Init, LinkOld, NoLink
<1>3. \A r \in Runs : run[r] = Idle
  BY DEF Init
<1>4. KnownSeenOld
  BY <1>1, <1>3, IdleIs DEF KnownSeenOld, NoLink
<1>5. RunsFine
  BY <1>3, IdleIs DEF RunsFine, Fine
<1>6. account.on /\ account.fresh /\ lease = Nobody
  BY DEF Init, NewAccount
<1>7. OffIsFree /\ HolderInv
  BY <1>6, RemoteSyncAssumption DEF OffIsFree, HolderInv, Settled
<1> QED
  BY <1>2, <1>4, <1>5, <1>7 DEF Early

\* While no run is alive, everything that has changed is newer than everything that
\* has not, unless a run was cut short or the next walk is a full one: the walk that
\* stops at the first page without a change misses none.
THEOREM EarlyStopIsSafeAlways == Spec => []EarlyStopIsSafe
<1>1. Init => Early
  BY InitShape, InitEarly
<1>2. Shape /\ Sync /\ Early /\ [Next]_vars => Early'
  BY StepEarly
<1>3. Shape /\ Early => EarlyStopIsSafe
  <2> SUFFICES ASSUME Shape, Early, \A r \in Runs : run[r] = Idle,
                      account.on, ~account.fresh, ~account.behind, ~cut,
                      NEW t \in Listed, NEW u \in Listed,
                      link[t].state = "none" \/ link[t].seen # LastOf(t),
                      link[u].state # "none" /\ link[u].seen = LastOf(u)
               PROVE  LastOf(t) > LastOf(u)
    BY DEF EarlyStopIsSafe
  <2>1. \A r \in Runs : ~run[r].applied
    BY IdleIs
  <2>2. lease \in Runs \cup {Nobody}
    BY ShapeIs DEF RowTyped
  <2>3. Sole /\ Settled
    BY <2>1, <2>2 DEF Sole, Settled
  <2>4. Ordered(UpToDate)
    BY <2>3 DEF Early, HolderInv
  <2>5. t \notin UpToDate /\ u \in UpToDate
    BY DEF UpToDate, Listed
  <2> QED
    BY <2>4, <2>5 DEF Ordered
<1> QED
  BY <1>1, <1>2, <1>3, SyncAlways, PTL DEF Spec

==============================================================================

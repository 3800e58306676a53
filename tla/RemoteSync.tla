----------------------------- MODULE RemoteSync -----------------------------
(***************************************************************************)
(* One account's remote memory sync: runs that copy another server's       *)
(* threads into this one.  A run claims the account's lease, lists the     *)
(* remote threads, newest activity first, and brings the changed ones over *)
(* one transaction at a time, while both sides go on writing and other     *)
(* runs may take its lease over.                                           *)
(*                                                                         *)
(* A remote message is its place in the order they were sent; a page of    *)
(* the remote list holds one thread.  Archived threads (a second list,     *)
(* walked the same way), names, personas and summaries are left out, and   *)
(* so are remote messages that commit late, which the pull's overlap is    *)
(* for.  Pausing the sync leaves its runs and links as they are.           *)
(***************************************************************************)
EXTENDS Naturals, Sequences, FiniteSets

CONSTANTS
  Threads,   \* remote threads
  Runs,      \* bound: sync runs alive at once
  Nobody,    \* no run
  Before,    \* the remote messages sent before the sync is set up: a sequence of threads
  Imported,  \* the threads an account import already brought here, with those messages
  PerRound,  \* MaxThreadsPerRun
  Posts,     \* bound: remote messages
  Trouble    \* bound: faults, stalls, local messages, deletions and stops

ASSUME RemoteSyncAssumption ==
  /\ Nobody \notin Runs
  /\ Before \in Seq(Threads) /\ Len(Before) <= Posts
  /\ Imported \subseteq {Before[n] : n \in DOMAIN Before}
  /\ PerRound \in Nat \ {0} /\ Posts \in Nat /\ Trouble \in Nat

VARIABLES
  posts,    \* the thread of each remote message, in the order they were sent
  deleted,  \* remote threads that are gone
  account,  \* the remote_sync row: on (it exists), fresh (no success yet), behind (the
            \* last run deferred threads) and attention (needs_attention)
  lease,    \* lease_id of the row
  expired,  \* lease_until has passed
  link,     \* each thread's link: state, seen (remote_last_message_time), head
  copy,     \* each thread's local copies, oldest first; the newest has the import hash
            \* and is the one a link tracks
  run,      \* the runs
  left,     \* what is left of Trouble
  crossed,  \* history: the threads whose copy or link changed under a transaction, or
            \* whose sync was stopped under a run
  cut       \* history: a run that had written some threads ended short of the others,
            \* or a thread left the list while it was walked

remote == <<posts, deleted>>
row == <<account, lease, expired>>
local == <<link, copy>>
vars == <<remote, row, local, run, left, crossed, cut>>

NoLink == [state |-> "none", seen |-> 0, head |-> 0]
NoPlan == [kind |-> "none", new |-> FALSE, at |-> 0, adds |-> {}, base |-> {}]
NewAccount == [on |-> TRUE, fresh |-> TRUE, behind |-> FALSE, attention |-> FALSE]

\* A run: the label it is at, the links it read, whether it walks the whole list and
\* the page it is at, the changed threads it found with their last messages as
\* listed, the messages it pulled, what its transaction will write, the threads its
\* round deferred and those of the round before (plus one; 0 in a first round),
\* whether a thread failed in its round, and whether it wrote one at all.
Idle == [pc |-> "idle", known |-> [t \in Threads |-> NoLink], full |-> FALSE, page |-> 1,
         todo |-> <<>>, batch |-> {}, plan |-> NoPlan, over |-> 0, last |-> 0,
         failed |-> FALSE, applied |-> FALSE]
Working == {"read", "list", "next", "look", "commit", "extend"}

\* The messages of a thread, and the last of a set.
Of(t) == {n \in DOMAIN posts : posts[n] = t}
Newest(S) == IF S = {} THEN 0 ELSE CHOOSE n \in S : \A m \in S : m <= n
LastOf(t) == Newest(Of(t))

\* The remote list: threads with messages, newest activity first.
Listed == {t \in Threads \ deleted : Of(t) # {}}
OnPage(p) == {t \in Listed : Cardinality({u \in Listed : LastOf(u) >= LastOf(t)}) = p}

\* A copy: the remote messages in it, those that were there when somebody first wrote
\* in it here, whether somebody did, and whether it still exists.
Mirror(m) == [msgs |-> m, base |-> {}, tail |-> FALSE, alive |-> TRUE]
Copy(t) == copy[t][Len(copy[t])]
Held(t) == copy[t] # <<>> /\ Copy(t).alive

Init ==
  /\ posts = Before /\ deleted = {}
  /\ account = NewAccount
  /\ lease = Nobody /\ expired = FALSE
  /\ link = [t \in Threads |-> NoLink]
  /\ copy = [t \in Threads |-> IF t \in Imported THEN <<Mirror(Of(t))>> ELSE <<>>]
  /\ run = [r \in Runs |-> Idle]
  /\ left = Trouble
  /\ crossed = {} /\ cut = FALSE

Spend == left > 0 /\ left' = left - 1
Set(r, x) == run' = [run EXCEPT ![r] = x]
This(r) == Head(run[r].todo)

\* The threads of the transactions that have read and not written.
Open == {This(r).thread : r \in {q \in Runs : run[q].pc = "commit"}}

-----------------------------------------------------------------------------
(* A run, from its claim to the threads it is to bring over.                *)

\* A wake or the timer starts a run unless the owner has to act first; "sync now"
\* always does.
Due == account.on /\ ~account.attention

\* A run claims the lease; a dead run's once it expired.
Start(r) ==
  /\ run[r] = Idle /\ r = CHOOSE q \in Runs : run[q] = Idle
  /\ account.on
  /\ lease = Nobody \/ expired
  /\ lease' = r /\ expired' = FALSE
  /\ Set(r, [Idle EXCEPT !.pc = "read"])
  /\ UNCHANGED <<remote, account, local, left, crossed, cut>>

\* Mutant: the follow-up rounds stop early too.
WholeListFirst(r) == account.fresh \/ account.behind

\* Mutant: what a run deferred is forgotten.
WholeListOnce(r) == account.fresh \/ run[r].last # 0

\* The walk goes through the whole list until a run succeeds, after one that deferred
\* threads, and in a follow-up round.
WholeList(r) == account.fresh \/ account.behind \/ run[r].last # 0

\* A round reads the account and the links.
Read(r) ==
  /\ run[r].pc = "read" /\ account.on
  /\ Set(r, [Idle EXCEPT !.pc = "list", !.known = link, !.last = run[r].last, !.applied = run[r].applied,
                         !.full = WholeList(r)])
  /\ UNCHANGED <<remote, row, local, left, crossed, cut>>

Changed(r, t) == run[r].known[t].state = "none" \/ run[r].known[t].seen # LastOf(t)

\* A page: the walk notes what changed on it and goes on, unless nothing did and the
\* walk is incremental.
List(r) ==
  /\ run[r].pc = "list"
  /\ \E t \in OnPage(run[r].page) :
       /\ run[r].full \/ Changed(r, t)
       /\ Set(r, [run[r] EXCEPT !.page = @ + 1,
                                !.todo = IF Changed(r, t) THEN Append(@, [thread |-> t, seen |-> LastOf(t)])
                                                          ELSE @])
  /\ UNCHANGED <<remote, row, local, left, crossed, cut>>

\* Mutant: the deferred threads are counted against the bound.
OverBound(n) == n - PerRound

\* How many of n changed threads a round defers.
Over(n) == IF n > PerRound THEN n - PerRound ELSE 0

\* The walk is over: the round takes the first threads and defers the others.
Listing(r) ==
  /\ run[r].pc = "list"
  /\ \A t \in OnPage(run[r].page) : ~run[r].full /\ ~Changed(r, t)
  /\ LET n == Len(run[r].todo)
     IN Set(r, [run[r] EXCEPT !.pc = "next", !.over = Over(n),
                              !.todo = SubSeq(@, 1, IF n > PerRound THEN PerRound ELSE n)])
  /\ UNCHANGED <<remote, row, local, left, crossed, cut>>

-----------------------------------------------------------------------------
(* One thread.                                                              *)

\* The thread's messages from its link's head on, all of them without a link; none
\* of one that was detached.
Pull(r) ==
  /\ run[r].pc = "next" /\ run[r].todo # <<>>
  /\ LET t == This(r).thread
         k == run[r].known[t]
     IN /\ k.state = "detached" \/ t \notin deleted
        /\ Set(r, [run[r] EXCEPT !.pc = "look",
                                 !.batch = {n \in Of(t) : k.state # "detached" /\ n >= k.head}])
  /\ UNCHANGED <<remote, row, local, left, crossed, cut>>

\* It was deleted on the remote between the list and the read.
PullNothing(r) ==
  /\ run[r].pc = "next" /\ run[r].todo # <<>>
  /\ This(r).thread \in deleted /\ run[r].known[This(r).thread].state # "detached"
  /\ Set(r, [run[r] EXCEPT !.pc = "extend"])
  /\ UNCHANGED <<remote, row, local, left, crossed, cut>>

\* The thread is left for another time.
ThreadFails(r) ==
  Set(r, [run[r] EXCEPT !.pc = "next", !.failed = TRUE, !.todo = Tail(@), !.batch = {}, !.plan = NoPlan])

\* A read from the remote or the transaction fails.
PullFails(r) ==
  /\ run[r].todo # <<>> /\ run[r].pc \in {"next", "look", "commit"}
  /\ Spend /\ ThreadFails(r)
  /\ UNCHANGED <<remote, row, local, crossed, cut>>

\* Mutant: the last of them is taken for a difference.
AlignedShort(c, h) ==
  LET own == IF c.tail THEN c.base ELSE c.msgs
  IN  {n \in own \cap h : n < Newest(own) /\ \A m \in 1..n : m \in own <=> m \in h}

\* How far a copy's messages line up with a history.
Aligned(c, h) ==
  LET own == IF c.tail THEN c.base ELSE c.msgs
  IN  {n \in own \cap h : \A m \in 1..n : m \in own <=> m \in h}

\* The part of a thread that is in its newest copy already.
Base(t, b) == IF link[t].state = "none" THEN Aligned(Copy(t), b) ELSE Copy(t).msgs

\* Mutant: a copy somebody wrote in is forked only when it diverged, too.
DivergedOnly(c, base) == c.msgs # base

\* The copy has more than that.
Diverged(c, base) == c.tail \/ c.msgs # base

\* What the transaction finds.  A thread without a link gets a new copy, or adopts
\* the one that has its hash.  A deleted copy detaches its link.  News go to the
\* copy, or to a fork where somebody wrote in that; a touch only notes what was seen.
Plan(t, b) ==
  LET new == link[t].state = "none"
      c == Copy(t)
      base == Base(t, b)
      adds == b \ base
      kind == IF new /\ ~Held(t) THEN "create"
              ELSE IF link[t].state = "detached" \/ ~c.alive THEN "detach"
              ELSE IF adds = {} THEN "touch"
              ELSE IF Diverged(c, base) THEN "fork" ELSE "append"
  IN [kind |-> kind, new |-> new, at |-> Len(copy[t]),
      base |-> IF kind = "create" THEN {} ELSE base,
      adds |-> IF kind = "create" THEN b ELSE IF kind = "detach" THEN {} ELSE adds]

Look(r) ==
  /\ run[r].pc = "look" /\ account.on
  /\ LET t == This(r).thread IN
     /\ Set(r, [run[r] EXCEPT !.pc = "commit", !.batch = {}, !.plan = Plan(t, run[r].batch)])
     /\ crossed' = IF t \in Open THEN crossed \cup {t} ELSE crossed
  /\ UNCHANGED <<remote, row, local, left, cut>>

\* The unique keys of links, copied messages and import hashes, and the rows a stop
\* or a deletion took away.
Clash(t, p) ==
  \/ p.kind = "void"
  \/ p.new /\ link[t].state # "none"
  \/ p.kind = "create" /\ Held(t)
  \/ p.kind = "append" /\ (~copy[t][p.at].alive \/ p.adds \cap copy[t][p.at].msgs # {})
  \/ p.kind = "fork" /\ ~p.new /\ p.adds \cap copy[t][p.at].msgs # {}

Prefix(t, p) ==
  IF p.kind = "create" \/ ~copy[t][p.at].alive THEN {}
  ELSE IF p.new THEN p.base ELSE copy[t][p.at].msgs

\* Mutant: the link notes what the remote has by then.
NotedLate(r) == LastOf(This(r).thread)

\* The last message as the run listed it.
Noted(r) == This(r).seen

\* The transaction writes the messages, the link and its head as one.
Commit(r) ==
  /\ run[r].pc = "commit"
  /\ LET t == This(r).thread
         p == run[r].plan
     IN /\ ~Clash(t, p)
        /\ copy' = [copy EXCEPT ![t] =
             CASE p.kind \in {"create", "fork"} -> Append(copy[t], Mirror(Prefix(t, p) \cup p.adds))
               [] p.kind = "append" -> [copy[t] EXCEPT ![p.at].msgs = copy[t][p.at].msgs \cup p.adds]
               [] OTHER -> copy[t]]
        /\ link' = [link EXCEPT ![t] =
             [state |-> IF p.kind = "detach" THEN "detached" ELSE "active",
              seen |-> Noted(r),
              head |-> Newest({link[t].head} \cup p.adds \cup (IF p.new THEN p.base ELSE {}))]]
  /\ Set(r, [run[r] EXCEPT !.pc = "extend", !.plan = NoPlan, !.applied = TRUE])
  /\ UNCHANGED <<remote, row, left, crossed, cut>>

CommitFails(r) ==
  /\ \/ run[r].pc = "commit" /\ Clash(This(r).thread, run[r].plan)
     \/ run[r].pc = "look" /\ ~account.on
  /\ ThreadFails(r)
  /\ UNCHANGED <<remote, row, local, left, crossed, cut>>

-----------------------------------------------------------------------------
(* After a thread, and the end of a run.                                    *)

\* The run ends and nothing is recorded: what it wrote may hide what it did not, from
\* the next run or from the one that took its lease over.
Vanish(r) ==
  /\ Set(r, Idle)
  /\ cut' = (cut \/ (run[r].applied /\ (lease \notin {r, Nobody} \/ (~account.fresh /\ ~account.behind))))

\* A run whose lease another took stops.
Extend(r) ==
  /\ run[r].pc = "extend"
  /\ IF lease = r
       THEN /\ expired' = FALSE
            /\ Set(r, [run[r] EXCEPT !.pc = "next", !.todo = Tail(@)])
            /\ UNCHANGED cut
       ELSE Vanish(r) /\ UNCHANGED expired
  /\ UNCHANGED <<remote, account, lease, local, left, crossed>>

ExtendFails(r) ==
  /\ run[r].pc = "extend" /\ Spend
  /\ Set(r, [run[r] EXCEPT !.pc = "next", !.todo = Tail(@)])
  /\ UNCHANGED <<remote, row, local, crossed, cut>>

\* A round that deferred threads is followed by another, if it deferred fewer than
\* the one before.
RoundOver(r) ==
  /\ run[r].pc = "next" /\ run[r].todo = <<>>
  /\ LET again == ~run[r].failed /\ run[r].over > 0 /\ (run[r].last = 0 \/ run[r].over + 1 < run[r].last)
     IN Set(r, IF again THEN [run[r] EXCEPT !.pc = "read", !.last = run[r].over + 1]
               ELSE [run[r] EXCEPT !.pc = IF run[r].failed THEN "error" ELSE "ok"])
  /\ UNCHANGED <<remote, row, local, left, crossed, cut>>

\* An error outside the threads, or a panic: the result has no counts.
RunFails(r) ==
  /\ \/ run[r].pc \in Working /\ Spend
     \/ run[r].pc = "read" /\ ~account.on /\ UNCHANGED left
  /\ Set(r, [run[r] EXCEPT !.pc = "error", !.over = 0, !.todo = <<>>, !.batch = {}, !.plan = NoPlan])
  /\ UNCHANGED <<remote, row, local, crossed, cut>>

\* The remote refuses the token.
Refused(r) ==
  /\ run[r].pc = "list" \/ (run[r].pc = "next" /\ run[r].todo # <<>>)
  /\ Spend
  /\ Set(r, [run[r] EXCEPT !.pc = "attention"])
  /\ UNCHANGED <<remote, row, local, crossed, cut>>

\* The server shuts down: a follow-up round leaves the result to the round before,
\* a first round has none.
Cancel(r) ==
  /\ run[r].pc \in Working /\ Spend
  /\ Set(r, [run[r] EXCEPT !.pc = IF run[r].last = 0 THEN "release" ELSE "ok",
                           !.over = IF run[r].last = 0 THEN 0 ELSE run[r].last - 1,
                           !.todo = <<>>, !.batch = {}, !.plan = NoPlan])
  /\ UNCHANGED <<remote, row, local, crossed, cut>>

\* The result is recorded and the lease given up, while it is the run's.
Record(r) ==
  /\ run[r].pc \in {"ok", "error", "attention"} /\ lease = r
  /\ account' = [account EXCEPT !.fresh = @ /\ run[r].pc # "ok", !.behind = run[r].over > 0,
                                !.attention = run[r].pc = "attention"]
  /\ lease' = Nobody /\ expired' = FALSE
  /\ cut' = (cut \/ (/\ run[r].pc # "ok" /\ run[r].over = 0
                     /\ ~account.fresh /\ (run[r].applied \/ account.behind)))
  /\ Set(r, Idle)
  /\ UNCHANGED <<remote, local, left, crossed>>

\* A cancelled run only gives up the lease, and one that lost it does nothing.
Release(r) ==
  /\ run[r].pc = "release" \/ (run[r].pc \in {"ok", "error", "attention"} /\ lease # r)
  /\ IF lease = r THEN lease' = Nobody /\ expired' = FALSE ELSE UNCHANGED <<lease, expired>>
  /\ Vanish(r)
  /\ UNCHANGED <<remote, account, local, left, crossed>>

\* The process dies, or the last write fails.
Crash(r) ==
  /\ run[r].pc # "idle" /\ Spend
  /\ Vanish(r)
  /\ UNCHANGED <<remote, row, local, crossed>>

Step(r) ==
  \/ Read(r) \/ List(r) \/ Listing(r) \/ Pull(r) \/ PullNothing(r) \/ Look(r) \/ Commit(r)
  \/ CommitFails(r) \/ Extend(r) \/ RoundOver(r) \/ Record(r) \/ Release(r)
  \/ (RunFails(r) /\ ~account.on)

Fault(r) ==
  PullFails(r) \/ ExtendFails(r) \/ RunFails(r) \/ Refused(r) \/ Cancel(r) \/ Crash(r)

-----------------------------------------------------------------------------
(* Everybody else.                                                          *)

\* The lease runs out: under a dead run, or one that stalls.
Expire ==
  /\ lease # Nobody /\ ~expired
  /\ IF run[lease] = Idle THEN UNCHANGED left ELSE Spend
  /\ expired' = TRUE
  /\ UNCHANGED <<remote, account, lease, local, run, crossed, cut>>

\* A message on the remote.
Post(t) ==
  /\ t \notin deleted /\ Len(posts) < Posts
  /\ posts' = Append(posts, t)
  /\ UNCHANGED <<deleted, row, local, run, left, crossed, cut>>

RemoteDelete(t) ==
  /\ t \in Listed /\ Spend
  /\ deleted' = deleted \cup {t}
  /\ cut' = (cut \/ \E r \in Runs : run[r].pc = "list")
  /\ UNCHANGED <<posts, row, local, run, crossed>>

\* Somebody writes in a copy, or deletes it.
Here(t, c) ==
  /\ Held(t) /\ Spend
  /\ copy' = [copy EXCEPT ![t][Len(copy[t])] = c]
  /\ crossed' = IF t \in Open THEN crossed \cup {t} ELSE crossed
  /\ UNCHANGED <<remote, row, link, run, cut>>

Continue(t) == Held(t) /\ ~Copy(t).tail /\ Here(t, [Copy(t) EXCEPT !.tail = TRUE, !.base = Copy(t).msgs])
DeleteLocal(t) == Here(t, [Copy(t) EXCEPT !.alive = FALSE])

\* The owner stops the sync: its row and links go, under a run or not.
Stop ==
  /\ account.on /\ Spend
  /\ account' = [NewAccount EXCEPT !.on = FALSE]
  /\ lease' = Nobody /\ expired' = FALSE
  /\ link' = [t \in Threads |-> NoLink]
  /\ run' = [r \in Runs |-> IF run[r].pc = "commit" THEN [run[r] EXCEPT !.plan.kind = "void"] ELSE run[r]]
  /\ crossed' = IF \E r \in Runs : run[r].pc \in Working THEN Threads ELSE crossed
  /\ UNCHANGED <<remote, copy, cut>>

\* The owner saves it, again or for a new token.
Save ==
  /\ ~account.on \/ account.attention
  /\ account' = IF account.on THEN [account EXCEPT !.attention = FALSE] ELSE NewAccount
  /\ UNCHANGED <<remote, lease, expired, local, run, left, crossed, cut>>

Others ==
  \/ Expire \/ Stop \/ Save
  \/ \E t \in Threads : Post(t) \/ RemoteDelete(t) \/ Continue(t) \/ DeleteLocal(t)

Next == (\E r \in Runs : Start(r) \/ Step(r) \/ Fault(r)) \/ Others

Spec == Init /\ [][Next]_vars

\* The timer starts runs, runs go on, and the lease of a dead one runs out.
Fairness ==
  /\ WF_vars(Due /\ \E r \in Runs : Start(r))
  /\ \A r \in Runs : WF_vars(Step(r))
  /\ WF_vars(Expire /\ run[lease] = Idle)

FairSpec == Spec /\ Fairness

-----------------------------------------------------------------------------
Messages == 1..Posts

Links == [state : {"none", "active", "detached"}, seen : 0..Posts, head : 0..Posts]
Mirrors == [msgs : SUBSET Messages, base : SUBSET Messages, tail : BOOLEAN, alive : BOOLEAN]
Plans == [kind : {"none", "void", "create", "detach", "touch", "fork", "append"}, new : BOOLEAN,
          at : Nat, adds : SUBSET Messages, base : SUBSET Messages]
RunStates ==
  [pc : {"idle", "ok", "error", "attention", "release"} \cup Working, known : [Threads -> Links],
   full : BOOLEAN, page : Nat, todo : Seq([thread : Threads, seen : 0..Posts]),
   batch : SUBSET Messages, plan : Plans, over : Nat, last : Nat, failed : BOOLEAN, applied : BOOLEAN]

TypeOK ==
  /\ posts \in Seq(Threads) /\ Len(posts) <= Posts
  /\ deleted \subseteq Threads
  /\ account \in [on : BOOLEAN, fresh : BOOLEAN, behind : BOOLEAN, attention : BOOLEAN]
  /\ lease \in Runs \cup {Nobody} /\ expired \in BOOLEAN
  /\ link \in [Threads -> Links]
  /\ copy \in [Threads -> Seq(Mirrors)]
  /\ run \in [Runs -> RunStates]
  /\ left \in Nat
  /\ crossed \subseteq Threads /\ cut \in BOOLEAN

\* What a link says was seen, and where its next pull stops, is in the copy it
\* tracks, through forks, adoptions and overlapping runs: a message that is not
\* copied is still asked for.
SeenIsCopied ==
  \A t \in Threads \ crossed : link[t].state = "active" =>
    \A n \in Of(t) : n <= link[t].seen \/ n <= link[t].head => n \in Copy(t).msgs

\* A copy somebody wrote in gets no more remote messages: they go to a fork.
ContinuedIsLeftAlone ==
  [][\A t \in Threads \ crossed' : \A k \in DOMAIN copy[t] :
       copy[t][k].tail => copy'[t][k].msgs = copy[t][k].msgs]_vars

\* A thread gets a second copy only after somebody wrote in the first or deleted it,
\* whatever runs overlap: no message is duplicated for nothing.
ForkedForAReason ==
  \A t \in Threads \ crossed : \A k \in DOMAIN copy[t] :
    k < Len(copy[t]) => copy[t][k].tail \/ ~copy[t][k].alive

\* Between runs, what the first page that has not changed hides from an incremental
\* walk has not changed either.
EarlyStopIsSafe ==
  (\A r \in Runs : run[r] = Idle) /\ account.on /\ ~account.fresh /\ ~account.behind /\ ~cut =>
    \A t, u \in Listed : /\ link[t].state = "none" \/ link[t].seen # LastOf(t)
                         /\ link[u].state # "none" /\ link[u].seen = LastOf(u)
                         => LastOf(t) > LastOf(u)

\* Every remote message is copied in the end, while the sync is on and nothing cut a
\* run short, unless its thread's copy was deleted here.
CopiedInTheEnd ==
  <>[](account.on /\ ~account.attention /\ ~cut) =>
    <>[](\A t \in Threads \ (deleted \cup crossed) :
           link[t].state = "detached" \/ (Of(t) # {} => copy[t] # <<>> /\ Of(t) \subseteq Copy(t).msgs))
=============================================================================

----------------------------- MODULE RelayReplies -----------------------------
(***************************************************************************)
(* How the Discord relay brings one turn's reply back to the tags that     *)
(* asked for it.  The relay thread's worker (runInbound, the Run of        *)
(* RelayTurns) starts the turn, registers a waiter, attaches the tags'     *)
(* inbound links to the saved message and waits; the turn runs on its own, *)
(* and when it is complete the reply hook (OnReply) looks for the link and *)
(* posts.  The hook may be ahead of every step of the worker: an early     *)
(* release is remembered, a reply whose link is missing is kept as an      *)
(* orphan, and the worker then runs OnReply on it as well.                 *)
(*                                                                         *)
(* Tags are numbered oldest first.  A database call, a Replies method or a *)
(* post is one action.  A post request for the same binding asks for the   *)
(* reply as well.  The parts of a reply and its files are one post, and one*)
(* without its files, when those are refused, is a retry.  The relay does  *)
(* not shut down, and TTLs outlast the turn.                               *)
(***************************************************************************)
EXTENDS Integers

CONSTANTS
  Newest,        \* the turn's tags are 1..Newest
  PostRetries,   \* how often a post is tried again
  Faults         \* bound: reads, writes and posts that fail

ASSUME ConstantsAssumption ==
  Newest \in Nat \ {0} /\ PostRetries \in Nat /\ Faults \in Nat

Tags == 1..Newest
Callers == {"worker", "hook"}     \* who runs OnReply
Request == 0                      \* a post that answers no tag

VARIABLES
  pc,        \* runInbound
  turn,      \* the turn's job: "none", "running", "complete", "empty" (complete, with
             \* nothing to post) or "failed"
  attached,  \* tags whose inbound link has the message
  toAttach,  \* tags still to be tried
  waiter,    \* Replies.waiting holds the worker's channel
  early,     \* Replies.early holds the message
  done,      \* the worker's channel is closed
  orphan,    \* Replies.orphans holds the reply
  request,   \* a pending-post row
  listing,   \* the OnReply calls that have listed that row
  call,      \* where each OnReply is
  target,    \* the tag each is to answer, or Request
  postedTo,  \* OnReply's postedTo holds the binding
  link,      \* the outbound link each created: "none", "pending", "sent", "failed"
  writes,    \* whose outbound link each is posting under
  attempt,   \* of each post
  posts,     \* history: what Discord took, and whether the caller got its answer
  faults     \* what is left of Faults

replies == <<waiter, early, done, orphan>>
onReply == <<call, target, postedTo, link, writes, attempt>>
worker == <<pc, attached, toAttach>>
requests == <<request, listing>>
vars == <<worker, turn, replies, requests, onReply, posts, faults>>

Init ==
  /\ pc = "start"
  /\ turn = "none"
  /\ attached = {}
  /\ toAttach = Tags
  /\ waiter = FALSE /\ early = FALSE /\ done = FALSE /\ orphan = FALSE
  /\ request = FALSE
  /\ listing = {}
  /\ call = [c \in Callers |-> "none"]
  /\ target = [c \in Callers |-> Request]
  /\ postedTo = [c \in Callers |-> FALSE]
  /\ link = [c \in Callers |-> "none"]
  /\ writes = [c \in Callers |-> c]
  /\ attempt = [c \in Callers |-> 0]
  /\ posts = {}
  /\ faults = Faults

Fault == faults > 0 /\ faults' = faults - 1

-----------------------------------------------------------------------------
(* runInbound.                                                              *)

StartTurn ==
  /\ pc = "start"
  /\ pc' = "wait"
  /\ turn' = "running"
  /\ UNCHANGED <<attached, toAttach, replies, requests, onReply, posts, faults>>

\* The turn cannot be started: the links are deleted.
StartFails ==
  /\ pc = "start"
  /\ Fault
  /\ pc' = "gone"
  /\ toAttach' = {}
  /\ UNCHANGED <<attached, turn, replies, requests, onReply, posts>>

\* Replies.Wait.
RegisterWaiter ==
  /\ pc = "wait"
  /\ pc' = "attach"
  /\ IF early THEN early' = FALSE /\ done' = TRUE /\ UNCHANGED waiter
              ELSE waiter' = TRUE /\ UNCHANGED <<early, done>>
  /\ UNCHANGED <<attached, toAttach, turn, orphan, requests, onReply, posts, faults>>

\* Mutant: the oldest tag's link is attached first.
AttachOldestFirst(t) == \A u \in toAttach : t <= u

AttachNext(t) == \A u \in toAttach : u <= t

\* The links are attached newest first.
Attach ==
  /\ pc = "attach"
  /\ toAttach # {}
  /\ \E t \in toAttach :
       /\ AttachNext(t)
       /\ toAttach' = toAttach \ {t}
       /\ \/ attached' = attached \cup {t} /\ UNCHANGED faults
          \/ Fault /\ UNCHANGED attached
  /\ UNCHANGED <<pc, turn, replies, requests, onReply, posts>>

\* Then the worker takes an orphan, if there is one, and answers it itself.
TakeOrphan ==
  /\ pc = "attach"
  /\ toAttach = {}
  /\ orphan' = FALSE
  /\ IF orphan THEN pc' = "reply" /\ call' = [call EXCEPT !["worker"] = "find"]
               ELSE pc' = "waiting" /\ UNCHANGED call
  /\ UNCHANGED <<attached, toAttach, turn, waiter, early, done, requests, target,
                 postedTo, link, writes, attempt, posts, faults>>

Replied ==
  /\ pc = "reply"
  /\ call["worker"] = "over"
  /\ pc' = "waiting"
  /\ UNCHANGED <<attached, toAttach, turn, replies, requests, onReply, posts, faults>>

\* Mutant: the worker leaves its waiter behind.
KeepWaiter == waiter' = waiter

\* Replies.Forget.
Forget == waiter' = FALSE

Leave ==
  /\ pc' = "gone"
  /\ Forget
  /\ UNCHANGED <<attached, toAttach, turn, early, done, orphan, requests, onReply, posts, faults>>

\* waitForReply ends: the reply was posted, ...
Released == pc = "waiting" /\ done /\ Leave

\* ... or a poll saw the job's end or the turn timed out.
StopWaiting == pc = "waiting" /\ Leave

-----------------------------------------------------------------------------
(* The turn.                                                                *)

TurnEnds ==
  /\ turn = "running"
  /\ turn' \in {"complete", "empty", "failed"}
  /\ UNCHANGED <<worker, replies, requests, onReply, posts, faults>>

\* The owner, or a tool of the turn, asks for the next reply to be posted, or
\* withdraws that.
RequestPost ==
  /\ request' = ~request
  /\ listing' = {}
  /\ UNCHANGED <<worker, turn, replies, onReply, posts, faults>>

FireHook ==
  /\ turn \in {"complete", "empty"}
  /\ call["hook"] = "none"
  /\ call' = [call EXCEPT !["hook"] = "find"]
  /\ UNCHANGED <<worker, turn, replies, requests, target, postedTo, link,
                 writes, attempt, posts, faults>>

-----------------------------------------------------------------------------
(* OnReply.                                                                 *)

At(c, l) == call[c] = l
Goto(c, l) == call' = [call EXCEPT ![c] = l]

\* FindInboundDiscordLink: the newest attached tag.
NewestAttached == CHOOSE t \in attached : \A u \in attached : u <= t

FindLink(c) ==
  /\ At(c, "find")
  /\ \/ /\ attached # {}
        /\ target' = [target EXCEPT ![c] = NewestAttached]
        /\ Goto(c, "post")
        /\ UNCHANGED faults
     \/ /\ attached = {}
        /\ Goto(c, "keep")
        /\ UNCHANGED <<target, faults>>
     \/ /\ Fault
        /\ Goto(c, "list")
        /\ UNCHANGED target
  /\ UNCHANGED <<worker, turn, replies, requests, postedTo, link, writes, attempt,
                 posts>>

\* The thread is Active: its worker stays for its idle time (a minute) after the
\* turn, which is longer than the hook's lookup takes.
KeepOrphan(c) ==
  /\ At(c, "keep")
  /\ orphan' = TRUE
  /\ Goto(c, "again")
  /\ UNCHANGED <<worker, turn, waiter, early, done, requests, target, postedTo,
                 link, writes, attempt, posts, faults>>

\* Mutant: an orphan once kept is left to the worker.
NeverAgain == FALSE

\* The second look finds a link.
LinkedMeanwhile == attached # {}

LookAgain(c) ==
  /\ At(c, "again")
  /\ \/ /\ LinkedMeanwhile
        /\ target' = [target EXCEPT ![c] = NewestAttached]
        /\ Goto(c, "claim")
        /\ UNCHANGED faults
     \/ /\ ~LinkedMeanwhile
        /\ Goto(c, "list")
        /\ UNCHANGED <<target, faults>>
     \/ /\ Fault
        /\ Goto(c, "list")
        /\ UNCHANGED target
  /\ UNCHANGED <<worker, turn, replies, requests, postedTo, link, writes, attempt,
                 posts>>

\* Mutant: the second look posts whether or not the worker has the orphan.
ClaimedAlways == TRUE

OrphanIsMine == orphan

\* It posts only if it still gets the orphan.
ClaimOrphan(c) ==
  /\ At(c, "claim")
  /\ orphan' = FALSE
  /\ Goto(c, IF OrphanIsMine THEN "post" ELSE "list")
  /\ UNCHANGED <<worker, turn, waiter, early, done, requests, target, postedTo,
                 link, writes, attempt, posts, faults>>

\* The binding cannot be read: nothing is posted.
TargetFails(c) ==
  /\ At(c, "post")
  /\ Fault
  /\ Goto(c, "unbound")
  /\ UNCHANGED <<worker, turn, replies, requests, target, postedTo, link, writes,
                 attempt, posts>>

\* StartOutboundDiscordLink looks for the reply's outbound link: a sent one ends the
\* post, another is posted under, and if there is none one is created.
FindOutbound(c) ==
  /\ At(c, "post")
  /\ \/ /\ \A d \in Callers : link[d] = "none"
        /\ Goto(c, "create")
        /\ UNCHANGED <<writes, faults>>
     \/ \E d \in Callers :
          /\ link[d] # "none"
          /\ writes' = [writes EXCEPT ![c] = d]
          /\ Goto(c, IF link[d] = "sent" THEN "posted" ELSE "read")
          /\ UNCHANGED faults
     \/ Fault /\ Goto(c, "posted") /\ UNCHANGED writes
  /\ UNCHANGED <<worker, turn, replies, requests, target, postedTo, link, attempt, posts>>

CreateOutbound(c) ==
  /\ At(c, "create")
  /\ \/ /\ link' = [link EXCEPT ![c] = "pending"]
        /\ writes' = [writes EXCEPT ![c] = c]
        /\ Goto(c, "read")
        /\ UNCHANGED faults
     \/ Fault /\ Goto(c, "posted") /\ UNCHANGED <<link, writes>>
  /\ UNCHANGED <<worker, turn, replies, requests, target, postedTo, attempt, posts>>

\* GetChatMessage.  An empty reply counts as sent.
ReadReply(c) ==
  /\ At(c, "read")
  /\ \/ Goto(c, IF turn = "empty" THEN "sent" ELSE "send") /\ UNCHANGED faults
     \/ Fault /\ Goto(c, "failed")
  /\ attempt' = [attempt EXCEPT ![c] = 0]
  /\ UNCHANGED <<worker, turn, replies, requests, target, postedTo, link, writes, posts>>

\* Discord takes the post; the caller hears of it, or an error.
Taken(c, answer) ==
  posts' = posts \cup {[by |-> c, to |-> target[c], try |-> attempt[c], answer |-> answer]}

Send(c) ==
  /\ At(c, "send")
  /\ Taken(c, "heard")
  /\ Goto(c, "sent")
  /\ UNCHANGED <<worker, turn, replies, requests, target, postedTo, link, writes, attempt,
                 faults>>

\* The post fails, perhaps after Discord took it, and is retried; the last one, or a
\* refused one (a bad token, no access to the channel), is not.
SendFails(c) ==
  /\ At(c, "send")
  /\ Fault
  /\ \/ /\ Taken(c, "lost") \/ UNCHANGED posts
        /\ IF attempt[c] < PostRetries
           THEN UNCHANGED call /\ attempt' = [attempt EXCEPT ![c] = @ + 1]
           ELSE Goto(c, "failed") /\ UNCHANGED attempt
     \/ Goto(c, "failed") /\ UNCHANGED <<posts, attempt>>
  /\ UNCHANGED <<worker, turn, replies, requests, target, postedTo, link, writes>>

\* FinishOutboundDiscordLink.
FinishOutbound(c) ==
  /\ call[c] \in {"sent", "failed"}
  /\ \/ link' = [link EXCEPT ![writes[c]] = call[c]] /\ UNCHANGED faults
     \/ Fault /\ UNCHANGED link
  /\ Goto(c, "posted")
  /\ UNCHANGED <<worker, turn, replies, requests, target, postedTo, writes, attempt, posts>>

\* Mutant: the waiter is removed and its channel left open.
DropWaiter == waiter' = FALSE /\ UNCHANGED <<early, done>>

WakeWaiter == waiter' = FALSE /\ done' = TRUE /\ UNCHANGED early

\* A reply to a tag ends in Replies.Release; a requested post ends OnReply.
Release(c) ==
  /\ call[c] \in {"posted", "unbound"}
  /\ IF target[c] = Request
     THEN Goto(c, "over") /\ UNCHANGED <<replies, postedTo>>
     ELSE /\ IF waiter THEN WakeWaiter
                       ELSE early' = TRUE /\ UNCHANGED <<done, waiter>>
          /\ postedTo' = [postedTo EXCEPT ![c] = At(c, "posted")]
          /\ Goto(c, "list")
          /\ UNCHANGED orphan
  /\ UNCHANGED <<worker, turn, requests, target, link, writes, attempt, posts, faults>>

\* ConsumeDiscordPendingPosts lists the requests, then deletes the rows it listed
\* and answers them: a request made anew in between is left, one withdrawn or
\* answered by the other caller in between is answered all the same.
ListRequests(c) ==
  /\ At(c, "list")
  /\ \/ /\ Goto(c, IF request THEN "consume" ELSE "over")
        /\ listing' = IF request THEN listing \cup {c} ELSE listing
        /\ UNCHANGED faults
     \/ Fault /\ Goto(c, "over") /\ UNCHANGED listing
  /\ UNCHANGED <<worker, turn, replies, request, target, postedTo, link, writes, attempt, posts>>

ConsumeRequest(c) ==
  /\ At(c, "consume")
  /\ \/ /\ IF c \in listing THEN request' = FALSE /\ listing' = {} ELSE UNCHANGED requests
        /\ target' = [target EXCEPT ![c] = Request]
        /\ Goto(c, IF postedTo[c] THEN "over" ELSE "post")
        /\ UNCHANGED faults
     \/ Fault /\ Goto(c, "over") /\ UNCHANGED <<requests, target>>
  /\ UNCHANGED <<worker, turn, replies, postedTo, link, writes, attempt, posts>>

OnReply(c) ==
  \/ FindLink(c) \/ KeepOrphan(c) \/ LookAgain(c) \/ ClaimOrphan(c)
  \/ TargetFails(c) \/ FindOutbound(c) \/ CreateOutbound(c) \/ ReadReply(c)
  \/ Send(c) \/ SendFails(c) \/ FinishOutbound(c) \/ Release(c)
  \/ ListRequests(c) \/ ConsumeRequest(c)

RunInbound == StartTurn \/ StartFails \/ RegisterWaiter \/ Attach \/ TakeOrphan \/ Replied

Next ==
  \/ RunInbound \/ Released \/ StopWaiting
  \/ TurnEnds \/ RequestPost \/ FireHook
  \/ \E c \in Callers : OnReply(c)

Spec == Init /\ [][Next]_vars

\* Goroutines keep running, and a complete turn fires its hook.  No turn has to
\* end, and neither a poll nor a timeout has to come.
FairSpec ==
  /\ Spec
  /\ WF_vars(RunInbound) /\ WF_vars(Released) /\ WF_vars(FireHook)
  /\ \A c \in Callers : WF_vars(OnReply(c))

-----------------------------------------------------------------------------
(* Properties.                                                              *)

TypeOK ==
  /\ pc \in {"start", "wait", "attach", "reply", "waiting", "gone"}
  /\ turn \in {"none", "running", "complete", "empty", "failed"}
  /\ attached \subseteq Tags /\ toAttach \subseteq Tags
  /\ {waiter, early, done, orphan, request} \subseteq BOOLEAN
  /\ waiter => pc \in {"attach", "reply", "waiting"}
  /\ listing \subseteq Callers
  /\ call \in [Callers -> {"none", "find", "keep", "again", "claim", "post", "create", "read",
                           "send", "sent", "failed", "posted", "unbound", "list", "consume",
                           "over"}]
  /\ target \in [Callers -> Tags \cup {Request}]
  /\ postedTo \in [Callers -> BOOLEAN]
  /\ link \in [Callers -> {"none", "pending", "sent", "failed"}]
  /\ writes \in [Callers -> Callers]
  /\ attempt \in [Callers -> 0..PostRetries]
  /\ posts \subseteq [by : Callers, to : Tags \cup {Request}, try : 0..PostRetries,
                      answer : {"heard", "lost"}]
  /\ faults \in 0..Faults

\* The tags are answered once, however the hook and the worker race to do it: one of
\* the two posts the reply, and posts it again only when it heard an error of a post
\* that Discord took.
PostedOnce ==
  \A p, q \in posts :
    p.to \in Tags /\ q.to \in Tags /\ p # q =>
      p.by = q.by /\ p.try # q.try /\ (p.try < q.try => p.answer = "lost")

\* The reply answers the newest tag of its batch, unless its link could not be
\* attached.
NewestIsAnswered ==
  faults = Faults => \A p \in posts : p.to \in {Newest, Request}

\* A complete turn's reply is posted, whichever of the hook and the worker comes
\* first at each step, unless something failed.
ReplyIsPosted == turn = "complete" ~> posts # {} \/ faults < Faults

\* Once the post of the reply is over the worker is free for the next batch, without
\* a poll or a timeout, whichever of the two posted it and however that went.
WorkerIsReleased ==
  (\E c \in Callers : target[c] \in Tags /\ call[c] \in {"sent", "failed"}) ~> pc = "gone"
=============================================================================

--------------------------- MODULE RelayReplies_proofs ---------------------------
(***************************************************************************)
(* PostedOnce of RelayReplies, proved for batches of any size and any      *)
(* number of failures and retries.  The right to answer the tags is a      *)
(* token: it starts with the hook, may be put down in the orphan and taken *)
(* up again by either side, and is spent by the post.  Whoever holds it    *)
(* finds nothing posted but attempts of its own, heard of as errors.       *)
(*                                                                         *)
(* NewestIsAnswered, too: tags are attached newest first, so what is       *)
(* attached, once anything is, has the newest tag in it.                   *)
(***************************************************************************)
EXTENDS RelayReplies, TLAPS

\* The tags c has the right to answer are still to be answered.
Answering(c) ==
  \/ call[c] \in {"find", "keep"}
  \/ target[c] \in Tags /\ call[c] \in {"post", "create", "read", "send"}

Answered == \E p \in posts : p.to \in Tags

\* Nothing has answered them yet, or attempts of c's own that it is about to repeat.
OnlyLost(c) ==
  \A p \in posts : p.to \in Tags =>
    call[c] = "send" /\ p.by = c /\ p.answer = "lost" /\ p.try < attempt[c]

Shape ==
  /\ DOMAIN call = Callers /\ DOMAIN target = Callers
  /\ attempt \in [Callers -> Nat]
  /\ \A p \in posts : p.try \in Nat
  /\ orphan \in BOOLEAN

\* The hook comes first: before it there is nothing to answer with.
HookFirst ==
  call["hook"] = "none" =>
    /\ call["worker"] = "none"
    /\ ~orphan
    /\ ~Answered

\* There is one token.
OneToken ==
  /\ orphan => ~Answered /\ \A c \in Callers : ~Answering(c)
  /\ \A c \in Callers : Answering(c) => OnlyLost(c) /\ ~orphan
  /\ \A c, d \in Callers : Answering(c) /\ Answering(d) => c = d

TokenInv == Shape /\ HookFirst /\ OneToken /\ PostedOnce

\* Before the first question nothing is posted and no caller holds a token.
LEMMA TokenInit == Init => TokenInv
<1> SUFFICES ASSUME Init PROVE TokenInv
  OBVIOUS
<1>1. /\ posts = {} /\ orphan = FALSE
      /\ call = [c \in Callers |-> "none"] /\ attempt \in [Callers -> Nat]
  BY DEF Init
<1>2. \A c \in Callers : ~Answering(c)
  BY <1>1 DEF Answering, Init
<1>3. Shape /\ HookFirst
  BY <1>1 DEF Init, Shape, HookFirst, Answered, Callers
<1> QED
  BY <1>1, <1>2, <1>3 DEF TokenInv, OneToken, Answered, PostedOnce

\* A step that neither calls OnReply nor touches the orphan.
LEMMA TokenAway ==
  ASSUME TokenInv, UNCHANGED <<call, target, orphan, posts, attempt>>
  PROVE  TokenInv'
  BY DEF TokenInv, Shape, HookFirst, OneToken, OnlyLost, PostedOnce, Answering, Answered

\* A step of one caller that gains no token, and posts nothing.
LEMMA TokenKept ==
  ASSUME TokenInv, NEW c \in Callers, NEW l,
         call[c] # "none", l # "none",
         call' = [call EXCEPT ![c] = l],
         \A d \in Callers : d # c => target'[d] = target[d] /\ attempt'[d] = attempt[d],
         DOMAIN target' = Callers, attempt' \in [Callers -> Nat],
         Answering(c)' => Answering(c) /\ call[c] # "send",
         UNCHANGED <<orphan, posts>>
  PROVE  TokenInv'
<1>1. \A d \in Callers : d # c => call'[d] = call[d]
  BY DEF TokenInv, Shape
<1>2. call'[c] = l
  BY DEF TokenInv, Shape
<1>3. \A d \in Callers : Answering(d)' => Answering(d)
  BY <1>1 DEF Answering
<1>4. Shape'
  BY DEF TokenInv, Shape
<1>5. HookFirst'
  BY <1>1, <1>2 DEF TokenInv, HookFirst, Answered, Callers
<1>6. \A d \in Callers : Answering(d)' => OnlyLost(d)'
  BY <1>1, <1>3 DEF TokenInv, OneToken, OnlyLost
<1>7. OneToken' /\ PostedOnce'
  BY <1>3, <1>6 DEF TokenInv, OneToken, PostedOnce, Answered
<1> QED BY <1>4, <1>5, <1>7 DEF TokenInv

\* Whoever is about to answer for the first time has seen nothing answered.
LEMMA NotYetAnswered ==
  ASSUME TokenInv, NEW c \in Callers, Answering(c), call[c] # "send"
  PROVE  ~Answered
  BY DEF TokenInv, OneToken, OnlyLost, Answered

\* Every step of a caller, the hook or the worker keeps the token invariant.
LEMMA TokenStep == ASSUME TokenInv, [Next]_vars PROVE TokenInv'
<1> USE DEF At, Goto, Fault, worker, replies, requests, onReply
<1>1. CASE StartTurn \/ StartFails \/ RegisterWaiter \/ Attach \/ Replied
  BY <1>1, TokenAway DEF StartTurn, StartFails, RegisterWaiter, Attach, Replied
<1>2. CASE Released \/ StopWaiting \/ TurnEnds \/ RequestPost
  BY <1>2, TokenAway DEF Released, StopWaiting, Leave, TurnEnds, RequestPost
<1>3. CASE TakeOrphan
  <2>1. CASE ~orphan
    <3>1. UNCHANGED orphan
      BY <1>3, <2>1 DEF TakeOrphan, TokenInv, Shape
    <3> QED BY <1>3, <2>1, <3>1, TokenAway DEF TakeOrphan
  <2>2. CASE orphan
    <3>1. /\ call' = [call EXCEPT !["worker"] = "find"]
          /\ orphan' = FALSE /\ UNCHANGED <<target, posts>>
      BY <1>3, <2>2 DEF TakeOrphan
    <3>2. ~Answered /\ ~Answering("hook") /\ call["hook"] # "none"
          /\ UNCHANGED attempt
      BY <1>3, <2>2 DEF TokenInv, OneToken, HookFirst, Callers, TakeOrphan
    <3>3. Shape' /\ HookFirst'
      BY <3>1, <3>2 DEF TokenInv, Shape, HookFirst, Callers
    <3>4. ~Answering("hook")' /\ ~Answered'
      BY <3>1, <3>2 DEF TokenInv, Shape, Answering, Answered, Callers
    <3>5. OneToken' /\ PostedOnce'
      BY <3>1, <3>4 DEF TokenInv, OneToken, OnlyLost, Answered, PostedOnce, Callers
    <3> QED BY <3>3, <3>5 DEF TokenInv
  <2> QED BY <2>1, <2>2
<1>4. CASE FireHook
  <2>1. /\ call["hook"] = "none" /\ call' = [call EXCEPT !["hook"] = "find"]
        /\ UNCHANGED <<target, orphan, posts, attempt>>
    BY <1>4 DEF FireHook
  <2>2. call["worker"] = "none" /\ ~orphan /\ ~Answered
    BY <2>1 DEF TokenInv, HookFirst
  <2>3. Shape' /\ HookFirst'
    BY <2>1 DEF TokenInv, Shape, HookFirst, Callers
  <2>4. ~Answering("worker")' /\ ~Answered' /\ ~orphan'
    BY <2>1, <2>2 DEF TokenInv, Shape, Answering, Answered, Callers
  <2>5. OneToken' /\ PostedOnce'
    BY <2>1, <2>4 DEF TokenInv, OneToken, OnlyLost, Answered, PostedOnce, Callers
  <2> QED BY <2>3, <2>5 DEF TokenInv
<1>5. ASSUME NEW c \in Callers, OnReply(c) PROVE TokenInv'
  <2>0. Shape BY DEF TokenInv
  <2>1. CASE FindLink(c)
    <3>1. PICK l \in {"post", "keep", "list"} : call' = [call EXCEPT ![c] = l]
      BY <2>1 DEF FindLink
    <3>2. /\ \A d \in Callers : d # c => target'[d] = target[d]
          /\ DOMAIN target' = Callers /\ UNCHANGED attempt /\ attempt \in [Callers -> Nat]
      BY <2>0, <2>1 DEF FindLink, Shape
    <3> QED BY <2>1, <3>1, <3>2, TokenKept DEF FindLink, Answering
  <2>2. CASE KeepOrphan(c)
    <3>1. /\ call[c] = "keep" /\ call' = [call EXCEPT ![c] = "again"]
          /\ orphan' = TRUE /\ UNCHANGED <<target, posts, attempt>>
      BY <2>2 DEF KeepOrphan
    <3>2. Answering(c) BY <3>1 DEF Answering
    <3>3. ~Answered /\ \A d \in Callers : d # c => ~Answering(d)
      BY <3>1, <3>2, NotYetAnswered DEF TokenInv, OneToken
    <3>4. \A d \in Callers : ~Answering(d)'
      BY <2>0, <3>1, <3>3 DEF Shape, Answering
    <3>5. ~Answered'
      BY <3>1, <3>3 DEF Answered
    <3>6. HookFirst'
      BY <2>0, <3>1 DEF TokenInv, Shape, HookFirst, Callers
    <3>7. Shape' /\ OneToken' /\ PostedOnce'
      BY <2>0, <3>1, <3>4, <3>5 DEF TokenInv, Shape, OneToken, PostedOnce
    <3> QED BY <3>6, <3>7 DEF TokenInv
  <2>3. CASE LookAgain(c)
    <3>1. PICK l \in {"claim", "list"} : call' = [call EXCEPT ![c] = l]
      BY <2>3 DEF LookAgain
    <3>2. /\ \A d \in Callers : d # c => target'[d] = target[d]
          /\ DOMAIN target' = Callers /\ UNCHANGED attempt /\ attempt \in [Callers -> Nat]
      BY <2>0, <2>3 DEF LookAgain, Shape
    <3>3. ~Answering(c)'
      BY <2>0, <3>1 DEF Shape, Answering
    <3> QED BY <2>3, <3>1, <3>2, <3>3, TokenKept DEF LookAgain
  <2>4. CASE ClaimOrphan(c)
    <3>0. /\ call[c] = "claim" /\ orphan' = FALSE /\ UNCHANGED <<target, posts, attempt>>
      BY <2>4 DEF ClaimOrphan
    <3>1. CASE orphan
      <4>1. call' = [call EXCEPT ![c] = "post"]
        BY <2>4, <3>1 DEF ClaimOrphan, OrphanIsMine
      <4>2. ~Answered /\ (\A d \in Callers : ~Answering(d)) /\ call["hook"] # "none"
        BY <3>1 DEF TokenInv, OneToken, HookFirst
      <4>3. ~Answered' /\ \A d \in Callers : d # c => ~Answering(d)'
        BY <2>0, <3>0, <4>1, <4>2 DEF Shape, Answering, Answered
      <4>4. Shape' /\ HookFirst'
        BY <2>0, <3>0, <4>1, <4>2 DEF Shape, HookFirst, Callers
      <4>5. OneToken' /\ PostedOnce'
        BY <3>0, <4>3 DEF TokenInv, OneToken, OnlyLost, Answered, PostedOnce
      <4> QED BY <4>4, <4>5 DEF TokenInv
    <3>2. CASE ~orphan
      <4>1. call' = [call EXCEPT ![c] = "list"]
        BY <2>4, <3>2 DEF ClaimOrphan, OrphanIsMine
      <4>2. ~Answering(c)'
        BY <2>0, <4>1 DEF Shape, Answering
      <4>3. UNCHANGED orphan
        BY <2>0, <2>4, <3>2 DEF ClaimOrphan, OrphanIsMine, Shape
      <4> QED BY <2>0, <3>0, <4>1, <4>2, <4>3, TokenKept DEF Shape
    <3> QED BY <3>1, <3>2
  <2>5. CASE TargetFails(c) \/ FindOutbound(c) \/ CreateOutbound(c) \/ ReadReply(c)
    <3>1. PICK l \in {"unbound", "create", "posted", "read", "send", "sent", "failed"} :
            /\ call' = [call EXCEPT ![c] = l]
            /\ l \in {"create", "read", "send"} => call[c] \in {"post", "create", "read"}
      BY <2>5 DEF TargetFails, FindOutbound, CreateOutbound, ReadReply
    <3>2. call[c] \in {"post", "create", "read"} /\ UNCHANGED <<target, orphan, posts>>
      BY <2>5 DEF TargetFails, FindOutbound, CreateOutbound, ReadReply
    <3>3. Answering(c)' => Answering(c)
      BY <2>0, <3>1, <3>2 DEF Shape, Answering
    <3>4. UNCHANGED attempt \/ attempt' = [attempt EXCEPT ![c] = 0]
      BY <2>5 DEF TargetFails, FindOutbound, CreateOutbound, ReadReply
    <3>5. /\ attempt' \in [Callers -> Nat]
          /\ \A d \in Callers : d # c => target'[d] = target[d] /\ attempt'[d] = attempt[d]
          /\ DOMAIN target' = Callers
      BY <2>0, <3>2, <3>4 DEF Shape
    <3>6. call[c] # "none" /\ call[c] # "send" /\ l # "none"
      BY <3>2
    <3> QED BY <3>1, <3>2, <3>3, <3>5, <3>6, TokenKept
  <2>6. CASE Send(c) \/ SendFails(c)
    <3>a. call[c] = "send" /\ UNCHANGED <<target, orphan>>
      BY <2>6 DEF Send, SendFails
    <3>0. call[c] = "send" /\ UNCHANGED <<target, orphan>> /\ call["hook"] # "none"
      BY <3>a DEF TokenInv, HookFirst, Callers
    <3>1. PICK answer \in {"heard", "lost"} :
            /\ posts' = posts \/ posts' = posts \cup {[by |-> c, to |-> target[c],
                                           try |-> attempt[c], answer |-> answer]}
            /\ \/ \E l \in {"sent", "failed"} : call' = [call EXCEPT ![c] = l]
                  /\ UNCHANGED attempt
               \/ /\ UNCHANGED call /\ attempt' = [attempt EXCEPT ![c] = attempt[c] + 1]
                  /\ answer = "lost"
      BY <2>6 DEF Send, SendFails, Taken
    <3>2. DOMAIN call' = Callers /\ call'["hook"] # "none" /\ attempt[c] \in Nat
          /\ attempt' \in [Callers -> Nat]
          /\ \A d \in Callers : d # c => call'[d] = call[d] /\ attempt'[d] = attempt[d]
      BY <2>0, <3>0, <3>1 DEF Shape, Callers
    <3>3. Shape' /\ HookFirst'
      BY <2>0, <3>0, <3>1, <3>2 DEF Shape, HookFirst
    <3>4. \A d \in Callers : d # c => (Answering(d)' <=> Answering(d))
      BY <3>0, <3>2 DEF Answering
    <3>5. CASE target[c] \in Tags
      <4>1. Answering(c) BY <3>0, <3>5 DEF Answering
      <4>2. OnlyLost(c) /\ ~orphan /\ \A d \in Callers : d # c => ~Answering(d)
        BY <4>1 DEF TokenInv, OneToken
      <4>3. PostedOnce'
        BY <2>0, <3>1, <3>2, <4>2 DEF PostedOnce, OnlyLost, Shape, TokenInv
      <4>4. Answering(c)' => OnlyLost(c)'
        <5>1. SUFFICES ASSUME Answering(c)' PROVE OnlyLost(c)'
          OBVIOUS
        <5>2. call' = call /\ attempt' = [attempt EXCEPT ![c] = attempt[c] + 1] /\ answer = "lost"
          BY <2>0, <3>1, <5>1 DEF Answering, Shape
        <5>3. attempt'[c] = attempt[c] + 1
          BY <5>2, <2>0 DEF Shape
        <5>4. \A p \in posts : p.to \in Tags => p.try < attempt'[c]
          BY <2>0, <3>2, <4>2, <5>3 DEF OnlyLost, Shape
        <5> QED BY <3>0, <3>1, <3>2, <4>2, <5>2, <5>3, <5>4 DEF OnlyLost
      <4>5. OneToken'
        BY <3>0, <3>4, <4>2, <4>4 DEF OneToken
      <4> QED BY <3>3, <4>3, <4>5 DEF TokenInv
    <3>6. CASE target[c] \notin Tags
      <4>1. \A p \in posts' : p.to \in Tags => p \in posts
        BY <3>1, <3>6
      <4>2. PostedOnce'
        BY <4>1 DEF TokenInv, PostedOnce
      <4>3. ~Answering(c)'
        BY <2>0, <3>0, <3>1, <3>6 DEF Answering, Shape
      <4>4. \A d \in Callers : d # c /\ Answering(d) => OnlyLost(d)'
        BY <3>2, <4>1 DEF TokenInv, OneToken, OnlyLost
      <4>5. orphan => ~Answered'
        BY <4>1 DEF TokenInv, OneToken, Answered
      <4>6. OneToken'
        BY <3>0, <3>4, <4>3, <4>4, <4>5 DEF TokenInv, OneToken
      <4> QED BY <3>3, <4>2, <4>6 DEF TokenInv
    <3> QED BY <3>5, <3>6
  <2>7. CASE FinishOutbound(c) \/ ListRequests(c)
    <3>1. PICK l \in {"posted", "consume", "over"} : call' = [call EXCEPT ![c] = l]
      BY <2>7 DEF FinishOutbound, ListRequests
    <3>2. call[c] # "none" /\ UNCHANGED <<target, orphan, posts, attempt>>
      BY <2>7 DEF FinishOutbound, ListRequests
    <3>3. ~Answering(c)'
      BY <2>0, <3>1 DEF Shape, Answering
    <3> QED BY <2>0, <3>1, <3>2, <3>3, TokenKept DEF Shape
  <2>8. CASE Release(c)
    <3>1. PICK l \in {"over", "list"} : call' = [call EXCEPT ![c] = l]
      BY <2>8 DEF Release
    <3>2. call[c] # "none" /\ UNCHANGED <<target, orphan, posts, attempt>>
      BY <2>8 DEF Release
    <3>3. ~Answering(c)'
      BY <2>0, <3>1 DEF Shape, Answering
    <3> QED BY <2>0, <3>1, <3>2, <3>3, TokenKept DEF Shape
  <2>9. CASE ConsumeRequest(c)
    <3>1. PICK l \in {"over", "post"} : call' = [call EXCEPT ![c] = l]
      BY <2>9 DEF ConsumeRequest
    <3>2. /\ \A d \in Callers : d # c => target'[d] = target[d]
          /\ DOMAIN target' = Callers /\ UNCHANGED attempt /\ attempt \in [Callers -> Nat]
          /\ l = "post" => target'[c] = Request
      BY <2>0, <2>9, <3>1 DEF ConsumeRequest, Shape
    <3>3. ~Answering(c)'
      BY <2>0, <3>1, <3>2, ConstantsAssumption DEF Shape, Answering, Request, Tags
    <3> QED BY <2>9, <3>1, <3>2, <3>3, TokenKept DEF ConsumeRequest
  <2> QED BY <1>5, <2>1, <2>2, <2>3, <2>4, <2>5, <2>6, <2>7, <2>8, <2>9 DEF OnReply
<1>6. CASE UNCHANGED vars
  BY <1>6, TokenAway DEF vars
<1> QED BY <1>1, <1>2, <1>3, <1>4, <1>5, <1>6 DEF Next, RunInbound

\* At most one token to post the reply exists in every reachable state.
LEMMA Token == Spec => []TokenInv
<1>1. TokenInv /\ [Next]_vars => TokenInv' BY TokenStep
<1> QED BY TokenInit, <1>1, PTL DEF Spec

\* The tags are answered once: the hook and the worker never both post the reply,
\* however their lookups, the attaching and the orphan interleave.
THEOREM TagsAnsweredOnce == Spec => []PostedOnce
<1>1. TokenInv => PostedOnce BY DEF TokenInv
<1> QED BY Token, <1>1, PTL
-----------------------------------------------------------------------------
(* TypeOK and NewestIsAnswered, together.  What is attached has a newest tag  *)
(* (without which NewestAttached would be arbitrary), and as long as nothing  *)
(* failed that tag is Newest and whoever answers a tag answers it.            *)

HasNewest == attached # {} => \E t \in attached : \A u \in attached : u <= t

NewestFirst ==
  faults = Faults =>
    /\ attached = {} => toAttach = Tags
    /\ attached # {} => Newest \in attached
    /\ \A c \in Callers : target[c] \in {Newest, Request}

NewestInv == TypeOK /\ HasNewest /\ NewestFirst /\ NewestIsAnswered

\* Before the turn starts every tag is still to be attached.
LEMMA NewestInit == Init => NewestInv
<1> SUFFICES ASSUME Init PROVE NewestInv
  OBVIOUS
<1>1. writes \in [Callers -> Callers]
  BY DEF Init
<1>2. attached \subseteq Tags /\ toAttach \subseteq Tags /\ faults \in 0..Faults
  BY ConstantsAssumption DEF Init
<1>3. posts = {} /\ attempt \in [Callers -> 0..PostRetries]
  BY ConstantsAssumption DEF Init
<1>4. {waiter, early, done, orphan, request} \subseteq BOOLEAN
  BY DEF Init
<1>5. TypeOK
  BY <1>1, <1>2, <1>3, <1>4 DEF Init, TypeOK
<1>6. HasNewest /\ NewestFirst /\ NewestIsAnswered
  BY DEF Init, HasNewest, NewestFirst, NewestIsAnswered
<1> QED BY <1>5, <1>6 DEF NewestInv

\* What FindLink and LookAgain answer is a tag, and Newest if nothing failed.
LEMMA NewestAttachedIs ==
  ASSUME NewestInv, attached # {}
  PROVE  /\ NewestAttached \in Tags
         /\ faults = Faults => NewestAttached = Newest
<1>1. PICK t \in attached : \A u \in attached : u <= t
  BY DEF NewestInv, HasNewest
<1>2. NewestAttached \in attached /\ \A u \in attached : u <= NewestAttached
  BY <1>1 DEF NewestAttached
<1>3. attached \subseteq 1..Newest
  BY DEF NewestInv, TypeOK, Tags
<1>4. faults = Faults => Newest \in attached
  BY DEF NewestInv, NewestFirst
<1> QED BY <1>2, <1>3, <1>4, ConstantsAssumption DEF Tags

\* A step that attaches and posts nothing and gives no caller a target.
LEMMA NewestAway ==
  ASSUME NewestInv, TypeOK',
         faults' = Faults => faults = Faults,
         faults' = Faults => toAttach' = toAttach,
         \A c \in Callers : target'[c] \in {target[c], Request},
         UNCHANGED <<attached, posts>>
  PROVE  NewestInv'
  BY DEF NewestInv, HasNewest, NewestFirst, NewestIsAnswered, Request

\* Failures are only used up.
LEMMA FaultsFall == ASSUME NewestInv, Fault PROVE faults' \in 0..Faults /\ faults' # Faults
  BY ConstantsAssumption DEF NewestInv, TypeOK, Fault

\* Every step of the worker keeps the newest tag first.
LEMMA NewestWorker ==
  ASSUME NewestInv, RunInbound \/ Released \/ StopWaiting
  PROVE  NewestInv'
<1> USE DEF worker, replies, requests, onReply
<1>0. TypeOK BY DEF NewestInv
<1>1. CASE StartTurn \/ RegisterWaiter \/ Replied \/ Released \/ StopWaiting
  <2>1. TypeOK'
    <3>1. CASE StartTurn \/ Replied
      BY <1>0, <3>1 DEF TypeOK, StartTurn, Replied
    <3>2. CASE RegisterWaiter
      BY <1>0, <3>2 DEF TypeOK, RegisterWaiter
    <3>3. CASE Released \/ StopWaiting
      BY <1>0, <3>3 DEF TypeOK, Released, StopWaiting, Leave, Forget
    <3> QED BY <1>1, <3>1, <3>2, <3>3
  <2> QED
    BY <1>1, <2>1, NewestAway DEF StartTurn, RegisterWaiter, Replied, Released, StopWaiting, Leave
<1>2. CASE StartFails
  <2>1. TypeOK'
    BY <1>0, <1>2, FaultsFall DEF TypeOK, StartFails
  <2> QED
    BY <1>2, <2>1, FaultsFall, NewestAway DEF StartFails
<1>3. CASE TakeOrphan
  <2>1. TypeOK'
    <3>1. CASE orphan
      BY <1>0, <1>3, <3>1 DEF TypeOK, TakeOrphan, Callers
    <3>2. CASE ~orphan
      BY <1>0, <1>3, <3>2 DEF TypeOK, TakeOrphan
    <3> QED BY <3>1, <3>2
  <2> QED
    BY <1>3, <2>1, NewestAway DEF TakeOrphan
<1>4. CASE Attach
  <2>1. PICK t \in toAttach :
          /\ \A u \in toAttach : u <= t
          /\ toAttach' = toAttach \ {t}
          /\ \/ attached' = attached \cup {t} /\ UNCHANGED faults
             \/ Fault /\ UNCHANGED attached
    BY <1>4 DEF Attach, AttachNext
  <2>2. UNCHANGED <<pc, turn, waiter, early, done, orphan, request, listing, call, target,
                    postedTo, link, writes, attempt, posts>>
    BY <1>4 DEF Attach
  <2>3. t \in 1..Newest /\ attached \subseteq 1..Newest /\ Newest \in 1..Newest
    BY <1>0, ConstantsAssumption DEF TypeOK, Tags
  <2>4. TypeOK'
    BY <1>0, <2>1, <2>2, <2>3, FaultsFall DEF TypeOK, Tags
  <2>5. CASE attached' = attached \cup {t} /\ UNCHANGED faults
    <3>1. HasNewest'
      <4>1. CASE attached = {}
        BY <2>3, <2>5, <4>1 DEF HasNewest
      <4>2. CASE attached # {}
        <5>1. PICK s \in attached : \A u \in attached : u <= s
          BY <4>2 DEF NewestInv, HasNewest
        <5>2. CASE s <= t
          BY <2>3, <2>5, <5>1, <5>2 DEF HasNewest
        <5>3. CASE t <= s
          BY <2>3, <2>5, <5>1, <5>3 DEF HasNewest
        <5> QED BY <2>3, <5>1, <5>2, <5>3
      <4> QED BY <4>1, <4>2
    <3>2. ASSUME faults = Faults PROVE Newest \in attached'
      <4>1. CASE attached = {}
        <5>1. Newest \in toAttach
          BY <2>3, <3>2, <4>1 DEF NewestInv, NewestFirst, Tags
        <5>2. Newest <= t /\ t <= Newest
          BY <2>1, <2>3, <5>1
        <5> QED BY <2>3, <2>5, <5>2, ConstantsAssumption
      <4>2. CASE attached # {}
        BY <2>5, <3>2, <4>2 DEF NewestInv, NewestFirst
      <4> QED BY <4>1, <4>2
    <3>3. NewestFirst'
      BY <2>2, <2>5, <3>2 DEF NewestInv, NewestFirst
    <3>4. NewestIsAnswered'
      BY <2>2, <2>5 DEF NewestInv, NewestIsAnswered
    <3> QED BY <2>4, <3>1, <3>3, <3>4 DEF NewestInv
  <2>6. CASE Fault /\ UNCHANGED attached
    BY <2>2, <2>4, <2>6, FaultsFall, NewestAway
  <2> QED BY <2>1, <2>5, <2>6
<1> QED BY <1>1, <1>2, <1>3, <1>4 DEF RunInbound

\* So does every step of an OnReply.
LEMMA NewestOnReply ==
  ASSUME NewestInv, NEW c \in Callers, OnReply(c)
  PROVE  NewestInv'
<1> USE DEF worker, replies, requests, onReply, At, Goto
<1>0. TypeOK BY DEF NewestInv
<1>1. CASE FindLink(c) \/ LookAgain(c)
  <2>1. CASE attached # {} /\ target' = [target EXCEPT ![c] = NewestAttached] /\ UNCHANGED faults
    <3>1. TypeOK'
      BY <1>0, <1>1, <2>1, NewestAttachedIs DEF TypeOK, FindLink, LookAgain
    <3>2. NewestFirst'
      BY <1>0, <1>1, <2>1, NewestAttachedIs
      DEF TypeOK, NewestInv, NewestFirst, FindLink, LookAgain
    <3>3. HasNewest' /\ NewestIsAnswered'
      BY <1>1, <2>1 DEF NewestInv, HasNewest, NewestIsAnswered, FindLink, LookAgain
    <3> QED BY <3>1, <3>2, <3>3 DEF NewestInv
  <2>2. CASE UNCHANGED <<target, faults>>
    <3>1. TypeOK'
      BY <1>0, <1>1, <2>2, NewestAttachedIs DEF TypeOK, FindLink, LookAgain
    <3> QED BY <1>1, <2>2, <3>1, NewestAway DEF FindLink, LookAgain
  <2>3. CASE Fault /\ UNCHANGED target
    <3>1. TypeOK'
      BY <1>0, <1>1, <2>3, FaultsFall, NewestAttachedIs DEF TypeOK, FindLink, LookAgain
    <3> QED BY <1>1, <2>3, <3>1, FaultsFall, NewestAway DEF FindLink, LookAgain
  <2> QED BY <1>1, <2>1, <2>2, <2>3 DEF FindLink, LookAgain, LinkedMeanwhile
<1>2. CASE KeepOrphan(c) \/ ClaimOrphan(c) \/ Release(c)
  <2>1. TypeOK'
    <3>1. CASE KeepOrphan(c)
      BY <1>0, <3>1 DEF TypeOK, KeepOrphan
    <3>2. CASE ClaimOrphan(c)
      BY <1>0, <3>2 DEF TypeOK, ClaimOrphan
    <3>3. CASE Release(c)
      BY <1>0, <3>3 DEF TypeOK, Release, WakeWaiter
    <3> QED BY <1>2, <3>1, <3>2, <3>3
  <2> QED
    BY <1>2, <2>1, NewestAway DEF KeepOrphan, ClaimOrphan, Release
<1>3. CASE TargetFails(c) \/ FindOutbound(c) \/ CreateOutbound(c) \/ FinishOutbound(c) \/
         ListRequests(c) \/ ReadReply(c)
  <2>1. faults' \in 0..Faults /\ (faults' = Faults => faults = Faults)
    BY <1>0, <1>3, FaultsFall DEF TypeOK, TargetFails, FindOutbound, CreateOutbound,
       FinishOutbound, ListRequests, ReadReply
  <2>2. TypeOK'
    <3>1. CASE TargetFails(c)
      BY <1>0, <2>1, <3>1 DEF TypeOK, TargetFails
    <3>2. CASE FindOutbound(c)
      BY <1>0, <2>1, <3>2 DEF TypeOK, FindOutbound
    <3>3. CASE CreateOutbound(c)
      BY <1>0, <2>1, <3>3 DEF TypeOK, CreateOutbound
    <3>4. CASE FinishOutbound(c)
      BY <1>0, <2>1, <3>4 DEF TypeOK, FinishOutbound
    <3>5. CASE ListRequests(c)
      BY <1>0, <2>1, <3>5 DEF TypeOK, ListRequests
    <3>6. CASE ReadReply(c)
      <4>1. 0 \in 0..PostRetries
        BY ConstantsAssumption
      <4> QED BY <1>0, <2>1, <3>6, <4>1 DEF TypeOK, ReadReply
    <3> QED BY <1>3, <3>1, <3>2, <3>3, <3>4, <3>5, <3>6
  <2> QED
    BY <1>3, <2>1, <2>2, NewestAway
    DEF TargetFails, FindOutbound, CreateOutbound, FinishOutbound, ListRequests, ReadReply
<1>4. CASE Send(c) \/ SendFails(c)
  <2>1. faults' \in 0..Faults /\ (faults' = Faults => faults = Faults /\ Send(c))
    BY <1>0, <1>4, FaultsFall DEF TypeOK, Send, SendFails
  <2>2. PICK answer \in {"heard", "lost"} :
          posts' = posts \/ posts' = posts \cup {[by |-> c, to |-> target[c],
                                         try |-> attempt[c], answer |-> answer]}
    BY <1>4 DEF Send, SendFails, Taken
  <2>3. UNCHANGED <<target, attached, toAttach>>
    BY <1>4 DEF Send, SendFails
  <2>4. [by |-> c, to |-> target[c], try |-> attempt[c], answer |-> answer] \in
          [by : Callers, to : Tags \cup {Request}, try : 0..PostRetries, answer : {"heard", "lost"}]
    BY <1>0 DEF TypeOK
  <2>5. posts' \subseteq [by : Callers, to : Tags \cup {Request}, try : 0..PostRetries,
                         answer : {"heard", "lost"}]
    BY <1>0, <2>2, <2>4 DEF TypeOK
  <2>6. attempt' \in [Callers -> 0..PostRetries]
    <3>1. CASE UNCHANGED attempt
      BY <1>0, <3>1 DEF TypeOK
    <3>2. CASE attempt[c] < PostRetries /\ attempt' = [attempt EXCEPT ![c] = attempt[c] + 1]
      <4>1. attempt[c] + 1 \in 0..PostRetries
        BY <1>0, <3>2, ConstantsAssumption DEF TypeOK
      <4> QED BY <1>0, <3>2, <4>1 DEF TypeOK
    <3> QED BY <1>4, <3>1, <3>2 DEF Send, SendFails
  <2>7. call' \in [Callers -> {"none", "find", "keep", "again", "claim", "post", "create",
          "read", "send", "sent", "failed", "posted", "unbound", "list", "consume", "over"}]
    BY <1>0, <1>4 DEF TypeOK, Send, SendFails
  <2>8. UNCHANGED <<pc, turn, attached, toAttach, waiter, early, done, orphan, request, listing,
                    target, postedTo, link, writes>>
    BY <1>4 DEF Send, SendFails
  <2>9. TypeOK'
    BY <1>0, <2>1, <2>5, <2>6, <2>7, <2>8 DEF TypeOK
  <2>10. HasNewest' /\ NewestFirst'
    BY <2>1, <2>3 DEF NewestInv, HasNewest, NewestFirst
  <2>11. NewestIsAnswered'
    BY <2>1, <2>2 DEF NewestInv, NewestFirst, NewestIsAnswered
  <2> QED BY <2>9, <2>10, <2>11 DEF NewestInv
<1>5. CASE ConsumeRequest(c)
  <2>1. faults' \in 0..Faults /\ (faults' = Faults => faults = Faults)
    BY <1>0, <1>5, FaultsFall DEF TypeOK, ConsumeRequest
  <2>2. target' = [target EXCEPT ![c] = Request] \/ UNCHANGED target
    BY <1>5 DEF ConsumeRequest
  <2>3. \A d \in Callers : target'[d] \in {target[d], Request}
    BY <1>0, <2>2 DEF TypeOK
  <2>4. TypeOK'
    BY <1>0, <1>5, <2>1, <2>2 DEF TypeOK, ConsumeRequest
  <2> QED BY <1>5, <2>1, <2>3, <2>4, NewestAway DEF ConsumeRequest
<1> QED BY <1>1, <1>2, <1>3, <1>4, <1>5 DEF OnReply

\* Every step keeps the types and the newest tag first.
LEMMA NewestStep == ASSUME NewestInv, [Next]_vars PROVE NewestInv'
<1> USE DEF worker, replies, requests, onReply
<1>0. TypeOK BY DEF NewestInv
<1>1. CASE RunInbound \/ Released \/ StopWaiting
  BY <1>1, NewestWorker
<1>2. CASE TurnEnds \/ RequestPost \/ FireHook
  <2>1. TypeOK'
    <3>1. CASE TurnEnds
      BY <1>0, <3>1 DEF TypeOK, TurnEnds
    <3>2. CASE RequestPost
      BY <1>0, <3>2 DEF TypeOK, RequestPost
    <3>3. CASE FireHook
      BY <1>0, <3>3 DEF TypeOK, FireHook
    <3> QED BY <1>2, <3>1, <3>2, <3>3
  <2> QED BY <1>2, <2>1, NewestAway DEF TurnEnds, RequestPost, FireHook
<1>3. CASE \E c \in Callers : OnReply(c)
  BY <1>3, NewestOnReply
<1>4. CASE UNCHANGED vars
  <2>1. TypeOK'
    BY <1>0, <1>4 DEF TypeOK, vars
  <2> QED BY <1>4, <2>1, NewestAway DEF vars
<1> QED BY <1>1, <1>2, <1>3, <1>4 DEF Next

\* Every reachable state has them.
LEMMA NewestAlways == Spec => []NewestInv
<1>1. NewestInv /\ [Next]_vars => NewestInv' BY NewestStep
<1> QED BY NewestInit, <1>1, PTL DEF Spec

\* Every variable of the worker, the turn and the replies keeps its type, and a
\* waiter is registered only while the worker is there to be woken.
THEOREM TypeCorrect == Spec => []TypeOK
<1>1. NewestInv => TypeOK BY DEF NewestInv
<1> QED BY NewestAlways, <1>1, PTL

\* Unless something failed, the reply answers the newest tag of the batch: whoever
\* comes first, a link is found only once the newest one is attached.
THEOREM NewestAnswered == Spec => []NewestIsAnswered
<1>1. NewestInv => NewestIsAnswered BY DEF NewestInv
<1> QED BY NewestAlways, <1>1, PTL
=============================================================================

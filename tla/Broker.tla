------------------------------- MODULE Broker -------------------------------
(***************************************************************************)
(* The broker: the listener on publish.sock (server.ts), the decision      *)
(* procedure for a publish request (handler.ts), and the ApprovalHub that  *)
(* races the terminal against the browser (gate.ts, approve.ts).           *)
(*                                                                         *)
(* Node runs to completion: after a callback (a socket event, a timer, a   *)
(* line on the terminal) every continuation it made runnable runs before   *)
(* the next callback.  So a step is a callback or one continuation, and no *)
(* callback comes while a continuation is due.                             *)
(*                                                                         *)
(* The n-th request rendered since the broker started is "request n"; n    *)
(* stands for the random id of its decide(), and requests[n] for the view  *)
(* shown to the human.                                                     *)
(*                                                                         *)
(* Auxiliary state, read by no guard: pushed, agreed, crossed, and the     *)
(* listener's owner and rereleased.                                        *)
(***************************************************************************)
EXTENDS Integers, Sequences

CONSTANTS
  Conns,        \* the connections to publish.sock
  Shas,         \* the commits that HEAD of the worktree may be at
  Targets,      \* the push URLs the policy admits
  MaxRequests,  \* bound: requests rendered
  None          \* nobody, no request, no admissible target

AttemptsInit == 3

Results == {"refused", "published", "pr_failed"}

ASSUME MaxRequestsAssumption == MaxRequests \in Nat

ASSUME BrokerNoneAssumption ==
  /\ None \notin Conns
  /\ None \notin Shas
  /\ None \notin Targets
  /\ None \notin [id : Nat, left : Int]
  /\ None \notin [typed : Shas \cup {None}, for : Nat]

VARIABLES
  conn, busy, aborted, answer, owner, rereleased,  \* the listener
  at,        \* at[c]: where c's handler is suspended, or what is due to resume it
  req,       \* req[c]: the request c made, 0 before it is rendered
  requests,  \* the views rendered so far
  pending,   \* the hub's pending approval, or None
  last,      \* the hub's last outcome, or None
  seen,      \* the request that the browser shows, or 0
  prompted,  \* the request whose prompt is the last on the terminal, or 0
  line,      \* what was typed on the terminal and not read yet, or None
  head,      \* HEAD of the worktree
  target,    \* what origin resolves to; None if nothing may be pushed there now
  pushed,    \* auxiliary: the pushes made: of which request, and of which commit
  agreed,    \* auxiliary: the requests a human meant to approve
  crossed    \* auxiliary: a line meant for one request approved another

listener == <<conn, busy, aborted, answer, owner, rereleased>>
hub      == <<pending, last>>
world    == <<head, target>>
humans   == <<seen, prompted, line, agreed, crossed>>
vars     == <<listener, at, req, requests, hub, humans, world, pushed>>

L == INSTANCE Listener

\* A handler awaits the reviewer or the human, or is between two turns.
Waiting == {"out", "consult", "gate"}

\* A continuation of a handler is due.
Due == {"validate", "approved", "declined", "canceled", "revalidate", "push"}

\* No continuation is due: the event loop takes the next callback.
Turn == \A c \in Conns : at[c] \in Waiting

Resume(c, place) == at' = [at EXCEPT ![c] = place]

View(c) == requests[req[c]]

Gates == {c \in Conns : at[c] = "gate"}

-----------------------------------------------------------------------------
(* The listener's callbacks.                                               *)

Connect(c) ==
  /\ Turn
  /\ L!Accept(c) \/ L!RefuseBusy(c)
  /\ req' = [req EXCEPT ![c] = 0]
  /\ UNCHANGED <<at, requests, hub, humans, world, pushed>>

NoRequest(c) ==
  /\ Turn
  /\ L!GiveUpReading(c) \/ L!Broken(c) \/ L!Closed(c) \/ L!Malformed(c)
  /\ UNCHANGED <<at, req, requests, hub, humans, world, pushed>>

Dispatch(c) ==
  /\ Turn
  /\ L!Dispatch(c)
  /\ Resume(c, "validate")
  /\ UNCHANGED <<req, requests, hub, humans, world, pushed>>

AbortUnheard(c) ==
  /\ Turn
  /\ L!BudgetExpires(c) \/ L!ClientGone(c)
  /\ UNCHANGED <<at, req, requests, hub, humans, world, pushed>>

\* The approval budget expires, or the client goes: whatever the handler awaits,
\* the reviewer or the human, is cut short.
Abort(c) ==
  /\ Turn
  /\ L!BudgetExpires(c) \/ L!ClientGone(c)
  /\ Resume(c, "canceled")
  /\ UNCHANGED <<req, requests, hub, humans, world, pushed>>

-----------------------------------------------------------------------------
(* handleRequest, up to the gate.                                          *)

Finish(c, result) == L!HandlerEnds(c, result) /\ Resume(c, "out")

\* resolveTarget and headSha: what would be pushed, and where to, if it were now.
Current == [sha |-> head, url |-> target]

\* Any check may refuse: the request, the policy, the branch, a dirty worktree,
\* a ground truth that cannot be rendered completely, nothing to publish.
Refuse(c) ==
  /\ at[c] = "validate"
  /\ Finish(c, "refused")
  /\ UNCHANGED <<req, requests, hub, humans, world, pushed>>

\* The ground truth is rendered, and the reviewer consulted.
Render(c) ==
  /\ at[c] = "validate"
  /\ target # None
  /\ Len(requests) < MaxRequests
  /\ requests' = Append(requests, Current)
  /\ req' = [req EXCEPT ![c] = Len(requests')]
  /\ Resume(c, "consult")
  /\ UNCHANGED <<listener, hub, humans, world, pushed>>

\* The reviewer's verdict, its failure or its timeout, are all the same to the
\* gate: decide() registers the request.
OpenGate(c) ==
  /\ Turn
  /\ at[c] = "consult"
  /\ pending' = [id |-> req[c], left |-> AttemptsInit]
  /\ prompted' = req[c]
  /\ Resume(c, "gate")
  /\ UNCHANGED <<listener, req, requests, last, seen, line, agreed, crossed, world,
                 pushed>>

-----------------------------------------------------------------------------
(* The humans.                                                             *)

\* What a human types who was shown request n: its sha, or anything else.
Typeable(n) == {requests[n].sha, None}

Agree(n, typed) == agreed' = IF typed = None THEN agreed ELSE agreed \cup {n}

\* A human at the terminal answers the last prompt there, which may have been
\* canceled in the meantime: the terminal keeps the line for its next reader.
TypeLine ==
  /\ Turn
  /\ prompted # 0
  /\ line = None
  /\ \E typed \in Typeable(prompted) :
       /\ line' = [typed |-> typed, for |-> prompted]
       /\ Agree(prompted, typed)
  /\ UNCHANGED <<listener, at, req, requests, hub, seen, prompted, crossed, world,
                 pushed>>

\* Every open prompt reads the line: the sha of its own commit approves, and
\* anything else declines, except while it is still paging the diff.
ReadLine(gates) ==
  /\ Turn
  /\ line # None
  /\ Gates # {}
  /\ line' = None
  /\ at' = [c \in Conns |->
       IF c \notin gates THEN at[c]
       ELSE IF line.typed = View(c).sha THEN "approved" ELSE "declined"]
  /\ crossed' = (crossed \/ \E c \in gates : at'[c] = "approved" /\ req[c] # line.for)
  /\ UNCHANGED <<listener, req, requests, hub, seen, prompted, agreed, world, pushed>>

\* The browser polls the hub, and shows what it learns until the next poll.
Poll ==
  /\ Turn
  /\ seen' = IF pending = None THEN 0 ELSE pending.id
  /\ UNCHANGED <<listener, at, req, requests, hub, prompted, line, agreed, crossed,
                 world, pushed>>

\* The connection whose decide() the hub's pending approval belongs to.
Pending(c) == at[c] = "gate" /\ req[c] = pending.id

SubmitApproveOnceMore(c) ==
  /\ Turn
  /\ seen # 0
  /\ pending # None
  /\ pending.id = seen
  /\ Pending(c)
  /\ \E typed \in Typeable(seen) :
       /\ Agree(seen, typed)
       /\ IF typed = View(c).sha
          THEN Resume(c, "approved") /\ UNCHANGED pending
          ELSE pending' = [pending EXCEPT !.left = @ - 1] /\ UNCHANGED at
  /\ UNCHANGED <<listener, req, requests, last, seen, prompted, line, crossed, world,
                 pushed>>

SubmitApproveUnbound(c) ==
  /\ Turn
  /\ seen # 0
  /\ pending # None
  /\ Pending(c)
  /\ \E typed \in Typeable(seen) :
       /\ Agree(seen, typed)
       /\ IF typed = View(c).sha
          THEN Resume(c, "approved") /\ UNCHANGED pending
          ELSE IF pending.left > 1
               THEN pending' = [pending EXCEPT !.left = @ - 1] /\ UNCHANGED at
               ELSE Resume(c, "declined") /\ UNCHANGED pending
  /\ UNCHANGED <<listener, req, requests, last, seen, prompted, line, crossed, world,
                 pushed>>

\* submitApprove, for the request the browser shows, with what was typed there.
\* A stale id changes nothing.
SubmitApprove(c) ==
  /\ Turn
  /\ seen # 0
  /\ pending # None
  /\ pending.id = seen
  /\ Pending(c)
  /\ \E typed \in Typeable(seen) :
       /\ Agree(seen, typed)
       /\ IF typed = View(c).sha
          THEN Resume(c, "approved") /\ UNCHANGED pending
          ELSE IF pending.left > 1
               THEN pending' = [pending EXCEPT !.left = @ - 1] /\ UNCHANGED at
               ELSE Resume(c, "declined") /\ UNCHANGED pending
  /\ UNCHANGED <<listener, req, requests, last, seen, prompted, line, crossed, world,
                 pushed>>

SubmitDecline(c) ==
  /\ Turn
  /\ seen # 0
  /\ pending # None
  /\ pending.id = seen
  /\ Pending(c)
  /\ Resume(c, "declined")
  /\ UNCHANGED <<listener, req, requests, hub, humans, world, pushed>>

-----------------------------------------------------------------------------
(* decide() resumes, and then the handler.                                 *)

Outcome(c, decision) == [id |-> req[c], decision |-> decision, publish |-> "none"]

CanceledStillPending(c) ==
  /\ at[c] = "canceled"
  /\ last' = Outcome(c, "canceled")
  /\ Finish(c, "refused")
  /\ UNCHANGED <<pending, req, requests, humans, world, pushed>>

\* An abort rejects decide(), at the gate or as soon as it is called.
Canceled(c) ==
  /\ at[c] = "canceled"
  /\ last' = Outcome(c, "canceled")
  /\ pending' = None
  /\ Finish(c, "refused")
  /\ UNCHANGED <<req, requests, humans, world, pushed>>

Declined(c) ==
  /\ at[c] = "declined"
  /\ last' = Outcome(c, "declined")
  /\ pending' = None
  /\ Finish(c, "refused")
  /\ UNCHANGED <<req, requests, humans, world, pushed>>

ApprovedReplyingFirst(c) ==
  /\ at[c] = "approved"
  /\ last' = Outcome(c, "approved")
  /\ pending' = None
  /\ L!Reply(c, "published")
  /\ Resume(c, "revalidate")
  /\ UNCHANGED <<conn, busy, aborted, owner, rereleased, req, requests, humans,
                 world, pushed>>

Approved(c) ==
  /\ at[c] = "approved"
  /\ last' = Outcome(c, "approved")
  /\ pending' = None
  /\ Resume(c, "revalidate")
  /\ UNCHANGED <<listener, req, requests, humans, world, pushed>>

\* reportOutcome.
Report(result) ==
  last' = IF last # None /\ last.decision = "approved"
          THEN [last EXCEPT !.publish = result] ELSE last

\* F6: everything the approval rested on still holds.
Revalidated(c) == ~aborted[c] /\ Current = View(c)

RefusePushUnreported(c) ==
  /\ at[c] = "revalidate"
  /\ ~Revalidated(c)
  /\ Finish(c, "refused")
  /\ UNCHANGED <<hub, req, requests, humans, world, pushed>>

RefusePush(c) ==
  /\ at[c] = "revalidate"
  /\ ~Revalidated(c)
  /\ Report("failed")
  /\ Finish(c, "refused")
  /\ UNCHANGED <<pending, req, requests, humans, world, pushed>>

\* No callback comes between the re-validation and the push, but the coder is
\* another process.
Revalidate(c) ==
  /\ at[c] = "revalidate"
  /\ Revalidated(c)
  /\ Resume(c, "push")
  /\ UNCHANGED <<listener, hub, req, requests, humans, world, pushed>>

PushHead(c) == pushed' = pushed \cup {[id |-> req[c], sha |-> head]}

\* git push of the rendered commit, by its sha, to the rendered URL.
PushApprovedSha(c) == pushed' = pushed \cup {[id |-> req[c], sha |-> View(c).sha]}

GhPrCreateBlamed(c) ==
  \/ Report("failed") /\ Finish(c, "refused")
  \/ Report("ok") /\ Finish(c, "published")

\* gh pr create, which may fail behind a push that succeeded.
GhPrCreate(c) ==
  \/ Report("failed") /\ Finish(c, "pr_failed")
  \/ Report("ok") /\ Finish(c, "published")

\* git push fails, or it succeeds and the pull request is next.
Push(c) ==
  /\ at[c] = "push"
  /\ \/ /\ Report("failed")
        /\ Finish(c, "refused")
        /\ UNCHANGED pushed
     \/ PushApprovedSha(c) /\ GhPrCreate(c)
  /\ UNCHANGED <<pending, req, requests, humans, world>>

-----------------------------------------------------------------------------
(* The coder's worktree, its local git config, the operator's registry.    *)

\* The target is None while origin does not parse or is not allow-listed, the
\* config has a key that is not trusted, or the ticket is not registered.
World ==
  /\ \/ head' \in Shas /\ UNCHANGED target
     \/ target' \in Targets \cup {None} /\ UNCHANGED head
  /\ UNCHANGED <<listener, at, req, requests, hub, humans, pushed>>

-----------------------------------------------------------------------------
Init ==
  /\ L!Init
  /\ at = [c \in Conns |-> "out"]
  /\ req = [c \in Conns |-> 0]
  /\ requests = <<>>
  /\ pending = None
  /\ last = None
  /\ seen = 0
  /\ prompted = 0
  /\ line = None
  /\ head \in Shas
  /\ target \in Targets
  /\ pushed = {}
  /\ agreed = {}
  /\ crossed = FALSE

Human ==
  \/ TypeLine
  \/ \E c \in Conns : SubmitApprove(c)
  \/ \E gates \in SUBSET Gates : ReadLine(gates)
  \/ \E c \in Conns : SubmitDecline(c)

Continue(c) ==
  \/ Refuse(c) \/ Render(c) \/ Canceled(c) \/ Declined(c) \/ Approved(c)
  \/ RefusePush(c) \/ Revalidate(c) \/ Push(c)

Next ==
  \/ \E c \in Conns : \/ Connect(c) \/ NoRequest(c) \/ Dispatch(c) \/ Abort(c)
                      \/ OpenGate(c) \/ Continue(c)
  \/ Human \/ Poll \/ World

Spec == Init /\ [][Next]_vars

\* Continuations run, and the approval budget's timer fires: it waits while
\* other callbacks and their continuations run, but the event loop comes round
\* to it (hence strong fairness).  Nothing is assumed of a human, a client or
\* the reviewer.
Fairness ==
  \A c \in Conns : WF_vars(Continue(c)) /\ SF_vars(Abort(c))

FairSpec == Spec /\ Fairness

-----------------------------------------------------------------------------
(* Properties.                                                             *)

Request == [sha : Shas, url : Targets]

\* The values each variable takes.
TypeOK ==
  /\ L!TypeOK
  /\ at \in [Conns -> Waiting \cup Due]
  /\ requests \in Seq(Request)
  /\ req \in [Conns -> 0 .. Len(requests)]
  /\ pending \in [id : 1 .. Len(requests), left : 1 .. AttemptsInit] \cup {None}
  /\ last \in [id : 1 .. Len(requests),
               decision : {"approved", "declined", "canceled"},
               publish : {"none", "failed", "ok"}] \cup {None}
  /\ seen \in 0 .. Len(requests)
  /\ prompted \in 0 .. Len(requests)
  /\ line \in [typed : Shas \cup {None}, for : 1 .. Len(requests)] \cup {None}
  /\ head \in Shas
  /\ target \in Targets \cup {None}
  /\ pushed \in SUBSET [id : 1 .. Len(requests), sha : Shas]
  /\ agreed \in SUBSET (1 .. Len(requests))
  /\ crossed \in BOOLEAN

\* approve.ts: "approval is sha-bound".  A commit is pushed only after a human
\* to whom it was shown has typed its sha, on either channel, also when prompts
\* overlap, when the answer to a prompt comes too late, and when the coder moves
\* HEAD behind the last re-validation.
ApprovalIsShaBound ==
  \A p \in pushed : \E n \in agreed : requests[n].sha = p.sha

\* handler.ts, step 8: a request is pushed only if a human approved that very
\* request.  An approval in a browser that still shows an earlier request does
\* not count for the one that is pending now, and a line on the terminal counts
\* for one request, unless prompts overlapped or the line was read late.
ApprovalIsOfTheRequest == ~crossed => \A p \in pushed : p.id \in agreed

\* server.ts: "the broker NEVER pushes after having replied failure", nor for a
\* peer that has left; and a refusal means that nothing was pushed.
NoPushBehindAFailure ==
  \A c \in Conns, p \in pushed :
    p.id = req[c] => answer[c] \in {"published", "pr_failed"}

\* While a request waits at the gate the hub knows it, so that the browser can
\* decide it; and what the hub offers to a browser is a request that waits.
GateIsDecidable ==
  /\ ~rereleased => \A c \in Gates : pending # None /\ pending.id = req[c]
  /\ Turn /\ pending # None => \E c \in Gates : req[c] = pending.id

\* gate.ts, reportOutcome: the browser's "pushing..." always resolves.
OutcomeReported ==
  Turn /\ last # None /\ last.decision = "approved" => last.publish # "none"

\* Every request that the broker has begun to handle ends, although no human
\* ever answers.
RequestEnds == \A c \in Conns : (at[c] # "out") ~> (at[c] = "out")

\* The requests that may still be published.
Open == {req[c] : c \in {d \in Conns : conn[d] = "handling" /\ answer[d] = "none"}}
          \ {0}

Gate == INSTANCE PublishGate
  WITH Offers <- Request,
       offers <- requests,
       open <- Open,
       published <- {p.id : p \in pushed}

\* The broker keeps its promise (PublishGate), also when the listener lets two
\* requests in at once.
KeepsThePromise == Gate!GateSpec

Hub == INSTANCE ApprovalHub WITH Ids <- 1 .. MaxRequests

\* gate.ts, seen from the approval socket, whoever decides: at most one request is
\* pending; its attempts only go down, and never to 0; an outcome appears when the
\* request goes, and only an approved one has a result.  This is the hub that
\* Serve puts the browser in front of.
ImplementsTheHub == Hub!HubSpec

-----------------------------------------------------------------------------
(* The inductive invariant behind the safety properties.                   *)

\* A connection has a handler exactly while it is handled.  Nothing is told to its
\* peer before it is aborted, and nothing aborts it before its handler has begun.
HandlerInv ==
  \A c \in Conns :
    /\ at[c] # "out" <=> conn[c] = "handling"
    /\ conn[c] = "reading" \/ at[c] \in {"validate", "push"} => ~aborted[c]
    /\ L!Active(c) /\ ~aborted[c] => answer[c] = "none"

\* A handler has a request of its own from the moment it is rendered.
RequestInv ==
  /\ Len(requests) <= MaxRequests
  /\ \A c \in Conns :
       /\ conn[c] \in {"reading", "dying"} \/ at[c] = "validate" => req[c] = 0
       /\ at[c] \notin {"out", "validate"} => req[c] # 0
  /\ \A c, d \in Conns : req[c] = req[d] /\ req[c] # 0 => c = d

\* What approves a request was typed by a human who was shown its commit.
ApprovalInv ==
  /\ line # None /\ line.typed # None =>
       line.for \in agreed /\ requests[line.for].sha = line.typed
  /\ \A c \in Conns : at[c] \in {"approved", "revalidate", "push"} =>
       /\ \E n \in agreed : requests[n].sha = requests[req[c]].sha
       /\ ~crossed => req[c] \in agreed

\* A request that was pushed is over, and its peer has been told so.
PushedInv ==
  \A p \in pushed, c \in Conns :
    p.id = req[c] => at[c] = "out" /\ answer[c] \in {"published", "pr_failed"}

Undecided == {"gate", "approved", "declined", "canceled"}

\* A pending approval is one of a handler that has not left the gate, and an
\* approval that has no result yet one of a handler that is about to push.
HubInv ==
  /\ pending # None => \E c \in Conns : at[c] \in Undecided /\ req[c] = pending.id
  /\ last # None /\ last.decision = "approved" /\ last.publish = "none" =>
       \E c \in Conns : at[c] \in {"revalidate", "push"}

\* As long as requests are handled one at a time, the one at the gate is pending.
GateInv == ~rereleased => \A c \in Gates : pending # None /\ pending.id = req[c]

IInv ==
  /\ TypeOK
  /\ L!IInv
  /\ HandlerInv
  /\ RequestInv
  /\ ApprovalInv
  /\ PushedInv
  /\ HubInv
  /\ GateInv
  /\ ApprovalIsShaBound
  /\ ApprovalIsOfTheRequest
=============================================================================

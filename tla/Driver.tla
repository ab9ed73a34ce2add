------------------------------- MODULE Driver -------------------------------
(***************************************************************************)
(* The multi-repository driver (multi/driver.ts) over its checkpoint file  *)
(* (multi/state.ts): one ticket, several repositories, each taken through  *)
(* the single-repository pipeline (orchestrator.ts) by way of the worker   *)
(* daemon and the broker.  A driver run can die anywhere, and another run  *)
(* of the same ticket resumes from the file and from the worktrees as they *)
(* were left.                                                              *)
(*                                                                         *)
(* A commit is a number; 0 is the one the worktree was cloned at.          *)
(*                                                                         *)
(* Auxiliary state, read by no action's guard: shipped (what the remotes   *)
(* have, and what it rested on when it was pushed), began and tested.      *)
(***************************************************************************)
EXTENDS Integers, Sequences

CONSTANTS
  Repos,           \* config/repos.json
  Selections,      \* the --repos arguments, resolved: sequences of repositories
  Instructions,    \* the instructions a run can be given
  MaxFixAttempts,  \* MAX_FIX_ATTEMPTS
  MaxCommits,      \* bound: commits made after the clone, per repository
  MaxRuns,         \* bound: driver runs of the ticket
  None             \* null

ASSUME DriverAssumption ==
  /\ MaxFixAttempts \in Nat
  /\ MaxCommits \in Nat
  /\ MaxRuns \in Nat
  /\ \A s \in Selections :
       /\ s \in Seq(Repos)
       /\ \A i, j \in 1 .. Len(s) : s[i] = s[j] => i = j

ASSUME NullAssumption ==
  /\ None \notin Nat
  /\ None \notin Instructions
  /\ None \notin [op : {"edit", "test"}, repo : Repos, client : BOOLEAN]
  /\ None \notin [repo : Repos, sha : Nat \cup {None}]
  /\ None \notin [instruction : Instructions,
                  outcome : [Repos -> {"none", "pending", "published",
                                       "declined", "not_ready", "failed"}],
                  sha : [Repos -> Nat \cup {None}]]

VARIABLES
  head,     \* head[r]: the commit at HEAD of r's worktree
  newest,   \* newest[r]: the number of commits ever made in r
  wd,       \* the operation the worker daemon is executing, or None
  reply,    \* the worker daemon's answer, not yet consumed by the driver
  file,     \* phase3-state.json, or None; the driver's own copy is always equal
  pc,       \* where the driver waits; "off" when none runs
  order,    \* the repositories selected for this run, in order
  todo,     \* the positions in it of those that are not skipped
  at,       \* the position of the one being prepared, or in the pipeline
  base,     \* baseSha of each repository prepared
  ready,    \* the repositories whose plan has ready_to_implement
  wired,    \* BROKER_SOCKET is set in this run
  attempt,  \* fix attempts used
  judged,   \* the base and the head of the diff last reviewed
  approve,  \* review.verdict is "approve"
  began,    \* auxiliary: what was at HEAD when the tests began, once they have
  tested,   \* auxiliary: what it left at HEAD when it last passed, approved
  intent,   \* the intent with the broker, and the sha it pushed, or None
  shipped,  \* auxiliary: the pushes made
  runs      \* the number of runs so far

worktree == <<head, newest>>
rpc      == <<wd, reply>>
work     == <<order, todo, at, base, ready, wired>>
round    == <<attempt, judged, approve, began, tested>>
vars     == <<worktree, rpc, file, pc, work, round, intent, shipped, runs>>

Outcomes == {"none", "pending", "published", "declined", "not_ready", "failed"}

TicketState == [instruction : Instructions,
                outcome     : [Repos -> Outcomes],
                sha         : [Repos -> Nat \cup {None}]]

Push == [repo : Repos, sha : Nat, story : Instructions, run : Nat, from : Nat,
         vetted : BOOLEAN]

Reply == [kind : {"none", "error", "outcome", "pass", "fail"}, sha : Nat]

NoReply == [kind |-> "none", sha |-> 0]

NoDiff == [from |-> 0, head |-> 0]

Current == order[at]

-----------------------------------------------------------------------------
(* The ticket's state (multi/state.ts) and its resumption.                 *)

NewState(instruction) ==
  [instruction |-> instruction,
   outcome     |-> [r \in Repos |-> "none"],
   sha         |-> [r \in Repos |-> None]]

Published(state, r) == state.outcome[r] = "published"

ResolveAdopting(state, given) == given

\* resolveResumedInstruction: adopt the one given until something is published.
Resolve(state, given) ==
  IF \E r \in Repos : Published(state, r) THEN state.instruction ELSE given

\* setRepoState: the entry is replaced as a whole, and the file with it.
WithOutcome(state, r, outcome, sha) ==
  [state EXCEPT !.outcome[r] = outcome, !.sha[r] = sha]

-----------------------------------------------------------------------------
(* The life of a run.                                                      *)

\* The locals of runOrchestrator go.
ForgetRound ==
  /\ attempt' = 0
  /\ judged' = NoDiff
  /\ approve' = FALSE
  /\ began' = 0
  /\ tested' = 0

\* The process ends: whatever it kept in memory is gone, and whoever waited for
\* it at the other end of a socket sees it go.  The broker then aborts.
Leave ==
  /\ pc' = "off"
  /\ order' = <<>>
  /\ todo' = {}
  /\ at' = 0
  /\ base' = [r \in Repos |-> 0]
  /\ ready' = {}
  /\ wired' = FALSE
  /\ ForgetRound
  /\ intent' = None

HangUp ==
  /\ wd' = IF wd = None THEN None ELSE [wd EXCEPT !.client = FALSE]
  /\ reply' = NoReply

Resumed(given) ==
  IF file = None THEN NewState(given)
  ELSE [file EXCEPT !.instruction = Resolve(file, given)]

TodoEverything(state, selection) == 1 .. Len(selection)

\* Skip the repositories already published; everything else is work.
Todo(state, selection) ==
  {i \in 1 .. Len(selection) : ~Published(state, selection[i])}

First(S, i) == i \in S /\ \A j \in S : i <= j

\* runDriver up to the first await.  A run that finds nothing to do ends here.
Start ==
  /\ pc = "off"
  /\ runs < MaxRuns
  /\ runs' = runs + 1
  /\ \E selection \in Selections, given \in Instructions :
       /\ file' = Resumed(given)
       /\ \/ /\ Todo(file', selection) = {}
             /\ UNCHANGED <<pc, work>>
          \/ /\ order' = selection
             /\ todo' = Todo(file', selection)
             /\ \E i \in todo' : First(todo', i) /\ at' = i
             /\ wired' \in BOOLEAN
             /\ pc' = "setup"
             /\ UNCHANGED <<base, ready>>
  /\ UNCHANGED <<worktree, rpc, round, intent, shipped>>

\* The positions after the current one.
Later == {i \in todo : i > at}

\* The process dies at an await, or between two records.
Crash ==
  /\ pc # "off"
  /\ Leave
  /\ HangUp
  /\ UNCHANGED <<worktree, file, shipped, runs>>

\* The current repository's outcome is recorded, and the run ends there.
StopWith(outcome) ==
  /\ file' = WithOutcome(file, Current, outcome, None)
  /\ Leave

-----------------------------------------------------------------------------
(* The combined plan.                                                      *)

\* setup_worktree: the worktree is cloned, or reused as it is, and its HEAD
\* becomes the base of the review.  Refused while the worker daemon is busy.
SetUp ==
  /\ pc = "setup"
  /\ wd = None
  /\ base' = [base EXCEPT ![Current] = head[Current]]
  /\ file' = WithOutcome(file, Current, "pending", None)
  /\ pc' = "plan"
  /\ UNCHANGED <<worktree, rpc, order, todo, at, ready, wired, round, intent, shipped,
                 runs>>

\* runPlan answers, and the next repository is prepared, or the plans shown.
Planned ==
  /\ pc = "plan"
  /\ ready' \in {ready, ready \cup {Current}}
  /\ \/ pc' = "setup" /\ \E i \in Later : First(Later, i) /\ at' = i
     \/ pc' = "gate" /\ Later = {} /\ \E i \in todo : First(todo, i) /\ at' = i
  /\ UNCHANGED <<worktree, rpc, file, order, todo, base, wired, round, intent, shipped,
                 runs>>

\* setup_worktree or runPlan threw: nobody catches it, the process ends.
PreparationFails ==
  /\ pc \in {"setup", "plan"}
  /\ Leave
  /\ UNCHANGED <<worktree, rpc, file, shipped, runs>>

\* The one gate over all plans.
ApprovePlans ==
  /\ pc = "gate"
  /\ pc' = "next"
  /\ UNCHANGED <<worktree, rpc, file, work, round, intent, shipped, runs>>

DeclinePlans ==
  /\ pc = "gate"
  /\ LET declined == {order[i] : i \in todo}
     IN  file' = [file EXCEPT
           !.outcome = [r \in Repos |->
                          IF r \in declined THEN "declined" ELSE @[r]],
           !.sha = [r \in Repos |-> IF r \in declined THEN None ELSE @[r]]]
  /\ Leave
  /\ UNCHANGED <<worktree, rpc, shipped, runs>>

-----------------------------------------------------------------------------
(* The pipeline of one repository (runOrchestrator).                       *)

Call(op) == wd' = [op |-> op, repo |-> Current, client |-> TRUE]

CallTests == Call("test") /\ began' = head[Current]

NotReady ==
  /\ pc = "next"
  /\ Current \notin ready
  /\ StopWith("not_ready")
  /\ UNCHANGED <<worktree, rpc, shipped, runs>>

Implement ==
  /\ pc = "next"
  /\ Current \in ready
  /\ Call("edit")
  /\ attempt' = 0
  /\ pc' = "implement"
  /\ UNCHANGED <<worktree, reply, file, work, judged, approve, began, tested, intent,
                 shipped, runs>>

EditedSkippingReview ==
  /\ pc \in {"implement", "fix"}
  /\ reply.kind = "outcome"
  /\ reply' = NoReply
  /\ IF pc = "implement"
     THEN /\ judged' = [from |-> base[Current], head |-> head[Current]]
          /\ pc' = "review"
          /\ began' = 0
          /\ UNCHANGED wd
     ELSE /\ CallTests
          /\ pc' = "test"
          /\ UNCHANGED judged
  /\ UNCHANGED <<worktree, file, work, attempt, approve, tested, intent, shipped,
                 runs>>

\* The step is committed: the diff from the base is computed, and reviewed.
Edited ==
  /\ pc \in {"implement", "fix"}
  /\ reply.kind = "outcome"
  /\ reply' = NoReply
  /\ judged' = [from |-> base[Current], head |-> head[Current]]
  /\ began' = 0
  /\ pc' = "review"
  /\ UNCHANGED <<worktree, wd, file, work, attempt, approve, tested, intent, shipped,
                 runs>>

\* The tests run whatever the verdict.
Reviewed ==
  /\ pc = "review"
  /\ approve' \in BOOLEAN
  /\ CallTests
  /\ pc' = "test"
  /\ UNCHANGED <<worktree, reply, file, work, attempt, judged, tested, intent,
                 shipped, runs>>

Tested(clean) ==
  /\ pc = "test"
  /\ reply.kind \in {"pass", "fail"}
  /\ clean <=> approve /\ reply.kind = "pass"
  /\ reply' = NoReply

\* Approved and green: the loop ends, and a human is asked.  Nobody looks at HEAD
\* again.
Clean ==
  /\ Tested(TRUE)
  /\ tested' = reply.sha
  /\ pc' = "ask"
  /\ UNCHANGED <<worktree, wd, file, work, attempt, judged, approve, began, intent,
                 shipped, runs>>

FixUncounted ==
  /\ Tested(FALSE)
  /\ attempt < MaxFixAttempts
  /\ Call("edit")
  /\ pc' = "fix"
  /\ UNCHANGED <<worktree, file, work, attempt, judged, approve, began, tested, intent,
                 shipped, runs>>

Fix ==
  /\ Tested(FALSE)
  /\ attempt < MaxFixAttempts
  /\ attempt' = attempt + 1
  /\ Call("edit")
  /\ pc' = "fix"
  /\ UNCHANGED <<worktree, file, work, judged, approve, began, tested, intent, shipped,
                 runs>>

GiveUp ==
  /\ Tested(FALSE)
  /\ attempt >= MaxFixAttempts
  /\ StopWith("failed")
  /\ UNCHANGED <<worktree, wd, shipped, runs>>

\* The step answered an error, the client timed out, the diff is incomplete, the
\* review threw: the driver catches it.  The worker daemon may still be at work.
StepFails ==
  /\ pc \in {"implement", "fix", "review", "test"}
  /\ StopWith("failed")
  /\ HangUp
  /\ UNCHANGED <<worktree, shipped, runs>>

-----------------------------------------------------------------------------
(* Publication.                                                            *)

\* "No" to the caveat, or to the last question; also a terminal that is gone.
DeclinePublish ==
  /\ pc = "ask"
  /\ StopWith("declined")
  /\ UNCHANGED <<worktree, rpc, shipped, runs>>

\* The loop goes on with the next repository, or the run ends.
Continue ==
  \/ /\ \E i \in Later : First(Later, i) /\ at' = i
     /\ pc' = "next"
     /\ intent' = None
     /\ ForgetRound
     /\ UNCHANGED <<order, todo, base, ready, wired>>
  \/ Later = {} /\ Leave

\* Without a broker nothing is pushed, and the flow completes as published.
PublishStub ==
  /\ pc = "ask"
  /\ ~wired
  /\ file' = WithOutcome(file, Current, "published", None)
  /\ Continue
  /\ UNCHANGED <<worktree, rpc, shipped, runs>>

SendIntent ==
  /\ pc = "ask"
  /\ wired
  /\ intent' = [repo |-> Current, sha |-> None]
  /\ pc' = "publish"
  /\ UNCHANGED <<worktree, rpc, file, work, round, shipped, runs>>

\* The test command passed with r's HEAD where it is now, and the reviewer approved
\* the commit that it had begun with.
Vetted(r) == approve /\ judged.head = began /\ tested = head[r]

\* The broker pushes the commit at HEAD.
BrokerPushes ==
  /\ intent # None
  /\ intent.sha = None
  /\ LET r == intent.repo
     IN  /\ intent' = [intent EXCEPT !.sha = head[r]]
         /\ shipped' = shipped \cup
              {[repo |-> r, sha |-> head[r], story |-> file.instruction,
                run |-> runs, from |-> judged.from, vetted |-> Vetted(r)]}
  /\ UNCHANGED <<worktree, rpc, file, pc, work, round, runs>>

PublishedOnAnyAnswer ==
  /\ pc = "publish"
  /\ file' = WithOutcome(file, Current, "published", head[Current])
  /\ Continue
  /\ UNCHANGED <<worktree, rpc, shipped, runs>>

\* The broker's answer: pushed, and the pull request is open.
PublishAnswered ==
  /\ pc = "publish"
  /\ intent.sha # None
  /\ file' = WithOutcome(file, Current, "published", intent.sha)
  /\ Continue
  /\ UNCHANGED <<worktree, rpc, shipped, runs>>

PublishFailsGoingOn ==
  /\ pc = "publish"
  /\ file' = WithOutcome(file, Current, "failed", None)
  /\ Continue
  /\ UNCHANGED <<worktree, rpc, shipped, runs>>

\* The broker refused, or no pull request could be opened for what it had
\* pushed, or its answer was lost.
PublishFails ==
  /\ pc = "publish"
  /\ StopWith("failed")
  /\ UNCHANGED <<worktree, rpc, shipped, runs>>

-----------------------------------------------------------------------------
(* The worker daemon.                                                      *)

\* The answer reaches the driver only if it is still connected.
Answer(value) ==
  /\ wd' = None
  /\ reply' = IF wd.client THEN value ELSE reply

\* Who has a shell in r's worktree may make a commit of its own, or go back to an
\* earlier one.
ShellIn(r) ==
  \E c \in 0 .. newest[r] + 1 :
    /\ c <= MaxCommits
    /\ head' = [head EXCEPT ![r] = c]
    /\ newest' = [newest EXCEPT ![r] = IF c > @ THEN c ELSE @]

\* An edit session at work.
EditSession ==
  /\ wd # None
  /\ wd.op = "edit"
  /\ ShellIn(wd.repo)
  /\ UNCHANGED <<rpc, file, pc, work, round, intent, shipped, runs>>

\* The session is over: what it left uncommitted, if anything, is committed.
EditEnds ==
  /\ wd # None
  /\ wd.op = "edit"
  /\ \/ UNCHANGED worktree
     \/ /\ newest[wd.repo] < MaxCommits
        /\ newest' = [newest EXCEPT ![wd.repo] = @ + 1]
        /\ head' = [head EXCEPT ![wd.repo] = newest'[wd.repo]]
  /\ \E kind \in {"outcome", "error"} :
       Answer([kind |-> kind, sha |-> head'[wd.repo]])
  /\ UNCHANGED <<file, pc, work, round, intent, shipped, runs>>

\* The test command at work: a shell runs it, and what it runs are scripts of the
\* repository, which the coder writes.
TestCommand ==
  /\ wd # None
  /\ wd.op = "test"
  /\ ShellIn(wd.repo)
  /\ UNCHANGED <<rpc, file, pc, work, round, intent, shipped, runs>>

\* It exits, or its budget kills it.
TestsEnd ==
  /\ wd # None
  /\ wd.op = "test"
  /\ \E kind \in {"pass", "fail"} :
       Answer([kind |-> kind, sha |-> head[wd.repo]])
  /\ UNCHANGED <<worktree, file, pc, work, round, intent, shipped, runs>>

-----------------------------------------------------------------------------
Init ==
  /\ head = [r \in Repos |-> 0]
  /\ newest = [r \in Repos |-> 0]
  /\ wd = None
  /\ reply = NoReply
  /\ file = None
  /\ pc = "off"
  /\ order = <<>>
  /\ todo = {}
  /\ at = 0
  /\ base = [r \in Repos |-> 0]
  /\ ready = {}
  /\ wired = FALSE
  /\ attempt = 0
  /\ judged = NoDiff
  /\ approve = FALSE
  /\ began = 0
  /\ tested = 0
  /\ intent = None
  /\ shipped = {}
  /\ runs = 0

Prepare == SetUp \/ Planned \/ PreparationFails

Pipeline ==
  \/ NotReady \/ Implement \/ Edited \/ Reviewed \/ Clean \/ Fix \/ GiveUp
  \/ StepFails

Publish == PublishAnswered \/ PublishFails

Human == ApprovePlans \/ DeclinePlans \/ DeclinePublish \/ PublishStub \/ SendIntent

WorkerDaemon == EditSession \/ EditEnds \/ TestCommand \/ TestsEnd

Next ==
  \/ Start \/ Prepare \/ Human \/ Pipeline \/ BrokerPushes \/ Publish
  \/ WorkerDaemon \/ Crash

Spec == Init /\ [][Next]_vars

\* Every await of a run settles without the help of the other side: the worker
\* client and the broker client time out, and the SDK sessions have a turn limit.
\* Nothing is assumed of a human or of the worker daemon.
Fairness ==
  /\ WF_vars(Prepare)
  /\ WF_vars(Pipeline)
  /\ WF_vars(Publish)

FairSpec == Spec /\ Fairness

-----------------------------------------------------------------------------
(* Properties.                                                             *)

\* The values each variable takes.
TypeOK ==
  /\ head \in [Repos -> Nat]
  /\ newest \in [Repos -> Nat]
  /\ wd \in [op : {"edit", "test"}, repo : Repos, client : BOOLEAN] \cup {None}
  /\ reply \in Reply
  /\ file \in TicketState \cup {None}
  /\ pc \in {"off", "setup", "plan", "gate", "next", "implement", "fix",
             "review", "test", "ask", "publish"}
  /\ order \in Selections \cup {<<>>}
  /\ todo \subseteq Nat
  /\ at \in Nat
  /\ base \in [Repos -> Nat]
  /\ ready \subseteq Repos
  /\ wired \in BOOLEAN
  /\ attempt \in 0 .. MaxFixAttempts
  /\ judged \in [from : Nat, head : Nat]
  /\ approve \in BOOLEAN
  /\ began \in Nat
  /\ tested \in Nat
  /\ intent \in [repo : Repos, sha : Nat \cup {None}] \cup {None}
  /\ shipped \subseteq Push
  /\ runs \in 0 .. MaxRuns

\* orchestrator.ts: "no publish gate is even offered unless the tree is both
\* approved and green".  Whatever the broker pushed, a test command passed that left
\* this commit at HEAD, and the reviewer approved the commit which that command began
\* with, in the run that pushed it, however many rounds of fixes there were and
\* whatever earlier runs left running.  The two are one commit, but for what the test
\* command itself has moved, which the code does not look at.
ShippedIsVetted == \A p \in shipped : p.vetted

\* driver.ts: "a later repo pursuing different work than an already-published
\* one would make the ticket's history inconsistent with what shipped".  A
\* repository on record as published was pushed at the recorded commit, for the
\* instruction on record, in whatever run (or without a broker, and then has no
\* commit on record).
RecordIsTrue ==
  file # None =>
    \A r \in Repos : Published(file, r) /\ file.sha[r] # None =>
      \E p \in shipped : /\ p.repo = r
                         /\ p.sha = file.sha[r]
                         /\ p.story = file.instruction

OnRecord(p) == Published(file, p.repo) /\ file.sha[p.repo] = p.sha

\* driver.ts: "stops and reports EXACTLY which repos were and were not
\* published".  A run leaves at most one push behind that the file does not
\* know of, however it fails.
OneUnrecordedPerRun ==
  \A p, q \in shipped :
    p.run = q.run /\ ~OnRecord(p) /\ ~OnRecord(q) => p = q

\* state.ts: "a repo marked 'published' is SKIPPED on a re-run": a push on record
\* stays on record, whatever later runs do, and the broker pushes nothing for a
\* repository on record as published.
NothingShipsTwice ==
  [][/\ \A p \in shipped : OnRecord(p) => OnRecord(p)'
     /\ \A p \in shipped' \ shipped : ~Published(file, p.repo)]_vars

\* A run that waits for no human ends, or comes to wait for one.
RunEnds == (pc \notin {"off", "gate", "ask"}) ~> (pc \in {"off", "gate", "ask"})

\* The file is the record that TicketRecord promises.
Record == INSTANCE TicketRecord WITH
  Stories      <- Instructions,
  Participants <- Repos,
  NoStory      <- None,
  story        <- IF file = None THEN None ELSE file.instruction,
  done         <- IF file = None THEN {} ELSE {r \in Repos : Published(file, r)}

KeepsTheRecord == Record!TicketSpec

-----------------------------------------------------------------------------
(* The inductive invariant behind the safety properties.                   *)

\* The work of a run is unpublished: all of it until the plans are approved, and
\* then the repository in the pipeline and those after it.
WorkInv ==
  pc # "off" =>
    /\ file # None
    /\ order \in Selections
    /\ todo \subseteq 1 .. Len(order)
    /\ at \in todo
    /\ \A i \in todo : i >= at \/ pc \in {"setup", "plan", "gate"}
                         => ~Published(file, order[i])

\* The worker daemon serves the step in flight, or a step whose caller is gone
\* while no pipeline runs, so that no step of a pipeline is refused as busy; an
\* answer of the tests is about the commit at HEAD.
RpcInv ==
  /\ wd # None /\ wd.client =>
       /\ pc \in IF wd.op = "edit" THEN {"implement", "fix"} ELSE {"test"}
       /\ wd.repo = Current
       /\ reply.kind = "none"
  /\ wd # None /\ ~wd.client => pc \in {"off", "setup"}
  /\ reply.kind # "none" => wd = None /\ pc \in {"implement", "fix", "test"}
  /\ reply.kind \in {"pass", "fail"} => pc = "test" /\ reply.sha = head[Current]

\* What was reviewed is at HEAD until the test command begins, and from the
\* confirmation on it is approved, and what the command left is at HEAD.
VettedInv ==
  /\ pc = "review" => judged.head = head[Current]
  /\ pc = "test" => judged.head = began
  /\ pc \in {"ask", "publish"} => Vetted(Current)

\* The push that the intent in flight led to.
ThisPush ==
  [repo |-> Current, sha |-> head[Current], story |-> file.instruction,
   run |-> runs, from |-> judged.from, vetted |-> Vetted(Current)]

\* The broker has at most the intent in flight; what it pushed for it is the one
\* push of this run that is not on record.  Nothing is pushed without a record.
IntentInv ==
  /\ file = None => shipped = {}
  /\ intent # None <=> pc = "publish"
  /\ intent # None => /\ intent.repo = Current
                      /\ intent.sha # None => /\ intent.sha = head[Current]
                                              /\ ThisPush \in shipped
  /\ \A p \in shipped :
       /\ p.run <= runs
       /\ pc # "off" /\ p.run = runs /\ ~OnRecord(p)
            => pc = "publish" /\ intent.sha # None /\ p = ThisPush

IInv ==
  /\ TypeOK
  /\ WorkInv
  /\ RpcInv
  /\ VettedInv
  /\ IntentInv
  /\ ShippedIsVetted
  /\ RecordIsTrue
  /\ OneUnrecordedPerRun
=============================================================================

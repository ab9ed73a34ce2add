------------------------------- MODULE Spine -------------------------------
(***************************************************************************)
(* One spined session on one ticket: the executor that runs one typed      *)
(* action at a time (spine/executor.ts), the per-repo ledger that gates    *)
(* publication (spine/ledger.ts), its file, and the worktrees behind it,   *)
(* which only the worker daemon changes (exec.ts, workerd/handlers.ts,     *)
(* gitops.ts).                                                             *)
(*                                                                         *)
(* A commit is a number; 0 is the one the worktree was cloned at.  Every   *)
(* await of the executor is a pair of steps (the dispatch and its answer), *)
(* so a crash of the daemon, an answer that is lost and a worker that      *)
(* outlives its caller all fall between them.                              *)
(*                                                                         *)
(* Auxiliary state, read by no action's guard: the fields "ran", "judged"  *)
(* and "from" of a verdict (the commit that the test command left at HEAD, *)
(* what the reviewer really read), lost, seeded, started, crashes and      *)
(* unsaved.                                                                *)
(***************************************************************************)
EXTENDS Integers

CONSTANTS
  Repos,          \* the ticket's repositories
  Policy,         \* approvalPolicy: "in-chat" (REPL) or "broker-only" (spined)
  MaxActions,     \* MRW_SPINE_MAX_ACTIONS
  MaxWorkerRuns,  \* MRW_SPINE_MAX_WORKER_RUNS
  MaxCommits,     \* bound: commits made after the clone, per repository
  MaxCrashes,     \* bound: daemon deaths in the middle of a dispatch
  MaxFailures,    \* bound: writes of the ledger's file that fail
  None            \* null

ASSUME BoundsAssumption ==
  /\ MaxActions \in Nat
  /\ MaxWorkerRuns \in Nat
  /\ MaxCommits \in Nat
  /\ MaxCrashes \in Nat
  /\ MaxFailures \in Nat

ASSUME PolicyAssumption == Policy \in {"in-chat", "broker-only"}

ASSUME NoneAssumption ==
  /\ None \notin Repos
  /\ None \notin Nat
  /\ None \notin [sha : Nat, ran : Nat]
  /\ None \notin [sha : Nat, judged : Nat, from : Nat]
  /\ None \notin [op : {"edit", "test"}, repo : Repos, client : BOOLEAN]

VARIABLES
  head,     \* head[r]: the commit at HEAD of r's worktree
  newest,   \* newest[r]: the number of commits ever made in r
  dirty,    \* dirty[r]: r's worktree differs from HEAD
  wd,       \* the operation the (serial) worker daemon is executing, or None
  reply,    \* the worker daemon's answer, not yet consumed by the executor
  up,       \* the spined process is running
  pc,       \* where the executor is: "idle" iff its busy flag is down
  cur,      \* the repository of the action being executed
  judged,   \* review_diff: the base and the head of the diff handed over
  ended,    \* EndedInfo
  entry,    \* the ledger's repos, in memory
  used,     \* the ledger's consumed budgets, in memory
  disk,     \* spine-ledger.json
  unsaved,  \* auxiliary: the last write of the file failed
  failures, \* auxiliary: writes that failed since the ledger was seeded
  lost,     \* auxiliary: a run_worker or a run_tests of r ended without a recorded
            \* outcome, or a record of r was forgotten, and no run_worker has cleared
            \* r's verdicts since
  seeded,   \* auxiliary: HEAD of r when spine-prepare seeded the ledger
  started,  \* auxiliary: edit sessions begun since the ledger was seeded
  crashes   \* auxiliary: deaths in mid-dispatch since the ledger was seeded

worktree == <<head, newest, dirty>>
rpc      == <<wd, reply>>
session  == <<up, ended>>
call     == <<pc, cur, judged>>
file     == <<disk, unsaved, failures>>
ledger   == <<entry, used, file>>
aux      == <<lost, seeded, started, crashes>>
vars     == <<worktree, rpc, session, call, ledger, aux>>

Green    == [sha : Nat, ran : Nat]
Approved == [sha : Nat, judged : Nat, from : Nat]

Entry == [base      : Nat,
          head      : Nat,
          plan      : BOOLEAN,
          green     : Green \cup {None},
          approved  : Approved \cup {None},
          published : Nat \cup {None}]

Budget == [actions : 0 .. MaxActions, runs : 0 .. MaxWorkerRuns]

Steps == {"idle", "worker", "tests", "review", "plan", "ask", "ack",
          "confirm", "publish"}

Reply == [kind : {"none", "error", "outcome", "pass", "fail"}, sha : Nat]

NoReply == [kind |-> "none", sha |-> 0]

NoDiff == [from |-> 0, head |-> 0]

Error == [NoReply EXCEPT !.kind = "error"]

-----------------------------------------------------------------------------
(* The ledger's transitions (SpineLedger).                                 *)

FreshEntry(sha) == [base |-> sha, head |-> sha, plan |-> FALSE, green |-> None,
                    approved |-> None, published |-> None]

Seed(heads) == [r \in Repos |-> FreshEntry(heads[r])]

NothingUsed == [actions |-> 0, runs |-> 0]

RecordWorkerRun(e, sha) ==
  IF e.head = sha THEN e
  ELSE [e EXCEPT !.green = None, !.approved = None, !.head = sha]

RecordTests(e, verdict) == [e EXCEPT !.green = verdict]

RecordReview(e, verdict) == [e EXCEPT !.approved = verdict]

CanPublish(e) ==
  /\ e.plan
  /\ e.green # None
  /\ e.green.sha = e.head
  /\ e.approved # None
  /\ e.approved.sha = e.head

ActionAllowed == used.actions < MaxActions

WorkerRunAllowedAlways == used.runs \in Nat

WorkerRunAllowed == used.runs < MaxWorkerRuns

Charged == [used EXCEPT !.actions = @ + 1]

ChargedRun == [used EXCEPT !.actions = @ + 1, !.runs = @ + 1]

-----------------------------------------------------------------------------
(* Dispatch.                                                               *)

ReadyThoughBusy == up /\ ended = "no"

\* dispatch() neither refuses with session_ended nor with busy.
Ready == up /\ ended = "no" /\ pc = "idle"

\* The synchronous head of runAction: the action is charged, then suspended at
\* its first await.  Nothing is written to disk before the action ends.
Suspend(r, step) ==
  /\ Ready
  /\ ActionAllowed
  /\ pc' = step
  /\ cur' = r

ReturnSavingRecordsOnly(e, u) ==
  /\ pc' = "idle"
  /\ cur' = None
  /\ judged' = NoDiff
  /\ entry' = e
  /\ used' = u
  /\ disk' = IF e = entry THEN disk ELSE [entry |-> e, used |-> u]
  /\ UNCHANGED <<unsaved, failures>>

\* persist(): the file gets the whole ledger, by a rename, or the write fails and
\* leaves the file as it was.  Then the caller gets an exception for its result,
\* and the executor goes on with what it has in memory.
Persist(e, u) ==
  \/ /\ disk' = [entry |-> e, used |-> u]
     /\ unsaved' = FALSE
     /\ UNCHANGED failures
  \/ /\ failures < MaxFailures
     /\ failures' = failures + 1
     /\ unsaved' = TRUE
     /\ UNCHANGED disk

\* The end of dispatch(): the action's locals go, busy is lowered and the ledger is
\* persisted.
Return(e, u) ==
  /\ pc' = "idle"
  /\ cur' = None
  /\ judged' = NoDiff
  /\ entry' = e
  /\ used' = u
  /\ Persist(e, u)

\* An action answered without a suspension and without a record: an unknown
\* repository, show_human, or a diff that could not be computed completely.
AnswerAtOnce ==
  /\ Ready
  /\ ActionAllowed
  /\ Return(entry, Charged)
  /\ UNCHANGED <<worktree, rpc, session, aux>>

\* The session's budget is used up.
RefuseAction ==
  /\ Ready
  /\ ~ActionAllowed
  /\ Return(entry, used)
  /\ UNCHANGED <<worktree, rpc, session, aux>>

-----------------------------------------------------------------------------
(* run_worker.                                                             *)

RefuseWorkerRun ==
  /\ Ready
  /\ ActionAllowed
  /\ ~WorkerRunAllowed
  /\ Return(entry, Charged)
  /\ UNCHANGED <<worktree, rpc, session, aux>>

StartWorker(r) ==
  /\ WorkerRunAllowed
  /\ wd = None
  /\ Suspend(r, "worker")
  /\ used' = ChargedRun
  /\ wd' = [op |-> "edit", repo |-> r, client |-> TRUE]
  /\ started' = started + 1
  /\ UNCHANGED <<worktree, reply, session, judged, entry, file, lost, seeded,
                 crashes>>

\* The worker daemon answers "busy": an earlier caller's edit session still
\* runs.  (A test command blocks the daemon: a caller waits for its end.)
WorkerBusy ==
  /\ Ready
  /\ ActionAllowed
  /\ wd # None
  /\ wd.op = "edit"
  /\ \/ Return(entry, Charged)
     \/ WorkerRunAllowed /\ Return(entry, ChargedRun)
  /\ UNCHANGED <<worktree, rpc, session, aux>>

\* A new head clears the verdicts, whatever was lost before.
RecordOutcome(r) ==
  /\ up
  /\ pc = "worker"
  /\ cur = r
  /\ reply.kind = "outcome"
  /\ Return([entry EXCEPT ![r] = RecordWorkerRun(@, reply.sha)], used)
  /\ reply' = NoReply
  /\ lost' = [lost EXCEPT ![r] = @ /\ entry[r].head = reply.sha]
  /\ UNCHANGED <<worktree, wd, session, seeded, started, crashes>>

\* The step answered with an error: step_failed, and the ledger keeps its head.
WorkerStepFailed(r) ==
  /\ up
  /\ pc = "worker"
  /\ cur = r
  /\ reply.kind = "error"
  /\ Return(entry, used)
  /\ reply' = NoReply
  /\ lost' = [lost EXCEPT ![r] = TRUE]
  /\ UNCHANGED <<worktree, wd, session, seeded, started, crashes>>

WorkerAnswerLostLeavingBusy(r) ==
  /\ up
  /\ pc = "worker"
  /\ cur = r
  /\ reply' = NoReply
  /\ wd' = IF wd = None THEN None ELSE [wd EXCEPT !.client = FALSE]
  /\ lost' = [lost EXCEPT ![r] = TRUE]
  /\ UNCHANGED <<worktree, session, call, ledger, seeded, started, crashes>>

\* The client's timeout or a broken socket: also step_failed, but the worker
\* daemon may still be executing the step, or has already finished it.
WorkerAnswerLost(r) ==
  /\ up
  /\ pc = "worker"
  /\ cur = r
  /\ Return(entry, used)
  /\ reply' = NoReply
  /\ wd' = IF wd = None THEN None ELSE [wd EXCEPT !.client = FALSE]
  /\ lost' = [lost EXCEPT ![r] = TRUE]
  /\ UNCHANGED <<worktree, session, seeded, started, crashes>>

-----------------------------------------------------------------------------
(* The worker daemon.                                                      *)

Editing(r) == wd # None /\ wd.op = "edit" /\ wd.repo = r

AnswerOrStayBusy(value) ==
  /\ wd' = IF wd.client THEN None ELSE wd
  /\ reply' = IF wd.client THEN value ELSE reply

\* The answer reaches the executor only if the caller is still connected.
Answer(value) ==
  /\ wd' = None
  /\ reply' = IF wd.client THEN value ELSE reply

\* Who has a shell in r's worktree writes files, and may move HEAD with git of its
\* own, to a new commit or back to an old one.
ShellIn(r) ==
  \E c \in 0 .. newest[r] + 1, d \in BOOLEAN :
    /\ c <= MaxCommits
    /\ head' = [head EXCEPT ![r] = c]
    /\ newest' = [newest EXCEPT ![r] = IF c > @ THEN c ELSE @]
    /\ dirty' = [dirty EXCEPT ![r] = d]

\* An edit session at work.  It is aborted some time after its caller went.
EditSession(r) ==
  /\ Editing(r)
  /\ ShellIn(r)
  /\ UNCHANGED <<rpc, session, call, ledger, aux>>

\* The session returned: commitAll commits whatever is left, and answers HEAD.
\* It runs synchronously, so the daemon notices a caller that went meanwhile
\* only after the commit.
CommitAll(r) ==
  /\ Editing(r)
  /\ IF dirty[r]
     THEN /\ newest[r] < MaxCommits
          /\ newest' = [newest EXCEPT ![r] = @ + 1]
          /\ head' = [head EXCEPT ![r] = newest[r] + 1]
     ELSE UNCHANGED <<head, newest>>
  /\ dirty' = [dirty EXCEPT ![r] = FALSE]
  /\ Answer([kind |-> "outcome", sha |-> head'[r]])
  /\ UNCHANGED <<session, call, ledger, aux>>

\* The session threw (its budget fired, its caller went away, the model API
\* failed) or commitAll did: nothing is rolled back.
EditSessionFailed(r) ==
  /\ Editing(r)
  /\ Answer(Error)
  /\ UNCHANGED <<worktree, session, call, ledger, aux>>

\* The test command at work.  It runs on the files as they are, by a shell, and
\* what it runs are scripts of the repository, which the coder writes.
TestCommand(r) ==
  /\ wd # None
  /\ wd.op = "test"
  /\ wd.repo = r
  /\ ShellIn(r)
  /\ UNCHANGED <<rpc, session, call, ledger, aux>>

\* It exits, or is killed by its budget, and its status is the verdict.
TestGate ==
  /\ wd # None
  /\ wd.op = "test"
  /\ \E verdict \in {"pass", "fail"} :
       Answer([kind |-> verdict, sha |-> head[wd.repo]])
  /\ UNCHANGED <<worktree, session, call, ledger, aux>>

-----------------------------------------------------------------------------
(* run_tests, review_diff, plan_repo, ask_human.                           *)

StartTests(r) ==
  /\ wd = None
  /\ Suspend(r, "tests")
  /\ used' = Charged
  /\ wd' = [op |-> "test", repo |-> r, client |-> TRUE]
  /\ UNCHANGED <<worktree, reply, session, judged, entry, file, aux>>

RecordTestRunOfLedgerHead(r) ==
  /\ up
  /\ pc = "tests"
  /\ cur = r
  /\ reply.kind \in {"pass", "fail"}
  /\ LET verdict == IF reply.kind = "pass"
                    THEN [sha |-> entry[r].head, ran |-> reply.sha]
                    ELSE None
     IN  Return([entry EXCEPT ![r] = RecordTests(@, verdict)], used)
  /\ reply' = NoReply
  /\ UNCHANGED <<worktree, wd, session, aux>>

\* HEAD is read again when the answer arrives, and stamps the verdict: the test
\* command may have moved it.
RecordTestRun(r) ==
  /\ up
  /\ pc = "tests"
  /\ cur = r
  /\ reply.kind \in {"pass", "fail"}
  /\ LET verdict == IF reply.kind = "pass"
                    THEN [sha |-> head[r], ran |-> reply.sha]
                    ELSE None
     IN  Return([entry EXCEPT ![r] = RecordTests(@, verdict)], used)
  /\ reply' = NoReply
  /\ UNCHANGED <<worktree, wd, session, aux>>

\* The diff is computed here, synchronously, and handed to the reviewer.
StartReview(r) ==
  /\ Suspend(r, "review")
  /\ used' = Charged
  /\ judged' = [from |-> entry[r].base, head |-> head[r]]
  /\ UNCHANGED <<worktree, rpc, session, entry, file, aux>>

\* HEAD is read again when the review arrives, and stamps an approval.
RecordVerdict(r) ==
  /\ up
  /\ pc = "review"
  /\ cur = r
  /\ \E verdict \in {None, [sha |-> head[r], judged |-> judged.head,
                            from |-> judged.from]} :
       Return([entry EXCEPT ![r] = RecordReview(@, verdict)], used)
  /\ UNCHANGED <<worktree, rpc, session, aux>>

StartPlan(r) ==
  /\ Suspend(r, "plan")
  /\ used' = Charged
  /\ UNCHANGED <<worktree, rpc, session, judged, entry, file, aux>>

RecordPlan(r) ==
  /\ up
  /\ pc = "plan"
  /\ cur = r
  /\ Return([entry EXCEPT ![r].plan = TRUE], used)
  /\ UNCHANGED <<worktree, rpc, session, aux>>

\* runPlan, runReview or the test RPC threw: step_failed, nothing is recorded.  A
\* test command whose answer is lost may still run.
StepFailed ==
  /\ up
  /\ \/ pc \in {"plan", "review"} /\ UNCHANGED <<wd, reply, lost>>
     \/ /\ pc = "tests"
        /\ wd' = IF wd = None THEN None ELSE [wd EXCEPT !.client = FALSE]
        /\ reply' = NoReply
        /\ lost' = [lost EXCEPT ![cur] = TRUE]
  /\ Return(entry, used)
  /\ UNCHANGED <<worktree, session, seeded, started, crashes>>

\* ask_human waits on the terminal; spined does not expose it.
AskHuman(r) ==
  /\ Policy = "in-chat"
  /\ Suspend(r, "ask")
  /\ used' = Charged
  /\ UNCHANGED <<worktree, rpc, session, judged, entry, file, aux>>

HumanAnswers ==
  /\ up
  /\ pc = "ask"
  /\ Return(entry, used)
  /\ UNCHANGED <<worktree, rpc, session, aux>>

-----------------------------------------------------------------------------
(* request_publish.                                                        *)

RefusePublish(r) ==
  /\ Ready
  /\ ActionAllowed
  /\ ~CanPublish(entry[r])
  /\ Return(entry, Charged)
  /\ UNCHANGED <<worktree, rpc, session, aux>>

\* Past the gate.  Under "in-chat" the human is asked first, twice when the
\* diff touches tests; under "broker-only" the intent leaves at once.
RequestPublish(r) ==
  /\ CanPublish(entry[r])
  /\ \E step \in IF Policy = "in-chat" THEN {"ack", "confirm"} ELSE {"publish"} :
       Suspend(r, step)
  /\ used' = Charged
  /\ UNCHANGED <<worktree, rpc, session, judged, entry, file, aux>>

HumanDeclines ==
  /\ up
  /\ pc \in {"ack", "confirm"}
  /\ Return(entry, used)
  /\ UNCHANGED <<worktree, rpc, session, aux>>

HumanAgrees ==
  /\ up
  /\ \/ pc = "ack" /\ pc' = "confirm"
     \/ pc = "confirm" /\ pc' = "publish"
  /\ UNCHANGED <<worktree, rpc, session, cur, judged, ledger, aux>>

\* The broker pushes what is at HEAD (and answers its sha), refuses, or there
\* is no broker and publish() is a stub.
PublishAnswered(r) ==
  /\ up
  /\ pc = "publish"
  /\ cur = r
  /\ \/ Return([entry EXCEPT ![r].published = head[r]], used)
     \/ Return(entry, used)
  /\ UNCHANGED <<worktree, rpc, session, aux>>

-----------------------------------------------------------------------------
(* The life of the daemon.                                                 *)

\* done and abort.
EndSession ==
  /\ Ready
  /\ ActionAllowed
  /\ ended' \in {"done", "abort"}
  /\ Return(entry, Charged)
  /\ UNCHANGED <<worktree, rpc, up, aux>>

\* A shell is at work in r's worktree for the action in flight.
Running(r) == pc \in {"worker", "tests"} /\ cur = r

\* What the file has not is forgotten when the process goes, and so is the outcome
\* of a worker run or a test run in flight.
Forget ==
  lost' = [r \in Repos |-> \/ lost[r]
                           \/ disk.entry[r] # entry[r]
                           \/ Running(r)]

Exit ==
  /\ up
  /\ pc = "idle"
  /\ up' = FALSE
  /\ Forget
  /\ UNCHANGED <<worktree, rpc, ended, call, ledger, seeded, started, crashes>>

\* The process dies in the middle of a dispatch: what was charged and not yet
\* persisted is forgotten, and the worker daemon sees its caller go.
Crash ==
  /\ up
  /\ pc # "idle"
  /\ crashes < MaxCrashes
  /\ crashes' = crashes + 1
  /\ up' = FALSE
  /\ pc' = "idle"
  /\ reply' = NoReply
  /\ wd' = IF wd # None /\ pc \in {"worker", "tests"}
           THEN [wd EXCEPT !.client = FALSE] ELSE wd
  /\ Forget
  /\ cur' = None
  /\ judged' = NoDiff
  /\ UNCHANGED <<worktree, ended, ledger, seeded, started>>

RestartFromHead ==
  /\ ~up
  /\ Policy = "broker-only"
  /\ up' = TRUE
  /\ ended' = "no"
  /\ entry' = [r \in Repos |-> [disk.entry[r] EXCEPT !.base = head[r]]]
  /\ used' = disk.used
  /\ unsaved' = FALSE
  /\ UNCHANGED <<worktree, rpc, call, disk, failures, aux>>

\* SpineLedger.load(): the persisted ledger verbatim, with what was consumed.
Load ==
  /\ entry' = disk.entry
  /\ used' = disk.used
  /\ unsaved' = FALSE

\* startSpined: a new executor over the persisted ledger.
Restart ==
  /\ ~up
  /\ Policy = "broker-only"
  /\ up' = TRUE
  /\ ended' = "no"
  /\ Load
  /\ UNCHANGED <<worktree, rpc, call, disk, failures, aux>>

\* A fresh ledger over the worktrees as they are: spine-prepare (first use, or
\* --force) for spined, the start of the REPL otherwise.  setup_worktree is
\* refused while the worker daemon is busy, and checks the ticket's branch out
\* again, which moves a HEAD that was left elsewhere.
Reseed ==
  /\ ~up
  /\ wd = None
  /\ \E heads \in [Repos -> 0 .. MaxCommits] :
       /\ \A r \in Repos : heads[r] <= newest[r]
       /\ head' = heads
       /\ entry' = Seed(heads)
       /\ disk' = [entry |-> Seed(heads), used |-> NothingUsed]
       /\ seeded' = heads
  /\ used' = NothingUsed
  /\ lost' = [r \in Repos |-> FALSE]
  /\ unsaved' = FALSE
  /\ failures' = 0
  /\ started' = 0
  /\ crashes' = 0
  /\ up' = (Policy = "in-chat")
  /\ ended' = "no"
  /\ UNCHANGED <<newest, dirty, rpc, call>>

-----------------------------------------------------------------------------
Init ==
  /\ head = [r \in Repos |-> 0]
  /\ newest = [r \in Repos |-> 0]
  /\ dirty = [r \in Repos |-> FALSE]
  /\ wd = None
  /\ reply = NoReply
  /\ up = TRUE
  /\ ended = "no"
  /\ pc = "idle"
  /\ cur = None
  /\ judged = NoDiff
  /\ entry = Seed(head)
  /\ used = NothingUsed
  /\ disk = [entry |-> entry, used |-> used]
  /\ unsaved = FALSE
  /\ failures = 0
  /\ lost = [r \in Repos |-> FALSE]
  /\ seeded = head
  /\ started = 0
  /\ crashes = 0

WorkerDaemon(r) ==
  EditSession(r) \/ CommitAll(r) \/ EditSessionFailed(r) \/ TestCommand(r)

Begin(r) ==
  \/ StartWorker(r) \/ StartTests(r) \/ StartReview(r) \/ StartPlan(r)
  \/ AskHuman(r) \/ RefusePublish(r) \/ RequestPublish(r)

\* The steps that end the dispatch in flight.
Finish(r) ==
  \/ RecordOutcome(r) \/ WorkerStepFailed(r) \/ WorkerAnswerLost(r)
  \/ RecordTestRun(r) \/ RecordVerdict(r) \/ RecordPlan(r)
  \/ PublishAnswered(r)

Next ==
  \/ \E r \in Repos : Begin(r) \/ Finish(r) \/ WorkerDaemon(r)
  \/ AnswerAtOnce \/ RefuseAction \/ RefuseWorkerRun \/ WorkerBusy
  \/ TestGate \/ StepFailed
  \/ HumanAnswers \/ HumanAgrees \/ HumanDeclines
  \/ EndSession \/ Exit \/ Crash \/ Restart \/ Reseed

Spec == Init /\ [][Next]_vars

\* Every awaited call settles: the worker daemon's step budget aborts the edit
\* session or kills the test command, its client gives up 5 minutes later, the
\* SDK sessions have a turn limit, and the broker client times out.  Nothing is
\* assumed of a human at the terminal.
Fairness ==
  /\ \A r \in Repos : WF_vars(Finish(r))
  /\ \A r \in Repos : WF_vars(CommitAll(r) \/ EditSessionFailed(r))
  /\ WF_vars(TestGate)
  /\ WF_vars(StepFailed)

FairSpec == Spec /\ Fairness

-----------------------------------------------------------------------------
(* Properties.                                                             *)

\* The values each variable takes.
TypeOK ==
  /\ head \in [Repos -> Nat]
  /\ newest \in [Repos -> Nat]
  /\ dirty \in [Repos -> BOOLEAN]
  /\ wd \in [op : {"edit", "test"}, repo : Repos, client : BOOLEAN] \cup {None}
  /\ reply \in Reply
  /\ up \in BOOLEAN
  /\ ended \in {"no", "done", "abort"}
  /\ pc \in Steps
  /\ cur \in Repos \cup {None}
  /\ pc # "idle" => cur \in Repos
  /\ judged \in [from : Nat, head : Nat]
  /\ entry \in [Repos -> Entry]
  /\ used \in Budget
  /\ disk \in [entry : [Repos -> Entry], used : Budget]
  /\ unsaved \in BOOLEAN
  /\ failures \in Nat
  /\ lost \in [Repos -> BOOLEAN]
  /\ seeded \in [Repos -> Nat]
  /\ started \in Nat
  /\ crashes \in Nat

\* The verdicts of e are about HEAD of r: the test command passed with that commit
\* at HEAD when it exited, and the reviewer read everything from the ticket's base
\* up to that commit.
Attested(r, e) ==
  /\ e.green # None
  /\ e.green.ran = head[r]
  /\ e.approved # None
  /\ e.approved.judged = head[r]
  /\ e.approved.from = seeded[r]

Intending == {"ack", "confirm", "publish"}

\* ledger.ts: the invalidation "is what makes a stale verdict impossible to
\* smuggle through".  Whenever canPublish would let r through and no shell is at
\* work there, both verdicts are about the commit that is at HEAD, although test
\* commands and edit sessions move HEAD and verdicts are stamped with the HEAD
\* found afterwards; unless the outcome of a run was lost or a record forgotten, and
\* no run_worker has cleared the verdicts since.
OpenGateIsAttested ==
  \A r \in Repos :
    up /\ ~lost[r] /\ ~Running(r) /\ CanPublish(entry[r]) => Attested(r, entry[r])

\* Invariant 2 of docs/agent-orchestration.md ("no publish intent without a
\* green test gate and an independent review"), for the commit the intent is
\* really about: while the human is asked, however long, and while the intent is
\* with the broker, the tests were green with that commit at HEAD and the reviewer
\* approved the whole diff up to it, over crashes, restarts and writes that fail,
\* with the same exception.
IntentAttested ==
  pc \in Intending /\ ~lost[cur] => Attested(cur, entry[cur])

\* Invariant 3 (bounded loops): however often the daemon dies and reloads its
\* ledger, the edit sessions begun for a ticket exceed the budget by at most
\* one per death in mid-dispatch, and one per write that failed.
WorkerRunsBounded == started <= MaxWorkerRuns + crashes + failures

\* executor.ts: "a crash mid-session never loses more than the in-flight
\* action's own state", also when writes have failed, as soon as one succeeds.
OnlyTheActionInFlightIsAtRisk ==
  up /\ ~unsaved =>
        /\ disk.entry = entry
        /\ pc = "idle" => disk.used = used
        /\ used.actions <= disk.used.actions + 1
        /\ used.runs <= disk.used.runs + 1

\* A dispatch that waits for no human at the terminal always returns (or the
\* daemon dies), so a step that failed never leaves the busy flag up.
DispatchReturns == (pc \notin {"idle", "ask", "ack", "confirm"}) ~> (pc = "idle")

\* The worker daemon becomes free again, also when its caller is gone.
WorkerDaemonFreed == (wd # None) ~> (wd = None)

-----------------------------------------------------------------------------
(* The inductive invariant behind the safety properties.                   *)

\* Memory and file differ in the charges of the action in flight, at most, unless
\* the last write failed.  When the process is gone they differ in nothing but what
\* counts as lost.
LedgerInv ==
  /\ ~up => pc = "idle" /\ \A r \in Repos : ~lost[r] => disk.entry[r] = entry[r]
  /\ up /\ ~unsaved =>
       /\ disk.entry = entry
       /\ pc = "idle" => disk.used = used
       /\ used.actions <= disk.used.actions + 1
       /\ used.runs <= disk.used.runs + 1
  /\ up => started <= used.runs + crashes + failures
  /\ started <= disk.used.runs + crashes + failures + IF pc = "worker" THEN 1 ELSE 0

\* The worker daemon serves the step in flight, or a step whose caller is gone;
\* an answer waits for the executor only when the daemon is free, and carries
\* the commit still at HEAD.
RpcInv ==
  /\ wd # None /\ wd.client =>
       /\ cur = wd.repo
       /\ pc = IF wd.op = "edit" THEN "worker" ELSE "tests"
       /\ reply.kind = "none"
  /\ wd # None /\ ~wd.client => lost[wd.repo]
  /\ reply.kind # "none" => wd = None /\ pc \in {"worker", "tests"}
  /\ reply.kind = "outcome" => pc = "worker" /\ reply.sha = head[cur]
  /\ reply.kind \in {"pass", "fail"} => pc = "tests" /\ reply.sha = head[cur]

GreenOfItsHead(e) == e.green # None /\ e.green.sha = e.head

\* The ledger's head may be behind HEAD, when a test command has moved it; but not
\* while there is a green run of the ledger's head on record.
HeadInv ==
  \A r \in Repos :
    ~lost[r] /\ ~Running(r) /\ GreenOfItsHead(entry[r]) => head[r] = entry[r].head

\* The verdicts of e are stamped with the commit they are about, and the approval
\* covers the diff from base.
TrueToItsStamps(e, base) ==
  /\ e.green # None => e.green.ran = e.green.sha
  /\ e.approved # None => e.approved.judged = e.approved.sha /\ e.approved.from = base

\* The stamps of the ledger's verdicts are true; the base, in the file also, is the
\* ticket's.
VerdictInv ==
  \A r \in Repos :
    /\ entry[r].base = seeded[r]
    /\ disk.entry[r].base = seeded[r]
    /\ ~lost[r] => TrueToItsStamps(entry[r], seeded[r])

\* The diff the reviewer is reading is the whole diff up to HEAD.
ReviewInv ==
  pc = "review" /\ ~lost[cur] =>
    /\ judged.head = head[cur]
    /\ judged.from = seeded[cur]

\* The entry of an intent does not change after the gate let it through.
GateInv == pc \in Intending => CanPublish(entry[cur])

IInv ==
  /\ TypeOK
  /\ LedgerInv
  /\ RpcInv
  /\ HeadInv
  /\ VerdictInv
  /\ ReviewInv
  /\ GateInv
=============================================================================

# Verification of mrw's publish pipeline

TLA+ modules, TLC configurations and TLAPS proofs for the part of this
repository that decides what leaves it: the spine that drives a coding agent,
the daemons behind UNIX sockets, the per-ticket lock, the broker through which
every push goes, and what its human reads and clicks: the terminal of the chat,
and the review page in the browser.

## The system

`mrw` lets an agent change several repositories for one ticket and publish the
result only after tests, an independent review and a human have agreed.

| part | source | state it keeps | talks to |
|---|---|---|---|
| spine executor and ledger | `harness/src/spine/{executor,ledger}.ts`, `exec.ts`, `steps.ts`, `gates.ts`, `gitops.ts` | the busy flag, the verdicts per repository, the budgets, `spine-ledger.json` | worker daemon, reviewer session, broker |
| worker daemon | `harness/src/workerd/*.ts`, `multi/worktree.ts` | the busy flag; the worktrees are its only | the spine and the driver call it over a socket |
| spined, spine-prepare, lock | `harness/src/spined/*.ts` | `spined.lock`, the seeded ledger | start and stop the spine |
| REPL | `harness/src/spine/{repl,session,index,actions}.ts` | one terminal for the chat and the gates, the queue of messages | dispatches into the same executor, asks the human itself |
| socket listeners | `broker/src/server.ts`, `harness/src/workerd/server.ts`, `reviewer/src/server.ts` | the busy flag, the AbortControllers, one reply per connection | in front of the three handlers |
| broker | `broker/src/{handler,gate,approve,git}.ts` | the pending approval, the last outcome | terminal, browser (through serve), reviewer, git and gh |
| reviewer daemon | `reviewer/src/*.ts` | its listener's | advises the broker |
| approval hub and socket | `broker/src/{gate,approval-server}.ts` | the pending request, the last outcome | one line in, one line out, for serve |
| serve | `serve/src/{routes,broker-client,security}.ts` | the session token, a cache of pending views, the history | calls the approval socket for every poll and every click of a page |
| review page | `serve/src/assets/app.js`, `serve/src/diff.ts` | what it shows, the buttons, the marks of viewed files (in the browser's storage) | polls serve, posts decisions |
| orchestrator, driver | `harness/src/orchestrator.ts`, `publish.ts`, `multi/*.ts` | `phase3-state.json` | the older pipeline over the same worker daemon and broker |
| triage, telemetry, cli, scripts, pre-push hook | | none, or the host's | |

What is hard in it:

* **Two clocks on every call.**  A client gives up while its server goes on:
  the worker daemon may commit for a caller that has left, the broker may be
  approved after its requester was told of a failure.
* **State read before an await and used after it.**  The executor stamps
  verdicts with a HEAD it reads when the answer arrives; the publish gate is
  checked before a human thinks; the broker's target and commit are rendered
  before the approval and are the coder's to change.
* **Several channels race to decide.**  Terminal, browser, timer and a closed
  socket all settle one approval.
* **Processes die between two steps.**  The ledger is written when a dispatch
  ends, and the write itself may fail; the lock file is created, written, renamed
  and removed by system calls of racing processes.
* **Answers overtake each other.**  A page polls while it posts, pages poll
  side by side, and each answer was true when it was given: at the broker, at
  serve's cache, in the browser.
* **A human has one terminal.**  The chat prompt and the gates of the tools want
  the same line.
* **What the human approves is what the page makes of a diff**: a parser that
  has only the first characters of a line to go by.
* **One flag guards a whole daemon.**  `busy` has to be lowered on every path,
  and once.

`PROJECT.json` lists each hazard at its line, with the properties that cover it.

## Modules

| module | models | shape |
|---|---|---|
| `Spine` | executor, ledger, ledger file, worker daemon, worktrees, crash, restart, reseed, failing writes | specification |
| `MCSpine` | a statement of the documentation that fails | TLC |
| `SpineProofs` | six theorems about `Spine` | TLAPS |
| `SpinedLock`, `MCSpinedLock`, `SpinedLockProofs` | the lock file protocol and spine-prepare's peek | specification, TLC, TLAPS |
| `Listener`, `MCListener`, `ListenerProofs` | the socket listener of all three daemons | specification, TLC, TLAPS |
| `PublishGate` | what the broker promises its requesters | abstract specification |
| `ApprovalHub` | what the broker shows on the approval socket | abstract specification |
| `Broker`, `MCBroker`, `BrokerProofs` | listener, handler, hub, humans and the coder; built on `Listener`, implements `PublishGate` and `ApprovalHub` | specification, TLC, TLAPS |
| `Serve`, `MCServe`, `ServeProofs` | pages, serve, the approval socket, in front of an `ApprovalHub` | specification, TLC, TLAPS |
| `TicketRecord` | what the checkpoint file of a multi-repository ticket promises | abstract specification |
| `Driver`, `MCDriver`, `DriverProofs` | the multi-repository driver, the orchestrator's pipeline, the checkpoint file, worker daemon, pushes; implements `TicketRecord` | specification, TLC, TLAPS |
| `Repl`, `MCRepl`, `ReplProofs` | the terminal of the chat, the queue of messages, the end of `run()` | specification, TLC, TLAPS |
| `UnifiedDiff` | the diff parser, reading what git writes | specification |
| `Review`, `MCReview`, `ReviewProofs` | the split view, the highlights and the marks of viewed files, on top of `UnifiedDiff` | specification, TLC, TLAPS |

The modules meet where the programs do.  `Broker` is built on `Listener`'s
actions and is shown to be a `PublishGate` and an `ApprovalHub`;
`Serve` is built on `ApprovalHub`'s actions, so what it shows of pages holds in
front of that broker; `Review` extends `UnifiedDiff`.  `Spine` and `Driver` see
the broker as one call that settles.

### Spine

The executor awaits, so every action of the code that suspends is a pair of
actions here: `StartWorker` and one of `RecordOutcome`, `WorkerStepFailed`,
`WorkerAnswerLost`; `StartTests` and `RecordTestRun`; and so on.  `pc` is where
the suspended action is, and `pc = "idle"` is the code's busy flag being down;
`Ready` is the two early returns of `dispatch()`, `Suspend` its synchronous
head with the budget's charge, and `Return` its `finally`, with `persist()`.
The ledger is `entry` and `used` in memory and `disk` in `spine-ledger.json`.
`Persist` either writes the file or fails (`failures`): then memory is ahead of
the file (`unsaved`) until a later write succeeds, and the caller gets an
exception instead of its result.  `RefuseAction` is a dispatch refused by an
exhausted budget, which is persisted also.  `Load` reads the file, and `Forget`
is what a death or an exit does to what the file does not have.
`RecordWorkerRun`, `RecordTests`, `RecordReview` and `CanPublish` are the
methods of `SpineLedger`.  A commit is a number, and a verdict carries, beside
the sha the code stamps it with, what it was really about: `ran` is the commit at
HEAD when the test command exited, `judged` and `from` are the ends of the diff the
reviewer was given.  No action reads these.

The worker daemon is `wd` (its operation, and whether its caller is still
connected) and `reply`.  An edit session has a shell and may move HEAD to any
commit that exists, make one, and leave files uncommitted (`EditSession`, by
`ShellIn`); `CommitAll` is the deterministic commit after it, synchronous in the
code and therefore one step.  The test command is a shell as well, and runs scripts
the coder has written: `TestCommand` moves HEAD in the same way, and `TestGate` is
its exit, whose status is the verdict.  A caller that gave up leaves the operation
running.  `setup_worktree` is inside `Reseed`.  What a shell does without a trace is
not seen: tests that check another commit out, run, and come back.  Nor is what it
leaves behind: a process that goes on in the background, or works in the worktree of
another repository.

`Crash` kills the process in the middle of a dispatch (between two it is `Exit`),
`Restart` is `startSpined` on the persisted ledger, `Reseed` is spine-prepare
(for spined) or a new REPL.  `Policy` is `approvalPolicy`.  Under `"in-chat"` the REPL's
human stands between the gate and the intent.

`lost[r]` says that a run_worker or a run_tests of `r` ended without a recorded
outcome, or that a record of `r` was forgotten with the process because the file did
not have it; and that no run_worker has come back with a new head since, which clears
the verdicts.  It is the condition under which the code's verdicts can be about
another commit than HEAD, which is why the safety properties except it, and why
`SpineStaleHead` shows the code without the exception.  Without it they are about
HEAD whatever test commands do: `RecordTestRun` stamps a run with the HEAD that the
command left, so that a green run and an approval name one commit only if that is
where HEAD was (`OpenGateIsAttested`).

### SpinedLock

Processes share only the file system, and each system call is a step: `Create`
(`open` with `O_EXCL`), `Write`, `Read`, `Probe` (`kill(pid, 0)`), `TakeOver`
(`rename`), `Recreate`, `Release`, `Unlink`.  Any process may be killed between
two.  A file is named by its creator.  `prep` is spine-prepare: `Peek`,
`PeekProbe`, then `SeedLedger` an await later.

### Listener

A step is a callback of the event loop on one connection: the accept, the read
timeout or the size limit, the error event, the close event, the request line,
the budget's timer, the peer leaving, the handler's settlement.  A connection
that is destroyed stays `"dying"` until its close event, which comes in a later
phase of the event loop; another connection may be accepted first.  The three
sources have the same callbacks; `Next` is mapped to the worker daemon's copy
and `Fairness` to the reviewer's, the rest to the broker's.  The read timeout
is Node's idle timeout; a client that drips bytes is bounded by the size limit
instead, which is the same action.

### Broker

Node runs to completion: a callback, then every continuation it made runnable,
then the next callback.  So `at[c]` is either a place where the handler of `c`
waits (`Waiting`) or a continuation that is due (`Due`), and every callback has
the guard `Turn`: no continuation is due.  The listener's actions are those of
`Listener`, by instance.  `Render` stands for the checks that passed and the
ground truth they produced, `Refuse` for any that failed.  `OpenGate` is
`decide()`, `SubmitApprove` and `SubmitDecline` the browser's channel,
`ReadLine` the terminal's, `Abort` the budget's timer or the client's leaving,
`Canceled`, `Declined` and `Approved` the continuations of `decide()`.  The rest of
the handler is `Revalidate` or `RefusePush`, by its re-validation (F6,
`Revalidated`), and then `Push`, with `PushApprovedSha` and `GhPrCreate` as the two
calls that may fail.  A request is numbered, which stands for its random id.

The coder's worktree and config (`World`) change at any moment.  `target = None`
stands for an origin that does not parse or is not allowed, an untrusted config
key, or an unregistered ticket.  The sha and the target are re-read in one step, and
pushed in another: the handler is synchronous there, but the coder is not, and HEAD
may be elsewhere by the time of the push.  The push names the commit by the sha that
was shown, and the URL by the rendered one (`ApprovalIsShaBound`).  A client that
leaves while git pushes is noticed by the event loop only afterwards, when its
request has its answer.

Humans type the sha they see, or something else.  A browser shows what its last
poll learned.  A terminal keeps a line that nobody has read (an external
component, modelled from what `approve.ts` reads), and when the listener lets
two requests in, both prompts read it.

### PublishGate

Three actions: `Offer`, `Publish`, `Close`.  A request is offered once and
unchanged, published at most once, and never after it was closed.
`KeepsThePromise` is the refinement: the requests rendered, those whose handler
runs and whose client has no answer yet, and those pushed.

### ApprovalHub and Serve

`ApprovalHub` is `pending` and `last`, and what may happen to them: `Register`,
`Mistyped`, `Decide`, `ReportOutcome`.  `Broker` is proved to implement it.

A request is registered when none is pending.  That holds of `Broker` until a
connection is robbed of its flag (`rereleased`).  `ApprovalHub` lets a request replace
a pending one, so `ImplementsTheHub` holds in any case; `Serve` is about histories in
which that does not happen.

`Serve` puts pages in front of it.  `tab[t]` is a page's state (the CSRF token it
was loaded with, connected or not, what it shows, the decision that is being
submitted).  `call[t][ch]` is an HTTP request: of the page's poll loop (`Loop`),
or of a click, of which several can be in hand.  A poll goes through the stages
`asked` (serve forwards it, with the id the page shows), `answered` (the broker
has read the line and answered, `Answer`), perhaps `asked` again (`AskAgain`:
"unchanged", but serve does not have the view), and `relayed` (`Relay`, with the
cache and the history); then the page shows it (`Show`).  A click is `posted`,
taken by the broker (`Deliver`), followed by a poll of its own
(`PollAfterClick`), and `EndClick` is the `finally` that gives the buttons back.
Nothing orders these between pages, or between a page's loop and its clicks.

Faults: a call that the broker does not answer in time (`Unreachable`); a post
that serve gives up on and that the broker may read later (`GiveUp`,
`DeliverLate`); `ServeUp` (a new token), `ServeRestarted` (the container's
restart, with the old one) and `ServeDown`; `BrokerRestarts`.  `Authed` and
`AuthedPost` are the cookie and the CSRF check.

`recorded`, `overtaken` and `clicked` are auxiliary: how far the hub was in the
latest answer that the history has seen, whether an answer was recorded after a
later one, and what was clicked on pages that showed the last request.

### Driver

`runDriver` is `Start` up to its first await, then `SetUp` and `Planned` for
each repository that is not skipped, one gate over all plans (`ApprovePlans`,
`DeclinePlans`), and per repository the pipeline of `runOrchestrator`:
`Implement`, `Edited` (the diff from the base), `Reviewed`, then `Clean`, `Fix`
or `GiveUp` with the answer of the tests, the last question (`SendIntent`,
`PublishStub`, `DeclinePublish`) and the publication.  `pc` is the await the
driver is at, and "off" when no run is.  `StepFails` is every error the driver
catches, `PreparationFails` those it does not, and `Crash` any death between
two records.  `Continue` is the end of the loop's body, `Leave` the end of the
process, which forgets everything but `file`.

`file` is `phase3-state.json`.  A driver holds the same state in memory and
saves it after every change, by a rename, so one variable stands for both.
`Resumed`, `Resolve`, `Todo` and `WithOutcome` are the functions of `state.ts`
and of the skip.  The work is kept as positions in the selection (`todo`, `at`);
a selection names a repository once, see below.  `wd` and `reply` are the
worker daemon as in `Spine`, without uncommitted files; an edit session, or a test
command, whose caller left goes on, into the next run.  Either is a shell that may
move HEAD (`ShellIn`).  `BrokerPushes` is all that the broker does here; `intent` is
the intent in flight.  `shipped` is auxiliary: what was pushed, by which run, and
whether that run had vetted it.

The pipeline takes the diff, has it reviewed, runs the tests, and never reads HEAD
again.  `ShippedIsVetted` says what can be had from that: the tests passed and left
at HEAD what is pushed (`tested`), and they began with the commit that the reviewer
approved (`began`).  Where the test command moves no HEAD these are one commit.

`base[r]` is the HEAD that `setup_worktree` found, and a reused worktree's HEAD
is where earlier runs left it.  `DriverResumedBase` shows what follows.

The driver runs over a worker daemon here (`WORKERD_SOCKET` set).  Without one
the edit steps run in its own process and die with it, which leaves out only
the orphaned operations.  The plan's session reads only, the reviewer and the
shell commands of the pipeline are an answer each, the two questions before a
publication are one (both answer "declined"), and the records of `DeclinePlans`
are one write: no repository of them is published, before or after.

### TicketRecord

Two actions: `Tell` (the ticket begins, or its instruction is corrected while
nothing is published) and `Complete` (one more repository is published).

### Repl

`shown` and `asking` are the readline interface: the question on the terminal,
and those that wait for it (`askLine`, `withLock`).  `begun` is the question
that a half-typed line was begun under; the program does not know it.  `loop`,
`pump` and `exited` are where `run()` is.  `buffered`, `waiting` and `queueEnd`
are `createUserQueue`; `inputEnd`, `heard` and `turns` the session of the Agent
SDK, an external component which takes messages, calls the executor's tools
within a turn, and ends when it is told that no message comes.  `call` is the
tool call in flight: a gate (`ask_human`, or one or two questions before a
publish), work that asks nobody, or the publish itself.  `Close` is the
'close' event, from "/quit", from an end of input, or from the pump when the
model has called done or abort.  A callback and what it resumes are one step.

### UnifiedDiff and Review

`UnifiedDiff` writes a diff the way git does, a file header or a line of a hunk
a step, and its parser reads along: `written` is what git meant, `parsed` the
parser's three variables.  `Change` is a changed file (modified, with a changed
mode, added, deleted, renamed, binary), `HeaderLines` and `FirstHunkLines` the
lines git writes for it; `ReadLine` is the loop body of `parseUnifiedDiff`,
`FlushHunk`, `FlushDraft` and `FinalizeDraft` its helpers.  Texts are sequences
of tokens; two tokens stand for the beginnings that look like a header behind a
marker, and two for blanks, of which `CR` at the end of a line is dropped by the
parser (`Chomp`).  After every step the parser could be at the end of its input
(`Files`).  The broker trims git's output as a whole before it shows or relays it,
so the input then ends in no blanks (`Trimmed`): context lines with nothing but
blanks vanish from its end, and the last line left loses its blanks.
`ParsedAsWritten` says that a file comes out as git meant it but for these two
(`MeantHunk`, `LosesBlanks`).  `Misread` names the inputs the parser is known to get
wrong.  A line that looks like a header and has only blanks behind that is left out
of the inputs, and so are names that end in blanks.  The chain of tests in the
loop is first come, first served; the arms of `ReadLine` are disjoint, so a line
takes the one branch the code gives it.

`Review` shows the parsed files: `SplitRows`, `TokenDiff` and `Highlights` are
the functions of `app.js`, and `viewed`, `boxes`, `storage` the marks, over
requests that come and go, reloads, renderings, tabs and keys.  A loop of the
page that pushes and goes on is `Pushed`: what its body pushes at each place, and
where it goes next.  `NextRun` is the end of the run of deleted and added lines
that both loops over a hunk take at a time, `RowsAt` and `HighlightsAt` are their
bodies, `CommonFrom` is the table `dp` of `tokenDiff` and `Move` a step of its
walk.  A row of the split view has the places of its lines in the hunk, which
tells two equal lines apart.  A highlighted text is kept token by token; the code
joins neighbours of one kind into a segment.

## Runs

All bounds are constants or guards: `MaxActions` and `MaxWorkerRuns` are the
code's budgets; `MaxCommits`, `MaxCrashes` and `MaxRequests` only bound the
model.

| run | instance | what it shows |
|---|---|---|
| `SpineBrokerOnly` | 1 repository, 6 actions, 2 worker runs, 1 commit, 1 crash, 1 failed write | the safety of the ledger under spined, with edit sessions and test commands that move HEAD |
| `SpineInChat` | 1 repository, 5 actions, 2 worker runs, 1 commit, 1 crash, 1 failed write, fairness | the gate while a human thinks, the proofs' invariant, and that dispatches and the worker daemon always come back |
| `SpinedLock` | 4 processes, a lock file left behind or none | visibility, and that not everybody refuses |
| `Listener` | 3 connections, fairness | serial handling, single answers, no leaked busy flag |
| `Broker` | 2 connections, 2 commits, 1 URL, 2 requests | approvals are of what is pushed; the refinements of `PublishGate` and `ApprovalHub` |
| `BrokerLive` | 2 connections, 2 commits, 1 URL, 1 request, fairness | a request ends though no human answers |
| `Driver` | 2 repositories, 2 instructions, 1 fix, 2 commits each, 2 runs, fairness | what was pushed was left by the tests that passed, on what the reviewer approved; what is recorded was pushed, in any order of deaths and resumptions; runs end |
| `Serve` | 2 requests, 1 page with a click beside its poll loop, cache of 1, history of 2, 1 fault, fairness | the history follows the broker, decisions are as clicked, relays are true, and the page keeps up |
| `Review` | 2 files, 2 hunks, 4 lines, diffs of 1 line reviewed under 2 requests, highlights capped at 2 tokens | the parse loses CRs and blanks at the end only, the split view, the highlights and the marks nothing |
| `Repl` | 3 lines, fairness | nothing said is lost, no gate takes another question's line, the process ends once told |
| `SpineStaleHead`, `DriverResumedBase` | as `SpineBrokerOnly` and `Driver`, without crashes or with 1 commit | what the repository says and the code does not do; see below |

Why they are enough: six actions are a plan, a worker run, tests, a review and
a publish, and one of these again over recorded verdicts; one commit, made by a
session or by a test command, moves HEAD away from what a verdict is about, and a
checkout takes it back.  Every theorem below holds for any
number of repositories, commits and actions, so `Spine` runs with one
repository.  Four processes are a dead owner, two takers-over and a late
starter.  Three connections are one that dies, one that it robs, and one that
profits.  Two requests are the one approved and the one that must not be.
Two repositories are one on record as published and one that is work, in either
order; two runs are one that dies and one that resumes, two instructions the one
on record and the one that must not replace it, one fix the boundary of the
budget on both sides.  `Driver` is proved for any number of each.

A page's loop and its click are two polls that overlap, so two answers can
overtake each other as those of two pages can; with two requests an answer can
be of the one before, a cache of one forgets it, and one fault is a restart, a
lost answer or a late post between any two steps.  `Serve`'s safety is proved for
any number of all of these.  Four lines are a run of two deleted beside one or two
added, or two hunks of two lines; two files are one that is flushed by the next
and one by the end, and two of the same name.  A cap of two tokens is met by
lines of two and three.  What the parser reads and the page shows is
proved for diffs, hunks and texts of any length.  Three lines in the
chat are one heard, one in the queue, and one that is being typed; the safety of
`Repl` is proved for any number.

`CHECK_DEADLOCK FALSE` is given where the system may stop: a spine whose
budget is used up and whose bounds are reached, a lock all of whose processes
are gone, a ticket whose runs are used up, a serve that is down before a page was
opened, a chat that has ended, a diff that has
been read.

Each property has a mutant: the definition of a code path with a plausible bug,
written before the original, under which TLC finds the property violated.

### What the code does not live up to

* `SpineStaleHead`: a run_worker that fails or times out after HEAD moved
  leaves the ledger's head and verdicts as they were, and an intent goes out
  for a commit no verdict is about.  A second run of the tests that commits, and
  whose answer is lost, does the same.  The broker's human still sees the real
  diff.
* `DriverResumedBase`: a resumed run takes the worktree's HEAD as the base of
  the review, so the commits an earlier, failed run left there are pushed
  without being in the diff that the reviewer judged.  `gitops.ts` takes that
  diff to be of everything the pipeline produced.

Others met on the way, which are not runs of their own; the properties that
come near them name them as exceptions.

* Driver: a test script that commits and exits 0 ships a commit that no reviewer
  saw: the diff is taken before the review (`orchestrator.ts:266`), the tests run
  after it, and HEAD is not read again.  The broker's human sees the real diff.
* Spine: tests that pass on uncommitted files are recorded of HEAD.  In the state
  of `SpineStaleHead` the advice of `canPublish`, to re-run run_tests, does not
  help, since only run_worker updates the ledger's head.
* Lock: of two starts that read the same dead pid, the second `renameSync` may
  take the lock the first has just created (`displaced`).  The header of
  `lock.ts` argues that a rename's source can be claimed once; it is the path that
  is claimed, not the file that was judged stale.  And spine-prepare peeks at the
  lock and seeds the ledger after an await, without holding the lock: a daemon may
  have started in between.
* Listener: a destroyed socket lowers `busy` when it is destroyed and again in
  its close event, by when the flag may be another connection's (`rereleased`).
* Broker: a line typed just after the approval budget expired is read by the next
  request's prompt, and approves it when it is for the same commit (`crossed`).
* Driver: a push that was made and not recorded (a lost answer, a failed pull
  request, a death) does not count as published, so the next run may adopt another
  instruction and push again: `RecordIsTrue` and `OneUnrecordedPerRun` say how
  far the record can be behind.  `--repos a,a` selects a repository twice, and the
  loop takes it through the pipeline twice; the model's selections exclude it.
* Serve: answers of overlapping polls are recorded in the order they arrive, so an
  older outcome may become the newest entry of the history (`overtaken`).  The
  page's warning about attempts is drawn only with a review that is new on the
  screen, or after its own mistyped sha.
* Diffs (`Misread`): a deleted line that starts with "-- " and an added one that
  starts with "++ " are taken for headers and dropped; an added or deleted file
  without a line is shown as "(unknown path)"; a binary file with " and " in its
  name is split in the wrong place.  And beside `Misread`: a change of line ends from
  CRLF to LF is shown as a deleted and an added line with the same text, and context
  lines and blanks at the very end of the diff are cut off.
* Review: the boxes of viewed files are drawn unchecked on every render, also for
  files that still count as viewed.  The configured `diff.intralineHighlight` is
  never read by the page.
* REPL: an end of input without "/quit" leaves the loop without ending the queue,
  so the process waits for a session that waits for a message.  A stream that
  breaks is an unhandled rejection (`StreamBreaks`).  A gate's question is shown
  only after the human has finished a line of the chat, and between the two
  questions before a publish the chat prompt comes first.

## Fairness

* `Spine`: every awaited call settles.  The worker daemon's step budget aborts
  an edit session and kills a test command, the worker client gives up five
  minutes after that, SDK sessions have a turn limit, the broker client times
  out.  Nothing is assumed of the human at the terminal, who may never answer.
* `Listener`: every connection has a read timeout, a destroyed socket closes,
  the budget's timer fires, and an aborted handler settles.
* `Broker`: continuations run (weak fairness), and the approval budget's timer
  fires (strong fairness: it waits for the continuations of other callbacks,
  again and again, but the event loop comes round to it).  The budget is taken
  to be positive, its default.  Nothing is assumed of a human, of a client or of
  the reviewer.
* `Serve`: a poll goes on, because serve bounds its calls to the broker by timers,
  a browser notices a broken connection, and the page's timer fires.  Nothing is
  assumed of a human, of the broker's decisions, or of a post.
* `Repl`: the code's continuations run; the model takes up the messages it is told
  (weak fairness), and comes to the end of every turn, whatever it calls in
  between (strong fairness: a turn can end whenever no call is in flight).  The
  latter is an assumption about the model, whose chat session has no turn limit;
  the budget of actions bounds only the calls that are accepted.  Nothing is
  assumed of a human; `GateIsAnswered` says what it needs of one.
* `Driver`: each await of a run settles, because the worker client, the broker
  client and the SDK sessions are bounded; no more than that a run's own steps
  are taken.  Nothing is assumed of the worker daemon, the broker or a human.

## Proofs

| module | theorem | for every value of the constants |
|---|---|---|
| `SpineProofs` | `TypeCorrect`, `Invariance` | types, the budgets' limits, `IInv` |
| | `OpenGatesAreAttested`, `IntentsAreAttested` | what the gate and an intent rest on |
| | `WorkerRunsAreBounded`, `OnlyTheActionInFlightIsLost` | what a crash or a failed write can cost |
| `SpinedLockProofs` | `Invariance`, `Exclusive`, `Visible` | one holder, and everybody sees it |
| | `NotAllRefuse` | racing starts do not all refuse each other |
| `ListenerProofs` | `Invariance`, `SerialHandling`, `BusyForAReason`, `NoContradictoryAnswer` | one request, one answer |
| `BrokerProofs` | `TypeCorrect`, `Invariance` | types, `IInv` |
| | `ApprovalsAreShaBound`, `ApprovalsAreOfTheRequest`, `NoPushAfterFailure` | what a push rests on, and what contradicts it |
| | `GatesAreDecidable`, `OutcomesAreReported` | what the browser is offered and told |
| | `HubImplemented`, `PromiseKept` | the broker is an `ApprovalHub` and a `PublishGate` |
| `ServeProofs` | `TypeCorrect`, `Invariance` | types, the limits of the cache and the history, `IInv` |
| | `HistoryInOrder`, `RelaysAreTrue` | what serve keeps and what it says |
| | `ClicksDecideWhatTheyShow` | what a decision in a browser rests on |
| `DriverProofs` | `TypeCorrect`, `Invariance` | types, the fix budget, `IInv` |
| | `PushesAreVetted`, `RecordsAreTrue`, `RunsStopAtTheFirst` | what was pushed, and what the file knows of it |
| | `PublishedAreSkipped`, `Refinement` | what a step never does; the file is a `TicketRecord` |
| `ReplProofs` | `Invariance`, `AllIsHeard`, `GatesNeverRace`, `ExitIsClean` | messages in order, lines to their questions, no call at the exit |
| `ReviewProofs` | `ParserInvariance`, `ParserIsFaithful` | `ParserInv`; the parser reads what git wrote, but for CRs and blanks at the end |
| | `SplitIsComplete` | the split view shows each line of a hunk once, in order |
| | `HighlightsExact` | the highlighted words are what two lines do not have in common |
| | `Invariance`, `ViewedMeansMarked` | `IInv`; a file counts as viewed only if it was marked |

Every invariant and every action property that a passing run lists is the subject
of one of these theorems, as are the refinements; what is left to TLC alone is
liveness.

The types, the invariants `IInv` of all but `Spine`, `ParserInv`,
`ExclusiveUnlessDisplaced`, `BusyIsOwned` and `ExitLeavesNothingRunning` are proved, and TLC agreed on small instances, but no
run lists them.

`OpenGateIsAttested` and `IntentAttested` are not inductive: the gate looks at the
stamps of two verdicts and at the ledger's head, so one needs to know what the
verdicts are about, and when HEAD is the ledger's head.  The two may differ, once a
test command has moved HEAD, and a green run may bear the stamp of either.  `IInv` of
`Spine` adds `HeadInv` (there is no green run of the ledger's head on record unless
that is HEAD, a shell is at work, or an outcome was lost: a test command that moves
HEAD away records its own verdict of the new commit, or none), `VerdictInv` (a
verdict is about the commit it is stamped with, and an approval reaches back to the
ticket's base, which is the base in the file too), `ReviewInv` (the diff being reviewed is the diff up to HEAD), `RpcInv` (whom the
worker daemon serves, and that an unconsumed answer still names HEAD) and
`LedgerInv` (memory and file differ by the charges of the action in flight).
The invariance proof has one step per action, and under it one per conjunct the
action can disturb.

A failed write weakens `LedgerInv` only while the process lives: what `Load` reads
later has lost records, which is what `Forget` notes, and `VerdictInv` holds of
any ledger that was ever in memory.

`IInv` of `SpinedLock` says that who created the lock finds it in place unless
a takeover displaced a fresh file, that a takeover begins with a dead pid, and
that only its process writes a pid.  `SomeoneWins` speaks of histories without a
kill or a release, and has an invariant of its own, `WinInv`: a file belongs to a
process that goes on with it or to the last run, and who refuses does so because
of one that is going to win.  `IInv` of `Listener` ties the flag to the
connection that raised it.

`Broker` has its listener by instance, and its invariant contains that of the
listener, whose step lemma is reused.  `HandlerInv` couples the two: a handler
exists while its connection is handled, and nothing is told before the abort.
`RequestInv` gives every handler a request of its own; `ApprovalInv` carries what
a human typed from the line or the click to the push, through overlapping
prompts; `PushedInv` says that a push and its answer are one step of the peer's
view; `HubInv` and `GateInv` tie the hub to the handlers.  The push is a step behind
its re-validation, with the coder's in between, and what it pushes is bound by the
view alone.
The refinement of `PublishGate` needs that what is `Open` changes for one request
at a time (`OpenAt`), and that a request is never pushed twice, which is
`PushedInv` again.

`HistoryFollowsTheBroker` rests on an order: each request is at the gate, decided,
published, then the next, and `Progress` numbers these moments.  `AnswerInv` says
that an answer on its way is never ahead of the hub, `OrderInv` that of two answers
on their way the one with more progress has the newer outcome, and that the history
is no newer than the answers which are not behind it.  A restart of the broker
takes the hub back, which is why both speak only of outcomes that are there.
`ClickInv` is what a late post needs: a post for the newest request was clicked
where that request was shown, and every other is stale.

`IInv` of `Repl` adds `QueueInv` (a reader waits only while there is nothing to
read), `TerminalInv` (a closed terminal has no question) and `CallInv` (a call is
in flight only within a turn).

`IInv` of `Review` says that the names that count as viewed, on the page and in the
storage for its request, are those of files that the human has marked.  There are
at most as many such names as marked files, also when files share a name, and
equality is all files.  The parser plays no part in it: the theorem is for any
list of files.

`ParsedAsWritten` speaks of `Files`, what the parser would return if the input ended
here, and says nothing of the state it is in.  `ParserInv` does: `FilesInv` is about
the files that are finished (as git meant them, or misread for good; the last one,
at the end, may have lost blanks), and `DraftInv`
about the one in hand: its draft is `DraftOf` what git has written of it (the names
still unseen before its first hunk, all hunks but the open one), and the open hunk is
`HunkOf` its lines, with the two counters as far behind them.  Once a line has
looked like a header, nothing is claimed of the draft but its type, which is why the
types are part of the invariant: the rest of that file, and the next header, are read
from any draft.  `ParserStep` has one step for each kind of line git writes: a file
header (`HeaderRead`, by cases of the change), the first and the later hunk headers,
a line of a hunk, the marker of a missing newline, the end.  `InvFinishes` is
the flush that another file brings: `FinalizeMeant` says that closing `DraftOf` gives
`Meant`.  `InvFaithful` is the end of the output, where the open hunk is trimmed
first: `TrimLinesCut` says that its lines are then cut short (`CutShort`), `CountCut`
that the counts of added and deleted lines stay, and `FinalizeCut` that closing the
draft gives `Meant` but for blanks (`LosesBlanks`).

`SplitShowsTheHunk` and `HighlightsAreExact` are about what loops compute, so they are
shown for every hunk the parser may make (`HunksTyped`), without a step of the
system.  `PushedUnfolds` gives the equation of a loop that comes closer to its end
with each turn.  From it, by induction from the end of a hunk backwards, `Shows`
and `LitUp` say of the lines from i on what the properties say of a hunk;
`RowsAtShows` and `HighlightsAtLit` are one turn of the loop, `ShowsJoin` and
`LitUpJoin` put a turn in front of the rest.

For one pair of lines, `CommonIsLongest` says that `dp` is an upper bound: no common
subsequence from a pair of places on is longer.  Two equal tokens are both dropped
from one (`CommonRest`), and at two others it leaves out the one or the other.
`WalkedEverywhere` says that the walk keeps exactly as many tokens as `dp` says, that
they are common to both texts, and that it cuts both up without a loss.  Together,
`TokenDiffExact`: what is not highlighted is a longest common subsequence.  Above the
cap the two texts are highlighted as a whole, and only the rest of that holds.

`IInv` of `Driver` adds to the three safety properties `WorkInv` (what is left
to do is unpublished), `RpcInv` (an orphaned operation of the worker daemon
runs only while no pipeline does, since `setup_worktree` is refused while it is
busy; an answer of the tests names HEAD), `VettedInv` (what was reviewed is at HEAD until the
tests begin, and from the confirmation on HEAD is what they left) and `IntentInv` (what the broker pushed
for the intent in flight is the one push of this run that is not on record).
`LeaveStep` proves all ends of a run at once; `RecordStep` that recording an
outcome takes no push off the record.  The refinement maps every record of
"published" to `Complete`, and the start of a run to `Tell` or a stutter.

Assumed: the named assumptions of the modules (budgets are natural numbers,
the null values are outside the sets they extend).  Bounds such as `MaxCommits`
are constants of the theorems too.

The functions that follow a loop are defined by recursion.  The provers have no
induction over data, but from the well-foundedness of the naturals they get
induction over a set of them (`NatSetInduction`), and with it that such a function
exists and satisfies its equation (`PushesExist`, `FilledExists`), so that CHOOSE, by
which TLA+ defines it, finds it.  All inductions of `ReviewProofs` are of that form.

Assumed beside the bounds and the null values: a line of a hunk has a type and a
text that is a sequence of tokens, which is not only blanks behind the beginning of a
header (`UnifiedDiffAssumption`), and a line without
highlights is told from one with them (`ReviewAssumption`).

Out of the prover's reach, and checked by TLC only: liveness, which needs fairness
and ENABLED (`DispatchReturns`, `WorkerDaemonFreed`, `EventuallyFree`,
`RequestSettles`, `RequestEnds`, `RunEnds`, `PageKeepsUp`, `EndsWhenTold`,
`GateIsAnswered`).

## Not modelled

* Without state whose order matters: the MCP transport and the tool schemas,
  argument parsing, the configuration of each daemon, `html.ts` and `markdown.ts`,
  triage, telemetry, the cli beyond `serve up`, `down` and `url`, the shell scripts,
  the pre-push hook (a pure check on one push's input), the broker's
  test-independence caveat (a pure function that annotates the prompt).
* Of serve and the page: the Host check, static assets and headers; layout,
  folding, search, themes, the copying of text.
* Of diffs: copies, which the broker's git does not detect and the parser treats
  like renames; quoted file names and names that end in blanks; texts beyond what makes a line look like
  another.
* The reviewer is a wait of bounded length with no say; its handler's session is
  not modelled.  Which check of the broker's many refused is one refusal.
* Of the terminal: several lines pasted in one piece, of which readline makes several
  events before a continuation runs.
* What a shell leaves behind: processes that go on after an edit session or a test
  command has ended.
* File writes other than the ledger's do not fail.  spine-prepare that dies between
  the set-up of the worktrees and the seed leaves what it found; `Reseed` is one
  step.
* One executor per ticket is taken for granted in `Spine`; `SpinedLock` says how
  far that is true, and the REPL takes no lock at all.  One driver at a time is
  taken for granted in `Driver`: it takes no lock either.  A serial worker daemon
  is taken for granted in both; `Listener` says how far that is true.

## Plan

1. Done: `Spine` with failing writes, `SpinedLock`, `Listener`, `Broker`, `Serve`,
   `Driver`, `Repl`, `UnifiedDiff`, `Review`, with the proofs above: all safety
   properties and refinements of the runs.
2. Composition of `Spine` and `Broker`: the requester's timeout against a late
   approval.  `Broker` shows today that the client's leaving aborts the request, and
   `Spine` that a lost answer leaves the verdicts as they are.
3. The reviewer's handler, with a session that its caller left.

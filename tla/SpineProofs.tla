---------------------------- MODULE SpineProofs ----------------------------
(***************************************************************************)
(* Theorems about Spine, for every number of repositories and every        *)
(* budget, and their proofs.                                               *)
(***************************************************************************)
EXTENDS Spine, TLAPS

-----------------------------------------------------------------------------
(* What the ledger's transitions return.                                   *)

\* The ledger's transitions return entries.
LEMMA RecordsAreEntries ==
  ASSUME NEW e \in Entry
  PROVE  /\ \A n \in Nat : RecordWorkerRun(e, n) \in Entry
         /\ \A v \in Green \cup {None} : RecordTests(e, v) \in Entry
         /\ \A v \in Approved \cup {None} : RecordReview(e, v) \in Entry
         /\ [e EXCEPT !.plan = TRUE] \in Entry
         /\ \A n \in Nat : [e EXCEPT !.published = n] \in Entry
  BY DEF Entry, RecordWorkerRun, RecordTests, RecordReview

\* Charging an allowed action stays within the budgets.
LEMMA ChargesAreBudgets ==
  ASSUME used \in Budget, ActionAllowed
  PROVE  /\ Charged \in Budget
         /\ WorkerRunAllowed => ChargedRun \in Budget
<1>1. used.actions + 1 \in 0 .. MaxActions
  BY BoundsAssumption DEF Budget, ActionAllowed
<1>2. Charged \in Budget
  BY <1>1 DEF Budget, Charged
<1>3. ASSUME WorkerRunAllowed PROVE ChargedRun \in Budget
  <2>1. used.runs + 1 \in 0 .. MaxWorkerRuns
    BY <1>3, BoundsAssumption DEF Budget, WorkerRunAllowed
  <2> QED
    BY <1>1, <2>1 DEF Budget, ChargedRun
<1> QED
  BY <1>2, <1>3

-----------------------------------------------------------------------------
(* Type correctness.                                                       *)

\* Init is well typed.
LEMMA InitTypeOK == Init => TypeOK
<1> SUFFICES ASSUME Init PROVE TypeOK
  OBVIOUS
<1>1. Seed(head) \in [Repos -> Entry]
  BY DEF Init, Seed, FreshEntry, Entry
<1>2. NothingUsed \in Budget
  BY BoundsAssumption DEF NothingUsed, Budget
<1>3. NoReply \in Reply
  BY DEF NoReply, Reply
<1> QED
  BY <1>1, <1>2, <1>3 DEF Init, TypeOK, Steps, NoDiff

\* Every step is well typed.
LEMMA NextTypeOK == TypeOK /\ [Next]_vars => TypeOK'
<1> SUFFICES ASSUME TypeOK, [Next]_vars PROVE TypeOK'
  OBVIOUS
<1> USE DEF TypeOK, vars, worktree, rpc, session, call, ledger, file, aux
<1>1. NoReply \in Reply /\ Error \in Reply
  BY DEF NoReply, Error, Reply
<1>2. NoDiff \in [from : Nat, head : Nat]
  BY DEF NoDiff
<1>3. /\ ActionAllowed => Charged \in Budget
      /\ ActionAllowed /\ WorkerRunAllowed => ChargedRun \in Budget
  BY ChargesAreBudgets
<1>4. ASSUME NEW e \in [Repos -> Entry], NEW u \in Budget, Return(e, u)
      PROVE  /\ pc' = "idle" /\ pc' \in Steps
             /\ cur' \in Repos \cup {None}
             /\ judged' \in [from : Nat, head : Nat]
             /\ entry' \in [Repos -> Entry]
             /\ used' \in Budget
             /\ disk' \in [entry : [Repos -> Entry], used : Budget]
             /\ unsaved' \in BOOLEAN
             /\ failures' \in Nat
  <2>1. /\ pc' = "idle" /\ cur' = None /\ judged' = NoDiff /\ entry' = e /\ used' = u
        /\ \/ disk' = [entry |-> e, used |-> u] /\ unsaved' = FALSE /\ failures' = failures
           \/ disk' = disk /\ unsaved' = TRUE /\ failures' = failures + 1
    BY <1>4 DEF Return, Persist
  <2>2. [entry |-> e, used |-> u] \in [entry : [Repos -> Entry], used : Budget]
    OBVIOUS
  <2>3. disk' \in [entry : [Repos -> Entry], used : Budget]
    BY <2>1, <2>2
  <2> QED
    <3>1. unsaved' \in BOOLEAN
      BY <2>1, Zenon
    <3>2. failures' \in Nat
      BY <2>1, SMT
    <3> QED
      BY <1>2, <2>1, <2>3, <3>1, <3>2 DEF Steps
<1>5. ASSUME NEW r \in Repos, NEW step \in Steps, Suspend(r, step)
      PROVE  /\ ActionAllowed
             /\ pc' \in Steps
             /\ cur' \in Repos \cup {None}
             /\ pc' # "idle" => cur' \in Repos
  BY <1>5 DEF Suspend
<1>6. ASSUME NEW r \in Repos, Begin(r) PROVE TypeOK'
  <2>1. CASE StartWorker(r)
    BY <1>3, <1>5, <2>1 DEF StartWorker, Steps
  <2>2. CASE StartTests(r)
    BY <1>3, <1>5, <2>2 DEF StartTests, Steps
  <2>3. CASE StartReview(r)
    BY <1>3, <1>5, <2>3 DEF StartReview, Steps, Entry
  <2>4. CASE StartPlan(r)
    BY <1>3, <1>5, <2>4 DEF StartPlan, Steps
  <2>5. CASE AskHuman(r)
    BY <1>3, <1>5, <2>5 DEF AskHuman, Steps
  <2>6. CASE RefusePublish(r)
    BY <1>3, <1>4, <2>6 DEF RefusePublish
  <2>7. CASE RequestPublish(r)
    BY <1>3, <1>5, <2>7 DEF RequestPublish, Steps
  <2> QED
    BY <1>6, <2>1, <2>2, <2>3, <2>4, <2>5, <2>6, <2>7 DEF Begin
<1>7. ASSUME NEW r \in Repos, Finish(r) PROVE TypeOK'
  <2>1. CASE RecordOutcome(r)
    <3>1. RecordWorkerRun(entry[r], reply.sha) \in Entry
      BY RecordsAreEntries DEF Reply
    <3>2. lost' \in [Repos -> BOOLEAN]
      BY <2>1 DEF RecordOutcome
    <3> QED
      BY <1>1, <1>4, <2>1, <3>1, <3>2 DEF RecordOutcome
  <2>2. CASE WorkerStepFailed(r)
    BY <1>1, <1>4, <2>2 DEF WorkerStepFailed
  <2>3. CASE WorkerAnswerLost(r)
    BY <1>1, <1>4, <2>3 DEF WorkerAnswerLost
  <2>4. CASE RecordTestRun(r)
    <3>1. [sha |-> head[r], ran |-> reply.sha] \in Green
      BY DEF Green, Reply
    <3>2. ASSUME NEW v \in Green \cup {None} PROVE RecordTests(entry[r], v) \in Entry
      BY RecordsAreEntries
    <3> QED
      BY <1>1, <1>4, <2>4, <3>1, <3>2 DEF RecordTestRun
  <2>5. CASE RecordVerdict(r)
    <3>1. [sha |-> head[r], judged |-> judged.head, from |-> judged.from] \in Approved
      BY DEF Approved
    <3>2. ASSUME NEW v \in Approved \cup {None} PROVE RecordReview(entry[r], v) \in Entry
      BY RecordsAreEntries
    <3> QED
      BY <1>4, <2>5, <3>1, <3>2 DEF RecordVerdict
  <2>6. CASE RecordPlan(r)
    <3>1. [entry EXCEPT ![r].plan = TRUE] \in [Repos -> Entry]
      BY RecordsAreEntries
    <3> QED
      BY <1>4, <2>6, <3>1 DEF RecordPlan
  <2>7. CASE PublishAnswered(r)
    <3>1. [entry EXCEPT ![r].published = head[r]] \in [Repos -> Entry]
      BY RecordsAreEntries
    <3> QED
      BY <1>4, <2>7, <3>1 DEF PublishAnswered
  <2> QED
    BY <1>7, <2>1, <2>2, <2>3, <2>4, <2>5, <2>6, <2>7 DEF Finish
<1>8. ASSUME NEW r \in Repos, WorkerDaemon(r) PROVE TypeOK'
  <2>1. CASE EditSession(r)
    BY <2>1, BoundsAssumption DEF EditSession, ShellIn
  <2>2. CASE CommitAll(r)
    BY <1>1, <2>2 DEF CommitAll, Answer, Reply
  <2>3. CASE EditSessionFailed(r)
    BY <1>1, <2>3 DEF EditSessionFailed, Answer
  <2>4. CASE TestCommand(r)
    BY <2>4, BoundsAssumption DEF TestCommand, ShellIn
  <2> QED
    BY <1>8, <2>1, <2>2, <2>3, <2>4 DEF WorkerDaemon
<1>9. CASE AnswerAtOnce
  BY <1>3, <1>4, <1>9 DEF AnswerAtOnce
<1>10. CASE RefuseAction \/ RefuseWorkerRun
  BY <1>3, <1>4, <1>10 DEF RefuseAction, RefuseWorkerRun
<1>11. CASE WorkerBusy
  BY <1>3, <1>4, <1>11 DEF WorkerBusy
<1>12. CASE TestGate
  BY <1>12 DEF TestGate, Answer, Reply
<1>13. CASE StepFailed
  BY <1>1, <1>4, <1>13 DEF StepFailed
<1>14. CASE HumanAnswers
  BY <1>4, <1>14 DEF HumanAnswers
<1>15. CASE HumanAgrees
  BY <1>15 DEF HumanAgrees, Steps
<1>16. CASE HumanDeclines
  BY <1>4, <1>16 DEF HumanDeclines
<1>17. CASE EndSession
  BY <1>3, <1>4, <1>17 DEF EndSession
<1>18. CASE Exit
  BY <1>18 DEF Exit, Forget
<1>19. CASE Crash
  <2>2. lost' \in [Repos -> BOOLEAN]
    BY <1>19 DEF Crash, Forget
  <2>3. wd' \in [op : {"edit", "test"}, repo : Repos, client : BOOLEAN] \cup {None}
    BY <1>19 DEF Crash
  <2>4. /\ up' = FALSE /\ pc' = "idle" /\ cur' = None
        /\ judged' = NoDiff /\ reply' = NoReply
        /\ crashes' \in Nat
        /\ UNCHANGED <<worktree, ended, ledger, seeded, started>>
    BY <1>19 DEF Crash
  <2> QED
    BY <1>1, <1>2, <2>2, <2>3, <2>4 DEF Steps
<1>20. CASE Restart
  BY <1>20 DEF Restart, Load
<1>21. CASE Reseed
  <2>1. ASSUME NEW heads \in [Repos -> 0 .. MaxCommits]
        PROVE  Seed(heads) \in [Repos -> Entry] /\ heads \in [Repos -> Nat]
    BY BoundsAssumption DEF Seed, FreshEntry, Entry
  <2>2. NothingUsed \in Budget
    BY BoundsAssumption DEF NothingUsed, Budget
  <2>3. PICK heads \in [Repos -> 0 .. MaxCommits] :
          /\ head' = heads
          /\ entry' = Seed(heads)
          /\ disk' = [entry |-> Seed(heads), used |-> NothingUsed]
          /\ seeded' = heads
    BY <1>21 DEF Reseed
  <2>4. disk' \in [entry : [Repos -> Entry], used : Budget]
    BY <2>1, <2>2, <2>3
  <2>5. /\ used' = NothingUsed /\ lost' = [r \in Repos |-> FALSE]
        /\ unsaved' = FALSE /\ failures' = 0 /\ started' = 0 /\ crashes' = 0
        /\ up' = (Policy = "in-chat") /\ ended' = "no"
        /\ UNCHANGED <<newest, dirty, rpc, call>>
    BY <1>21 DEF Reseed
  <2> QED
    BY <2>1, <2>2, <2>3, <2>4, <2>5
<1>22. CASE UNCHANGED vars
  BY <1>22
<1> QED
  BY <1>6, <1>7, <1>8, <1>9, <1>10, <1>11, <1>12, <1>13, <1>14, <1>15, <1>16,
     <1>17, <1>18, <1>19, <1>20, <1>21, <1>22 DEF Next

\* Every variable keeps to the values TypeOK lists.
THEOREM TypeCorrect == Spec => []TypeOK
<1> QED
  BY InitTypeOK, NextTypeOK, PTL DEF Spec

-----------------------------------------------------------------------------
(* The effects of a step on one repository's record and HEAD.              *)

\* What Return leaves in memory and in the file.
LEMMA ReturnWrites ==
  ASSUME NEW e, NEW u, Return(e, u)
  PROVE  /\ entry' = e /\ used' = u /\ pc' = "idle"
         /\ \/ disk' = [entry |-> e, used |-> u] /\ ~unsaved' /\ failures' = failures
            \/ disk' = disk /\ unsaved' /\ failures' = failures + 1
  BY DEF Return, Persist

\* The steps that write r's entry.
Records(r) ==
  \/ RecordOutcome(r) \/ RecordTestRun(r) \/ RecordVerdict(r) \/ RecordPlan(r)
  \/ PublishAnswered(r)

\* A record changes the entry of its own repository only.
LEMMA RecordTouchesOne ==
  ASSUME IInv, NEW s \in Repos, Records(s), NEW r \in Repos, r # s
  PROVE  entry'[r] = entry[r]
<1>1. entry \in [Repos -> Entry]
  BY DEF IInv, TypeOK
<1>2. ASSUME NEW x, NEW u, Return([entry EXCEPT ![s] = x], u)
      PROVE  entry'[r] = entry[r]
  <2>1. entry' = [entry EXCEPT ![s] = x]
    BY <1>2 DEF Return, Persist
  <2>2. [entry EXCEPT ![s] = x][r] = entry[r]
    BY <1>1
  <2> QED
    BY <1>1, <2>1, <2>2
<1>3. CASE RecordOutcome(s)
  BY <1>2, <1>3 DEF RecordOutcome
<1>4. CASE RecordTestRun(s)
  BY <1>2, <1>4 DEF RecordTestRun
<1>5. CASE RecordVerdict(s)
  BY <1>2, <1>5 DEF RecordVerdict
<1>6. CASE RecordPlan(s)
  BY <1>2, <1>6 DEF RecordPlan
<1>7. CASE PublishAnswered(s)
  <2>1. CASE Return([entry EXCEPT ![s].published = head[s]], used)
    BY <1>2, <2>1
  <2>2. CASE Return(entry, used)
    BY <1>1, <2>2, ReturnWrites
  <2> QED
    BY <1>7, <2>1, <2>2 DEF PublishAnswered
<1> QED
  BY <1>3, <1>4, <1>5, <1>6, <1>7 DEF Records

\* What a step may do to r: rewrite its entry in a record, or bring it back from
\* the file, move its HEAD in the worker daemon, lose an outcome, make a loss good,
\* or leave it alone.
Effects(r) ==
  /\ \/ entry'[r] = entry[r]
     \/ Records(r)
     \/ lost[r] /\ entry'[r] = disk.entry[r]
  /\ disk'.entry[r] \in {disk.entry[r], entry'[r]}
  /\ head'[r] = head[r] \/ EditSession(r) \/ CommitAll(r) \/ TestCommand(r)
  /\ lost[r] => lost'[r] \/ RecordOutcome(r)
  /\ Running(r) /\ ~Running(r)'
       => RecordOutcome(r) \/ RecordTestRun(r) \/ lost'[r]
  /\ seeded' = seeded

\* A record keeps worktrees and seeds, and makes a loss good only by an outcome.
LEMMA RecordEffects ==
  ASSUME IInv, NEW s \in Repos, Records(s), NEW r \in Repos
  PROVE  Effects(r)
<1>1. entry'[r] = entry[r] \/ Records(r)
  BY RecordTouchesOne
<1>2. disk'.entry[r] \in {disk.entry[r], entry'[r]}
  BY ReturnWrites
  DEF Records, RecordOutcome, RecordTestRun, RecordVerdict, RecordPlan,
      PublishAnswered
<1>3. head' = head /\ seeded' = seeded
  BY
  DEF Records, RecordOutcome, RecordTestRun, RecordVerdict, RecordPlan,
      PublishAnswered, worktree, aux
<1>4. lost[r] => lost'[r] \/ RecordOutcome(r)
  BY
  DEF IInv, TypeOK, Records, RecordOutcome, RecordTestRun, RecordVerdict, RecordPlan,
      PublishAnswered, aux
<1>5. Running(r) => RecordOutcome(r) \/ RecordTestRun(r)
  BY
  DEF Running, Records, RecordOutcome, RecordTestRun, RecordVerdict, RecordPlan,
      PublishAnswered
<1> QED
  BY <1>1, <1>2, <1>3, <1>4, <1>5 DEF Effects

\* Every step but Reseed has one of the effects listed above.
LEMMA StepEffects ==
  ASSUME IInv, Next, NEW r \in Repos
  PROVE  Effects(r) \/ Reseed
<1> USE NoneAssumption
    DEF IInv, TypeOK, LedgerInv, Running, worktree, rpc, session, call, ledger, file,
        aux
<1>1. ASSUME NEW s \in Repos, Begin(s) PROVE Effects(r)
  <2>1. CASE RefusePublish(s)
    BY <2>1, ReturnWrites DEF Effects, RefusePublish, Ready
  <2>2. CASE ~RefusePublish(s)
    BY <1>1, <2>2
    DEF Effects, Begin, StartWorker, StartTests, StartReview, StartPlan,
        AskHuman, RequestPublish, Suspend, Ready
  <2> QED
    BY <2>1, <2>2
<1>2. ASSUME NEW s \in Repos, Finish(s) PROVE Effects(r)
  <2>1. CASE Records(s)
    BY <2>1, RecordEffects
  <2>2. CASE WorkerStepFailed(s)
    BY <2>2, ReturnWrites DEF Effects, WorkerStepFailed
  <2>3. CASE WorkerAnswerLost(s)
    BY <2>3, ReturnWrites DEF Effects, WorkerAnswerLost
  <2> QED
    BY <1>2, <2>1, <2>2, <2>3 DEF Finish, Records
<1>3. ASSUME NEW s \in Repos, WorkerDaemon(s) PROVE Effects(r)
  BY <1>3
  DEF Effects, WorkerDaemon, EditSession, CommitAll, EditSessionFailed, TestCommand,
      ShellIn, Editing, Answer
<1>4. CASE \/ AnswerAtOnce \/ RefuseAction \/ RefuseWorkerRun \/ WorkerBusy
           \/ HumanAnswers \/ HumanDeclines \/ EndSession
  BY <1>4, ReturnWrites
  DEF Effects, AnswerAtOnce, RefuseAction, RefuseWorkerRun, WorkerBusy, HumanAnswers,
      HumanDeclines, EndSession, Ready
<1>5. CASE TestGate \/ HumanAgrees \/ Exit \/ Restart
  BY <1>5 DEF Effects, TestGate, Answer, HumanAgrees, Exit, Forget, Restart, Load
<1>6. CASE StepFailed
  BY <1>6, ReturnWrites DEF Effects, StepFailed
<1>7. CASE Crash
  BY <1>7 DEF Effects, Crash, Forget
<1> QED
  BY <1>1, <1>2, <1>3, <1>4, <1>5, <1>6, <1>7 DEF Next

\* What the records other than RecordOutcome leave in the file.
LEMMA RecordsOther ==
  ASSUME IInv, NEW r \in Repos, Records(r), ~RecordOutcome(r)
  PROVE  \/ /\ pc = "tests" /\ cur = r /\ reply.sha = head[r]
            /\ \E v \in Green \cup {None} :
                 /\ v # None => v.sha = head[r] /\ v.ran = reply.sha
                 /\ entry'[r] = RecordTests(entry[r], v)
         \/ /\ pc = "review" /\ cur = r
            /\ \E v \in Approved \cup {None} :
                 /\ v # None => /\ v.sha = head[r]
                                /\ v.judged = judged.head
                                /\ v.from = judged.from
                 /\ entry'[r] = RecordReview(entry[r], v)
         \/ entry'[r] = [entry[r] EXCEPT !.plan = TRUE]
         \/ entry'[r] = [entry[r] EXCEPT !.published = head[r]]
         \/ entry'[r] = entry[r]
<1>1. entry \in [Repos -> Entry]
  BY DEF IInv, TypeOK
<1>2. ASSUME NEW x, NEW u, Return([entry EXCEPT ![r] = x], u)
      PROVE  entry'[r] = x
  <2>1. entry' = [entry EXCEPT ![r] = x]
    BY <1>2 DEF Return, Persist
  <2>2. [entry EXCEPT ![r] = x][r] = x
    BY <1>1
  <2> QED
    BY <2>1, <2>2
<1>3. CASE RecordTestRun(r)
  <2>1. [sha |-> head[r], ran |-> reply.sha] \in Green
    BY DEF Green, Reply, IInv, TypeOK
  <2> QED
    BY <1>1, <1>2, <1>3, <2>1 DEF RecordTestRun, IInv, RpcInv
<1>4. CASE RecordVerdict(r)
  <2>1. [sha |-> head[r], judged |-> judged.head, from |-> judged.from] \in Approved
    BY DEF Approved, IInv, TypeOK
  <2> QED
    BY <1>1, <1>2, <1>4, <2>1 DEF RecordVerdict
<1>5. CASE RecordPlan(r)
  BY <1>1, <1>2, <1>5 DEF RecordPlan
<1>6. CASE PublishAnswered(r)
  <2>1. CASE Return([entry EXCEPT ![r].published = head[r]], used)
    BY <1>1, <1>2, <2>1
  <2>2. CASE Return(entry, used)
    BY <1>1, <2>2, ReturnWrites
  <2> QED
    BY <1>6, <2>1, <2>2 DEF PublishAnswered
<1> QED
  BY <1>3, <1>4, <1>5, <1>6 DEF Records

\* RecordOutcome stores the commit that is at HEAD.
LEMMA OutcomeRecorded ==
  ASSUME IInv, NEW r \in Repos, RecordOutcome(r)
  PROVE  /\ reply.sha = head[r] /\ head' = head
         /\ entry'[r] = RecordWorkerRun(entry[r], head[r])
         /\ lost'[r] = (lost[r] /\ entry[r].head = head[r])
<1>1. reply.sha = head[r] /\ head' = head
  BY DEF RecordOutcome, IInv, RpcInv, worktree
<1>2. entry \in [Repos -> Entry] /\ lost \in [Repos -> BOOLEAN]
  BY DEF IInv, TypeOK
<1>3. entry' = [entry EXCEPT ![r] = RecordWorkerRun(@, reply.sha)]
  BY ReturnWrites DEF RecordOutcome
<1>4. lost'[r] = (lost[r] /\ entry[r].head = reply.sha)
  BY <1>2 DEF RecordOutcome
<1> QED
  BY <1>1, <1>2, <1>3, <1>4

\* The head of a recorded worker run is the commit it answered, and a head that
\* moves takes the verdicts with it.
LEMMA WorkerRunRecords ==
  ASSUME NEW e \in Entry, NEW n \in Nat
  PROVE  /\ RecordWorkerRun(e, n).head = n
         /\ e.head # n => /\ RecordWorkerRun(e, n).green = None
                          /\ RecordWorkerRun(e, n).approved = None
  BY DEF Entry, RecordWorkerRun

\* A test run is the only record beside RecordOutcome that writes the green run,
\* and none of them moves the ledger's head.
LEMMA RecordKeepsHeadAndGreen ==
  ASSUME IInv, NEW r \in Repos, Records(r), ~RecordOutcome(r), ~RecordTestRun(r)
  PROVE  entry'[r].head = entry[r].head /\ entry'[r].green = entry[r].green
<1>1. entry[r] \in Entry
  BY DEF IInv, TypeOK
<1>2. ~(pc = "tests" /\ cur = r)
  BY DEF Records, RecordOutcome, RecordTestRun, RecordVerdict, RecordPlan, PublishAnswered
<1> QED
  BY <1>1, <1>2, RecordsOther DEF Entry, RecordReview

\* A test run stamps its verdict with HEAD.
LEMMA TestRunRecords ==
  ASSUME IInv, NEW r \in Repos, RecordTestRun(r), GreenOfItsHead(entry'[r])
  PROVE  head' = head /\ head[r] = entry'[r].head
<1>1. entry \in [Repos -> Entry]
  BY DEF IInv, TypeOK
<1>2. head' = head
  BY DEF RecordTestRun, worktree
<1>3. PICK v \in {None, [sha |-> head[r], ran |-> reply.sha]} :
        entry' = [entry EXCEPT ![r] = RecordTests(@, v)]
  BY ReturnWrites DEF RecordTestRun
<1>4. /\ entry'[r].green = v
      /\ entry'[r].head = entry[r].head
  BY <1>1, <1>3 DEF RecordTests, Entry
<1> QED
  BY <1>2, <1>3, <1>4 DEF GreenOfItsHead

\* HEAD moves only under a shell in its worktree: of the action in flight, or of an
\* operation whose outcome was lost.
LEMMA HeadIsStill ==
  ASSUME IInv, NEW r \in Repos, Effects(r), ~lost[r], ~Running(r)
  PROVE  head'[r] = head[r]
  BY NoneAssumption
  DEF Effects, EditSession, CommitAll, TestCommand, Editing, Running, IInv, RpcInv,
      TypeOK

\* HeadInv is preserved: HEAD moves only while an action is running, and every such
\* action ends with its outcome recorded or its repository lost.
LEMMA NextHeadInv ==
  ASSUME IInv, TypeOK', Next, ~Reseed, NEW r \in Repos,
         ~lost'[r], ~Running(r)', GreenOfItsHead(entry'[r])
  PROVE  head'[r] = entry'[r].head
<1>1. Effects(r)
  BY StepEffects
<1>2. CASE RecordOutcome(r)
  <2>1. entry[r] \in Entry /\ head[r] \in Nat
    BY DEF IInv, TypeOK
  <2> QED
    BY <1>2, <2>1, OutcomeRecorded, WorkerRunRecords
<1>3. CASE RecordTestRun(r)
  BY <1>3, TestRunRecords
<1>4. CASE ~RecordOutcome(r) /\ ~RecordTestRun(r)
  <2>1. ~lost[r] /\ ~Running(r)
    BY <1>1, <1>4 DEF Effects
  <2>2. head'[r] = head[r]
    BY <1>1, <2>1, HeadIsStill
  <2>3. entry'[r].head = entry[r].head /\ entry'[r].green = entry[r].green
    BY <1>1, <1>4, <2>1, RecordKeepsHeadAndGreen DEF Effects
  <2> QED
    BY <2>1, <2>2, <2>3 DEF IInv, HeadInv, GreenOfItsHead
<1> QED
  BY <1>2, <1>3, <1>4

\* The ledger's transitions keep the stamps true.
LEMMA LedgerKeepsStampsTrue ==
  ASSUME NEW e \in Entry, NEW base, TrueToItsStamps(e, base)
  PROVE  /\ \A n \in Nat : TrueToItsStamps(RecordWorkerRun(e, n), base)
         /\ TrueToItsStamps([e EXCEPT !.plan = TRUE], base)
         /\ \A n \in Nat : TrueToItsStamps([e EXCEPT !.published = n], base)
         /\ \A v \in Green \cup {None} :
              (v # None => v.ran = v.sha) => TrueToItsStamps(RecordTests(e, v), base)
         /\ \A v \in Approved \cup {None} :
              (v # None => v.judged = v.sha /\ v.from = base)
                => TrueToItsStamps(RecordReview(e, v), base)
  BY DEF Entry, TrueToItsStamps, RecordWorkerRun, RecordTests, RecordReview

\* No transition moves the base.
LEMMA LedgerKeepsBase ==
  ASSUME NEW e \in Entry
  PROVE  /\ \A n \in Nat : RecordWorkerRun(e, n).base = e.base
         /\ [e EXCEPT !.plan = TRUE].base = e.base
         /\ \A n \in Nat : [e EXCEPT !.published = n].base = e.base
         /\ \A v \in Green \cup {None} : RecordTests(e, v).base = e.base
         /\ \A v \in Approved \cup {None} : RecordReview(e, v).base = e.base
  BY DEF Entry, RecordWorkerRun, RecordTests, RecordReview

\* VerdictInv is preserved.
LEMMA NextVerdictInv ==
  ASSUME IInv, Next, ~Reseed, NEW r \in Repos
  PROVE  /\ entry'[r].base = seeded'[r]
         /\ disk'.entry[r].base = seeded'[r]
         /\ ~lost'[r] => TrueToItsStamps(entry'[r], seeded'[r])
<1>1. /\ Effects(r) /\ seeded' = seeded
      /\ lost[r] => lost'[r] \/ RecordOutcome(r)
      /\ disk'.entry[r] \in {disk.entry[r], entry'[r]}
  BY StepEffects DEF Effects
<1>2. /\ entry[r] \in Entry /\ head[r] \in Nat
      /\ entry[r].base = seeded[r] /\ disk.entry[r].base = seeded[r]
      /\ ~lost[r] => TrueToItsStamps(entry[r], seeded[r])
  BY DEF IInv, TypeOK, VerdictInv
<1>3. CASE RecordOutcome(r)
  <2>1. entry'[r] = RecordWorkerRun(entry[r], head[r])
    BY <1>3, OutcomeRecorded
  <2>2. RecordWorkerRun(entry[r], head[r]).base = entry[r].base
    BY <1>2, LedgerKeepsBase
  <2>3. CASE lost[r]
    <3>1. ~lost'[r] => entry[r].head # head[r]
      BY <1>3, <2>3, OutcomeRecorded
    <3>2. ~lost'[r] => TrueToItsStamps(RecordWorkerRun(entry[r], head[r]), seeded[r])
      BY <1>2, <3>1, WorkerRunRecords DEF TrueToItsStamps
    <3> QED
      BY <1>1, <1>2, <2>1, <2>2, <3>2
  <2>4. CASE ~lost[r]
    <3>1. TrueToItsStamps(RecordWorkerRun(entry[r], head[r]), seeded[r])
      BY <1>2, <2>4, LedgerKeepsStampsTrue
    <3> QED
      BY <1>1, <1>2, <2>1, <2>2, <3>1
  <2> QED
    BY <2>3, <2>4
<1>4. CASE ~RecordOutcome(r) /\ entry'[r] = entry[r]
  BY <1>1, <1>2, <1>4
<1>5. CASE ~RecordOutcome(r) /\ lost[r] /\ entry'[r] = disk.entry[r]
  BY <1>1, <1>2, <1>5
<1>6. CASE ~RecordOutcome(r) /\ Records(r)
  <2>1. ASSUME ~lost[r], pc = "review", cur = r
        PROVE  judged.head = head[r] /\ judged.from = seeded[r]
    BY <2>1 DEF IInv, ReviewInv
  <2>2. entry'[r].base = entry[r].base
    BY <1>2, <1>6, RecordsOther, LedgerKeepsBase
  <2>3. ASSUME ~lost[r] PROVE TrueToItsStamps(entry'[r], seeded[r])
    <3>1. CASE pc = "tests" /\ cur = r /\ reply.sha = head[r] /\
               \E v \in Green \cup {None} :
                 /\ v # None => v.sha = head[r] /\ v.ran = reply.sha
                 /\ entry'[r] = RecordTests(entry[r], v)
      BY <1>2, <2>3, <3>1, LedgerKeepsStampsTrue
    <3>2. CASE pc = "review" /\ cur = r /\
               \E v \in Approved \cup {None} :
                 /\ v # None => /\ v.sha = head[r]
                                /\ v.judged = judged.head
                                /\ v.from = judged.from
                 /\ entry'[r] = RecordReview(entry[r], v)
      BY <1>2, <2>1, <2>3, <3>2, LedgerKeepsStampsTrue
    <3>3. CASE \/ entry'[r] = [entry[r] EXCEPT !.plan = TRUE]
               \/ entry'[r] = [entry[r] EXCEPT !.published = head[r]]
               \/ entry'[r] = entry[r]
      BY <1>2, <2>3, <3>3, LedgerKeepsStampsTrue
    <3> QED
      BY <1>6, <3>1, <3>2, <3>3, RecordsOther
  <2> QED
    BY <1>1, <1>2, <1>6, <2>2, <2>3
<1> QED
  BY <1>1, <1>3, <1>4, <1>5, <1>6 DEF Effects

-----------------------------------------------------------------------------
(* Memory, file and budgets.                                               *)

\* The budgets are numbers, and the started sessions are accounted for.
LEMMA BudgetArithmetic ==
  ASSUME IInv
  PROVE  /\ used.actions \in Nat /\ used.runs \in Nat
         /\ disk.used.actions \in Nat /\ disk.used.runs \in Nat
         /\ Charged.actions = used.actions + 1 /\ Charged.runs = used.runs
         /\ ChargedRun.actions = used.actions + 1
         /\ ChargedRun.runs = used.runs + 1
         /\ started \in Nat /\ crashes \in Nat /\ failures \in Nat
         /\ up => started <= used.runs + crashes + failures
<1>1. /\ used \in Budget /\ disk.used \in Budget
      /\ started \in Nat /\ crashes \in Nat /\ failures \in Nat
  BY DEF IInv, TypeOK
<1>2. /\ used.actions \in Nat /\ used.runs \in Nat
      /\ disk.used.actions \in Nat /\ disk.used.runs \in Nat
  BY <1>1, BoundsAssumption DEF Budget
<1>3. /\ Charged.actions = used.actions + 1 /\ Charged.runs = used.runs
      /\ ChargedRun.actions = used.actions + 1
      /\ ChargedRun.runs = used.runs + 1
  BY <1>1 DEF Budget, Charged, ChargedRun
<1>4. up => started <= used.runs + crashes + failures
  BY <1>1, <1>2 DEF IInv, LedgerInv
<1> QED
  BY <1>1, <1>2, <1>3, <1>4

\* Returning from an action preserves LedgerInv.
LEMMA ReturnKeepsLedgerInv ==
  ASSUME IInv, up, NEW e, NEW u \in {used, Charged, ChargedRun}, Return(e, u),
         UNCHANGED <<up, started, crashes>>
  PROVE  LedgerInv'
<1>1. u.runs \in Nat /\ u.runs >= used.runs /\ u.actions \in Nat
  BY BudgetArithmetic
<1>2. pc' = "idle" /\ entry' = e /\ used' = u
  BY ReturnWrites
<1>3. started <= disk.used.runs + crashes + failures + 1
  BY BudgetArithmetic DEF IInv, LedgerInv
<1>4. CASE disk' = [entry |-> e, used |-> u] /\ ~unsaved' /\ failures' = failures
  <2>1. disk'.entry = entry' /\ disk'.used = used'
    BY <1>2, <1>4
  <2>2. /\ started' <= used'.runs + crashes' + failures'
        /\ started' <= disk'.used.runs + crashes' + failures'
                         + IF pc' = "worker" THEN 1 ELSE 0
    BY <1>1, <1>2, <1>4, <2>1, BudgetArithmetic
  <2>3. used'.actions <= disk'.used.actions + 1 /\ used'.runs <= disk'.used.runs + 1
    BY <1>1, <1>2, <2>1
  <2> QED
    BY <1>2, <2>1, <2>2, <2>3 DEF LedgerInv
<1>5. CASE disk' = disk /\ unsaved' /\ failures' = failures + 1
  <2>1. started' <= used'.runs + crashes' + failures'
    BY <1>1, <1>2, <1>5, BudgetArithmetic
  <2>2. started' <= disk'.used.runs + crashes' + failures'
                      + IF pc' = "worker" THEN 1 ELSE 0
    BY <1>2, <1>3, <1>5, BudgetArithmetic
  <2> QED
    BY <1>2, <1>5, <2>1, <2>2 DEF LedgerInv
<1> QED
  BY <1>4, <1>5, ReturnWrites

\* Suspending an action preserves LedgerInv.
LEMMA SuspendKeepsLedgerInv ==
  ASSUME IInv, NEW r \in Repos, NEW step \in Steps \ {"idle"}, Suspend(r, step),
         used' = IF step = "worker" THEN ChargedRun ELSE Charged,
         started' = IF step = "worker" THEN started + 1 ELSE started,
         UNCHANGED <<up, entry, file, crashes>>
  PROVE  LedgerInv'
<1> USE DEF file
<1>1. up /\ pc = "idle" /\ pc' = step
  BY DEF Suspend, Ready
<1>2. ~unsaved => disk.entry = entry /\ disk.used = used
  BY <1>1 DEF IInv, LedgerInv
<1>3. ~unsaved => /\ used'.actions = disk'.used.actions + 1
                  /\ step = "worker" => used'.runs = disk'.used.runs + 1
                  /\ step # "worker" => used'.runs = disk'.used.runs
  BY <1>2, BudgetArithmetic
<1>4. /\ started <= disk.used.runs + crashes + failures
      /\ started <= used.runs + crashes + failures
  BY <1>1, BudgetArithmetic DEF IInv, LedgerInv
<1>5. /\ started' <= disk'.used.runs + crashes' + failures'
                       + IF step = "worker" THEN 1 ELSE 0
      /\ started' <= used'.runs + crashes' + failures'
  BY <1>1, <1>4, BudgetArithmetic
<1> QED
  BY <1>1, <1>2, <1>3, <1>5, BudgetArithmetic DEF LedgerInv

\* LedgerInv is preserved.
LEMMA NextLedgerInv == IInv /\ TypeOK' /\ [Next]_vars => LedgerInv'
<1> SUFFICES ASSUME IInv, TypeOK', [Next]_vars PROVE LedgerInv'
  OBVIOUS
<1> USE DEF vars, worktree, rpc, session, call, ledger, file, aux
<1>1. ASSUME NEW r \in Repos, Begin(r) PROVE LedgerInv'
  <2>1. CASE RefusePublish(r)
    BY <2>1, ReturnKeepsLedgerInv DEF RefusePublish, Ready
  <2>2. CASE StartWorker(r)
    BY <2>2, SuspendKeepsLedgerInv DEF StartWorker, Steps
  <2>3. CASE StartTests(r) \/ StartReview(r) \/ StartPlan(r) \/ AskHuman(r)
    BY <2>3, SuspendKeepsLedgerInv
    DEF StartTests, StartReview, StartPlan, AskHuman, Steps
  <2>4. CASE RequestPublish(r)
    BY <2>4, SuspendKeepsLedgerInv DEF RequestPublish, Steps
  <2> QED
    BY <1>1, <2>1, <2>2, <2>3, <2>4 DEF Begin
<1>2. ASSUME NEW r \in Repos, Finish(r) PROVE LedgerInv'
  BY <1>2, ReturnKeepsLedgerInv
  DEF Finish, RecordOutcome, WorkerStepFailed, WorkerAnswerLost, RecordTestRun,
      RecordVerdict, RecordPlan, PublishAnswered
<1>3. ASSUME NEW r \in Repos, WorkerDaemon(r) PROVE LedgerInv'
  BY <1>3
  DEF WorkerDaemon, EditSession, CommitAll, EditSessionFailed, TestCommand, IInv,
      LedgerInv
<1>4. CASE AnswerAtOnce \/ RefuseAction \/ RefuseWorkerRun \/ WorkerBusy \/ EndSession
  BY <1>4, ReturnKeepsLedgerInv
  DEF AnswerAtOnce, RefuseAction, RefuseWorkerRun, WorkerBusy, EndSession, Ready
<1>5. CASE StepFailed \/ HumanAnswers \/ HumanDeclines
  BY <1>5, ReturnKeepsLedgerInv DEF StepFailed, HumanAnswers, HumanDeclines
<1>6. CASE TestGate \/ HumanAgrees
  BY <1>6 DEF TestGate, HumanAgrees, IInv, LedgerInv
<1>7. CASE Exit \/ Crash
  <2>1. /\ up' = FALSE /\ pc' = "idle"
        /\ crashes' \in {crashes, crashes + 1} /\ (pc = "idle" \/ crashes' = crashes + 1)
        /\ UNCHANGED <<entry, disk, used, started, failures>>
    BY <1>7 DEF Exit, Crash
  <2>2. started' <= disk'.used.runs + crashes' + failures'
                      + IF pc' = "worker" THEN 1 ELSE 0
    BY <2>1, BudgetArithmetic DEF IInv, LedgerInv
  <2>3. ASSUME NEW r \in Repos, ~lost'[r] PROVE disk'.entry[r] = entry'[r]
    BY <1>7, <2>1, <2>3 DEF Exit, Crash, Forget
  <2> QED
    BY <2>1, <2>2, <2>3 DEF LedgerInv
<1>8. CASE Restart
  BY <1>8, BudgetArithmetic DEF Restart, Load, IInv, LedgerInv
<1>9. CASE Reseed
  <2>1. PICK heads \in [Repos -> 0 .. MaxCommits] :
          /\ entry' = Seed(heads)
          /\ disk' = [entry |-> Seed(heads), used |-> NothingUsed]
    BY <1>9 DEF Reseed
  <2>2. /\ used' = NothingUsed /\ started' = 0 /\ crashes' = 0 /\ failures' = 0
        /\ pc' = pc /\ ~up
    BY <1>9 DEF Reseed
  <2>3. pc = "idle"
    BY <2>2 DEF IInv, LedgerInv
  <2>4. /\ disk'.entry = entry' /\ disk'.used = used'
        /\ used'.runs = 0 /\ used'.actions = 0
    BY <2>1, <2>2 DEF NothingUsed
  <2> QED
    BY <2>2, <2>3, <2>4 DEF LedgerInv
<1>10. CASE UNCHANGED vars
  BY <1>10 DEF IInv, LedgerInv
<1> QED
  BY <1>1, <1>2, <1>3, <1>4, <1>5, <1>6, <1>7, <1>8, <1>9, <1>10 DEF Next

-----------------------------------------------------------------------------
(* Steps that touch the worker daemon and the reviewer's diff.             *)

\* RpcInv is preserved.
LEMMA NextRpcInv == IInv /\ TypeOK' /\ [Next]_vars => RpcInv'
<1> SUFFICES ASSUME IInv, TypeOK', [Next]_vars PROVE RpcInv'
  OBVIOUS
<1> USE NoneAssumption
    DEF IInv, RpcInv, TypeOK, vars, worktree, rpc, session, call, ledger, file, aux
<1>1. ASSUME NEW r \in Repos, Begin(r) PROVE RpcInv'
  <2>1. CASE RefusePublish(r)
    BY <2>1 DEF RefusePublish, Return, Persist, Ready
  <2>2. CASE StartWorker(r)
    BY <2>2 DEF StartWorker, Suspend, Ready
  <2>3. CASE StartTests(r)
    BY <2>3 DEF StartTests, Suspend, Ready
  <2>4. CASE StartReview(r) \/ StartPlan(r) \/ AskHuman(r) \/ RequestPublish(r)
    BY <2>4
    DEF StartReview, StartPlan, AskHuman, RequestPublish, Suspend, Ready
  <2> QED
    BY <1>1, <2>1, <2>2, <2>3, <2>4 DEF Begin
<1>2. ASSUME NEW r \in Repos, Finish(r) PROVE RpcInv'
  <2>1. CASE RecordOutcome(r)
    BY <2>1 DEF RecordOutcome, Return, Persist, NoReply
  <2>2. CASE WorkerStepFailed(r) \/ WorkerAnswerLost(r)
    BY <2>2 DEF WorkerStepFailed, WorkerAnswerLost, Return, Persist, NoReply
  <2>3. CASE RecordTestRun(r)
    BY <2>3 DEF RecordTestRun, Return, Persist, NoReply
  <2>4. CASE RecordVerdict(r) \/ RecordPlan(r) \/ PublishAnswered(r)
    BY <2>4 DEF RecordVerdict, RecordPlan, PublishAnswered, Return, Persist
  <2> QED
    BY <1>2, <2>1, <2>2, <2>3, <2>4 DEF Finish
<1>3. ASSUME NEW r \in Repos, WorkerDaemon(r) PROVE RpcInv'
  <2>1. CASE EditSession(r) \/ TestCommand(r)
    BY <2>1 DEF EditSession, TestCommand, ShellIn, Editing
  <2>2. CASE CommitAll(r)
    BY <2>2 DEF CommitAll, Editing, Answer
  <2>3. CASE EditSessionFailed(r)
    BY <2>3 DEF EditSessionFailed, Editing, Answer, Error, NoReply
  <2> QED
    BY <1>3, <2>1, <2>2, <2>3 DEF WorkerDaemon
<1>4. CASE AnswerAtOnce \/ RefuseAction \/ RefuseWorkerRun \/ WorkerBusy \/ EndSession
  BY <1>4
  DEF AnswerAtOnce, RefuseAction, RefuseWorkerRun, WorkerBusy, EndSession, Return,
      Persist, Ready
<1>5. CASE TestGate
  BY <1>5 DEF TestGate, Answer
<1>6. CASE StepFailed
  BY <1>6 DEF StepFailed, Return, Persist, NoReply
<1>7. CASE HumanAnswers \/ HumanAgrees \/ HumanDeclines
  BY <1>7 DEF HumanAnswers, HumanAgrees, HumanDeclines, Return, Persist
<1>8. CASE Exit \/ Restart
  BY <1>8 DEF Exit, Forget, Restart, Load
<1>9. CASE Crash
  BY <1>9 DEF Crash, Forget, Running, NoReply
<1>10. CASE Reseed
  BY <1>10 DEF Reseed, LedgerInv
<1>11. CASE UNCHANGED vars
  BY <1>11
<1> QED
  BY <1>1, <1>2, <1>3, <1>4, <1>5, <1>6, <1>7, <1>8, <1>9, <1>10, <1>11 DEF Next

\* ReviewInv is preserved.
LEMMA NextReviewInv == IInv /\ TypeOK' /\ [Next]_vars => ReviewInv'
<1> SUFFICES ASSUME IInv, TypeOK', [Next]_vars PROVE ReviewInv'
  OBVIOUS
<1> USE NoneAssumption
    DEF IInv, ReviewInv, TypeOK, vars, worktree, rpc, session, call, ledger, file, aux
<1>1. ASSUME NEW r \in Repos, Begin(r) PROVE ReviewInv'
  <2>1. CASE StartReview(r)
    BY <2>1
    DEF StartReview, Suspend, Ready, LedgerInv, VerdictInv, Entry
  <2>2. CASE ~StartReview(r)
    BY <1>1, <2>2
    DEF Begin, RefusePublish, StartWorker, StartTests, StartPlan, AskHuman,
        RequestPublish, Suspend, Return, Persist
  <2> QED
    BY <2>1, <2>2
<1>2. ASSUME NEW r \in Repos, Finish(r) PROVE ReviewInv'
  BY <1>2
  DEF Finish, RecordOutcome, WorkerStepFailed, WorkerAnswerLost, RecordTestRun,
      RecordVerdict, RecordPlan, PublishAnswered, Return, Persist
<1>3. ASSUME NEW r \in Repos, WorkerDaemon(r) PROVE ReviewInv'
  BY <1>3
  DEF WorkerDaemon, EditSession, CommitAll, EditSessionFailed, TestCommand, ShellIn,
      Editing, RpcInv
<1>4. CASE AnswerAtOnce \/ RefuseAction \/ RefuseWorkerRun \/ WorkerBusy \/ EndSession
  BY <1>4
  DEF AnswerAtOnce, RefuseAction, RefuseWorkerRun, WorkerBusy, EndSession, Return,
      Persist
<1>5. CASE StepFailed \/ HumanAnswers \/ HumanDeclines
  BY <1>5 DEF StepFailed, HumanAnswers, HumanDeclines, Return, Persist
<1>6. CASE TestGate \/ HumanAgrees \/ Exit \/ Crash \/ Restart
  BY <1>6 DEF TestGate, HumanAgrees, Exit, Crash, Forget, Restart, Load
<1>7. CASE Reseed
  BY <1>7 DEF Reseed, LedgerInv
<1>8. CASE UNCHANGED vars
  BY <1>8
<1> QED
  BY <1>1, <1>2, <1>3, <1>4, <1>5, <1>6, <1>7, <1>8 DEF Next

\* GateInv is preserved: nothing but the action itself writes entry.
LEMMA NextGate == IInv /\ TypeOK' /\ [Next]_vars => GateInv'
<1> SUFFICES ASSUME IInv, TypeOK', [Next]_vars PROVE GateInv'
  OBVIOUS
<1> USE
    DEF IInv, GateInv, Intending, TypeOK, vars, worktree, rpc, session, call,
    ledger, file, aux
<1>1. ASSUME NEW r \in Repos, Begin(r) PROVE GateInv'
  BY <1>1
  DEF Begin, StartWorker, StartTests, StartReview, StartPlan, AskHuman,
      RefusePublish, RequestPublish, Suspend, Return, Persist
<1>2. ASSUME NEW r \in Repos, Finish(r) PROVE GateInv'
  BY <1>2
  DEF Finish, RecordOutcome, WorkerStepFailed, WorkerAnswerLost, RecordTestRun,
      RecordVerdict, RecordPlan, PublishAnswered, Return, Persist
<1>3. ASSUME NEW r \in Repos, WorkerDaemon(r) PROVE GateInv'
  BY <1>3 DEF WorkerDaemon, EditSession, CommitAll, EditSessionFailed, TestCommand
<1>4. CASE AnswerAtOnce \/ RefuseAction \/ RefuseWorkerRun \/ WorkerBusy \/ EndSession
  BY <1>4
  DEF AnswerAtOnce, RefuseAction, RefuseWorkerRun, WorkerBusy, EndSession, Return,
      Persist
<1>5. CASE StepFailed \/ HumanAnswers \/ HumanDeclines
  BY <1>5 DEF StepFailed, HumanAnswers, HumanDeclines, Return, Persist
<1>6. CASE TestGate \/ HumanAgrees \/ Exit \/ Crash
  BY <1>6 DEF TestGate, HumanAgrees, Exit, Crash
<1>7. CASE Restart \/ Reseed
  BY <1>7 DEF Restart, Load, Reseed, LedgerInv
<1>8. CASE UNCHANGED vars
  BY <1>8
<1> QED
  BY <1>1, <1>2, <1>3, <1>4, <1>5, <1>6, <1>7, <1>8 DEF Next

-----------------------------------------------------------------------------
(* The inductive invariant.                                                *)

\* A fresh ledger has no verdicts.
LEMMA ReseedClearsVerdicts ==
  ASSUME IInv, TypeOK', Reseed
  PROVE  HeadInv' /\ VerdictInv'
<1>1. PICK heads \in [Repos -> 0 .. MaxCommits] :
        /\ head' = heads
        /\ seeded' = heads
        /\ entry' = Seed(heads)
        /\ disk' = [entry |-> Seed(heads), used |-> NothingUsed]
  BY DEF Reseed
<1>2. ASSUME NEW r \in Repos
      PROVE  entry'[r] = FreshEntry(heads[r]) /\ disk'.entry[r] = FreshEntry(heads[r])
  BY <1>1 DEF Seed
<1>3. ASSUME NEW n \in Nat
      PROVE  /\ FreshEntry(n).base = n
             /\ TrueToItsStamps(FreshEntry(n), n)
             /\ ~GreenOfItsHead(FreshEntry(n))
  BY DEF FreshEntry, TrueToItsStamps, GreenOfItsHead
<1>4. \A r \in Repos : heads[r] \in Nat
  BY <1>1 DEF TypeOK
<1> QED
  BY <1>1, <1>2, <1>3, <1>4 DEF HeadInv, VerdictInv

\* The inductive invariant holds initially.
LEMMA InitIInv == Init => IInv
<1> SUFFICES ASSUME Init PROVE IInv
  OBVIOUS
<1>1. TypeOK
  BY InitTypeOK
<1>2. /\ disk.entry = entry /\ disk.used = used
      /\ used.runs = 0 /\ used.actions = 0
      /\ up /\ pc = "idle" /\ started = 0 /\ crashes = 0 /\ failures = 0
  BY DEF Init, NothingUsed
<1>3. ASSUME NEW r \in Repos
      PROVE  /\ entry[r].base = seeded[r]
             /\ TrueToItsStamps(entry[r], seeded[r])
             /\ ~GreenOfItsHead(entry[r])
  BY <1>2 DEF Init, Seed, FreshEntry, TrueToItsStamps, GreenOfItsHead
<1>4. LedgerInv
  BY <1>2 DEF Init, LedgerInv
<1>5. RpcInv /\ ReviewInv /\ GateInv
  BY NoneAssumption DEF Init, RpcInv, NoReply, ReviewInv, GateInv, Intending
<1> QED
  BY <1>1, <1>2, <1>3, <1>4, <1>5 DEF IInv, HeadInv, VerdictInv

\* The inductive invariant is preserved.
LEMMA NextIInv == IInv /\ [Next]_vars => IInv'
<1> SUFFICES ASSUME IInv, [Next]_vars PROVE IInv'
  OBVIOUS
<1>1. TypeOK'
  BY NextTypeOK DEF IInv
<1>2. LedgerInv' /\ RpcInv' /\ ReviewInv' /\ GateInv'
  BY <1>1, NextLedgerInv, NextRpcInv, NextReviewInv, NextGate
<1>3. HeadInv' /\ VerdictInv'
  <2>1. CASE Reseed
    BY <1>1, <2>1, ReseedClearsVerdicts
  <2>2. CASE Next /\ ~Reseed
    BY <1>1, <2>2, NextHeadInv, NextVerdictInv DEF HeadInv, VerdictInv
  <2>3. CASE UNCHANGED vars
    BY <2>3
    DEF IInv, HeadInv, VerdictInv, Running, vars, worktree, rpc, session, call, ledger,
        file, aux
  <2> QED
    BY <2>1, <2>2, <2>3
<1> QED
  BY <1>1, <1>2, <1>3 DEF IInv

\* In every reachable state the ledger's file, its memory, the worktrees and
\* the calls in flight agree as IInv says.
THEOREM Invariance == Spec => []IInv
<1> QED
  BY InitIInv, NextIInv, PTL DEF Spec

-----------------------------------------------------------------------------
(* The safety properties.                                                  *)

\* Where canPublish would let a repository through, its verdicts are about HEAD.
LEMMA OpenGates == IInv => OpenGateIsAttested
<1> SUFFICES ASSUME IInv, NEW r \in Repos, ~lost[r], ~Running(r), CanPublish(entry[r])
             PROVE  Attested(r, entry[r])
  BY DEF OpenGateIsAttested
<1>1. head[r] = entry[r].head
  BY DEF IInv, HeadInv, CanPublish, GreenOfItsHead
<1>2. TrueToItsStamps(entry[r], seeded[r])
  BY DEF IInv, VerdictInv
<1> QED
  BY <1>1, <1>2 DEF CanPublish, TrueToItsStamps, Attested

\* The gate opens only to verdicts about the commit at HEAD, although test commands
\* and edit sessions move HEAD before and after they were recorded; unless an
\* outcome was lost or a record forgotten, and not made good.
THEOREM OpenGatesAreAttested == Spec => []OpenGateIsAttested
<1> QED
  BY OpenGates, Invariance, PTL

\* An intent is attested, at the human and at the broker: the tests were green with
\* the commit at HEAD and the reviewer approved the whole diff up to it, through
\* crashes, restarts, late workers and commits of the test command, with the same
\* exception.
THEOREM IntentsAreAttested == Spec => []IntentAttested
<1>1. IInv => IntentAttested
  <2> SUFFICES ASSUME IInv, pc \in Intending, ~lost[cur]
               PROVE  Attested(cur, entry[cur])
    BY DEF IntentAttested
  <2>1. cur \in Repos /\ up /\ ~Running(cur)
    BY DEF IInv, TypeOK, LedgerInv, Intending, Running
  <2>2. CanPublish(entry[cur])
    BY DEF IInv, GateInv
  <2> QED
    BY <2>1, <2>2, OpenGates DEF OpenGateIsAttested
<1> QED
  BY <1>1, Invariance, PTL

\* Crashes and failed writes buy at most one edit session each.
THEOREM WorkerRunsAreBounded == Spec => []WorkerRunsBounded
<1>1. IInv => WorkerRunsBounded
  <2> SUFFICES ASSUME IInv PROVE started <= MaxWorkerRuns + crashes + failures
    BY DEF WorkerRunsBounded
  <2>1. /\ used.runs \in Nat /\ disk.used.runs \in Nat
        /\ used.runs <= MaxWorkerRuns /\ disk.used.runs <= MaxWorkerRuns
        /\ started \in Nat /\ crashes \in Nat /\ failures \in Nat
    BY BoundsAssumption DEF IInv, TypeOK, Budget
  <2> QED
    BY <2>1, BoundsAssumption DEF IInv, LedgerInv
<1> QED
  BY <1>1, Invariance, PTL

\* The file lacks at most the charges of the action in flight, unless its last
\* write failed.
THEOREM OnlyTheActionInFlightIsLost == Spec => []OnlyTheActionInFlightIsAtRisk
<1>1. IInv => OnlyTheActionInFlightIsAtRisk
  <2> SUFFICES ASSUME IInv, up, ~unsaved
               PROVE  /\ disk.entry = entry
                      /\ pc = "idle" => disk.used = used
                      /\ used.actions <= disk.used.actions + 1
                      /\ used.runs <= disk.used.runs + 1
    BY DEF OnlyTheActionInFlightIsAtRisk
  <2>1. /\ used.actions \in Nat /\ disk.used.actions \in Nat
        /\ used.runs \in Nat /\ disk.used.runs \in Nat
    BY BudgetArithmetic
  <2> QED
    BY <2>1 DEF IInv, LedgerInv
<1> QED
  BY <1>1, Invariance, PTL
=============================================================================

---------------------------- MODULE DriverProofs ----------------------------
(***************************************************************************)
(* The invariant of Driver, for any number of repositories, instructions,  *)
(* fix attempts and runs, and what follows from it.                        *)
(***************************************************************************)
EXTENDS Driver, TLAPS

(***************************************************************************)
(* Facts about the state of a run.                                         *)
(***************************************************************************)

\* The work of a run is a set of distinct positions, each of a repository.
LEMMA WorkFacts ==
  ASSUME TypeOK, WorkInv, pc # "off"
  PROVE  /\ Current \in Repos
         /\ at \in Nat
         /\ at \in todo
         /\ todo \subseteq Nat
         /\ file \in TicketState
         /\ \A i \in todo : order[i] \in Repos
         /\ \A i, j \in todo : order[i] = order[j] => i = j
         /\ ~Published(file, Current)
<1>1. /\ order \in Seq(Repos)
      /\ todo \subseteq 1 .. Len(order)
      /\ at \in todo
  BY DriverAssumption DEF WorkInv
<1>2. \A i, j \in todo : order[i] = order[j] => i = j
  BY <1>1, DriverAssumption DEF WorkInv
<1>3. file \in TicketState
  BY DEF TypeOK, WorkInv
<1>4. \A i \in 1 .. Len(order) : order[i] \in Repos
  BY <1>1
<1>5. at \in Nat /\ todo \subseteq Nat
  BY <1>1
<1>6. ~Published(file, Current)
  BY <1>1, <1>5 DEF WorkInv, Current
<1> QED
  BY <1>1, <1>2, <1>3, <1>4, <1>5, <1>6 DEF Current

\* Recording an outcome of the current repository, which is not on record as
\* published, takes no push off the record.
LEMMA RecordStep ==
  ASSUME TypeOK, WorkInv, RecordIsTrue, pc # "off",
         NEW outcome \in Outcomes, NEW sha \in Nat \cup {None},
         file' = WithOutcome(file, Current, outcome, sha),
         shipped' = shipped
  PROVE  /\ file' \in TicketState
         /\ file'.instruction = file.instruction
         /\ \A r \in Repos : r # Current => /\ file'.outcome[r] = file.outcome[r]
                                            /\ file'.sha[r] = file.sha[r]
         /\ file'.outcome[Current] = outcome
         /\ file'.sha[Current] = sha
         /\ \A p \in shipped : OnRecord(p) => OnRecord(p)'
         /\ (outcome = "published" /\ sha # None =>
               \E p \in shipped : /\ p.repo = Current
                                  /\ p.sha = sha
                                  /\ p.story = file.instruction)
            => RecordIsTrue'
<1> DEFINE c == Current
<1>1. c \in Repos /\ file \in TicketState /\ ~Published(file, c)
  BY WorkFacts
<1>2. file' = [file EXCEPT !.outcome[c] = outcome, !.sha[c] = sha]
  BY DEF WithOutcome
<1> HIDE DEF c
<1>3. /\ file' \in TicketState
      /\ file'.instruction = file.instruction
      /\ \A r \in Repos : r # c => /\ file'.outcome[r] = file.outcome[r]
                                   /\ file'.sha[r] = file.sha[r]
      /\ file'.outcome[c] = outcome
      /\ file'.sha[c] = sha
  <2>1. /\ file.outcome \in [Repos -> Outcomes]
        /\ file.sha \in [Repos -> Nat \cup {None}]
    BY <1>1 DEF TicketState
  <2>2. /\ file'.instruction = file.instruction
        /\ file'.outcome = [file.outcome EXCEPT ![c] = outcome]
        /\ file'.sha = [file.sha EXCEPT ![c] = sha]
    BY <1>1, <1>2 DEF TicketState
  <2>3. /\ file'.outcome \in [Repos -> Outcomes]
        /\ file'.sha \in [Repos -> Nat \cup {None}]
    BY <1>1, <2>1, <2>2
  <2>4. file' = [instruction |-> file.instruction, outcome |-> file'.outcome,
                 sha |-> file'.sha]
    BY <1>1, <1>2 DEF TicketState
  <2>5. file' \in TicketState
    BY <1>1, <2>3, <2>4 DEF TicketState
  <2> QED
    BY <1>1, <2>1, <2>2, <2>5
<1>4. \A p \in shipped : OnRecord(p) => OnRecord(p)'
  BY <1>1, <1>3 DEF OnRecord, Published, TypeOK, Push
<1>5. ASSUME outcome = "published" /\ sha # None =>
               \E p \in shipped : /\ p.repo = c
                                  /\ p.sha = sha
                                  /\ p.story = file.instruction
      PROVE  RecordIsTrue'
  <2> SUFFICES ASSUME NEW r \in Repos, Published(file, r)', file'.sha[r] # None
               PROVE  \E p \in shipped : /\ p.repo = r
                                         /\ p.sha = file'.sha[r]
                                         /\ p.story = file'.instruction
    BY DEF RecordIsTrue
  <2>1. CASE r = c
    BY <1>3, <1>5, <2>1 DEF Published
  <2>2. CASE r # c
    <3>1. Published(file, r) /\ file.sha[r] = file'.sha[r]
      BY <1>3, <2>2 DEF Published
    <3>2. file # None
      BY <1>1, NullAssumption DEF TicketState, Outcomes
    <3> QED
      BY <1>3, <3>1, <3>2 DEF RecordIsTrue
  <2> QED
    BY <2>1, <2>2
<1> QED
  BY <1>3, <1>4, <1>5 DEF c

\* A push that stays on record keeps the others unique.
LEMMA UnrecordedStep ==
  ASSUME OneUnrecordedPerRun, shipped' = shipped,
         \A p \in shipped : OnRecord(p) => OnRecord(p)'
  PROVE  OneUnrecordedPerRun'
BY DEF OneUnrecordedPerRun

\* However a run ends, the invariant holds if the file does, and if nobody is
\* left connected to the worker daemon.
LEMMA LeaveStep ==
  ASSUME IInv, Leave,
         UNCHANGED <<head, newest, shipped, runs>>,
         file' \in TicketState \cup {None},
         wd' \in [op : {"edit", "test"}, repo : Repos, client : BOOLEAN]
                   \cup {None},
         wd' # None => ~wd'.client,
         reply' \in Reply,
         reply'.kind = "none",
         file' = None => shipped = {},
         \A p \in shipped : OnRecord(p) => OnRecord(p)',
         RecordIsTrue'
  PROVE  IInv'
<1>1. TypeOK'
  <2>1. /\ order' \in Selections \cup {<<>>}
        /\ todo' \subseteq Nat
        /\ at' \in Nat
        /\ base' \in [Repos -> Nat]
        /\ ready' \subseteq Repos
        /\ wired' \in BOOLEAN
        /\ approve' \in BOOLEAN
        /\ began' \in Nat
        /\ tested' \in Nat
    BY DEF Leave, ForgetRound
  <2>2. judged' \in [from : Nat, head : Nat]
    BY DEF Leave, ForgetRound, NoDiff
  <2>3. attempt' \in 0 .. MaxFixAttempts
    BY DriverAssumption DEF Leave, ForgetRound
  <2> QED
    BY <2>1, <2>2, <2>3 DEF Leave, IInv, TypeOK
<1>2. pc' = "off" /\ intent' = None
  BY DEF Leave
<1>3. WorkInv' /\ VettedInv' /\ RpcInv'
  BY <1>2 DEF WorkInv, VettedInv, RpcInv
<1>4. IntentInv'
  BY <1>2 DEF IInv, IntentInv
<1>5. ShippedIsVetted' /\ OneUnrecordedPerRun'
  BY UnrecordedStep DEF IInv, ShippedIsVetted
<1> QED
  BY <1>1, <1>3, <1>4, <1>5 DEF IInv

\* Hanging up leaves the worker daemon without a caller.
LEMMA HangUpFacts ==
  ASSUME TypeOK, HangUp
  PROVE  /\ wd' \in [op : {"edit", "test"}, repo : Repos, client : BOOLEAN]
                      \cup {None}
         /\ wd' # None => ~wd'.client
         /\ reply' \in Reply
         /\ reply'.kind = "none"
BY NullAssumption DEF TypeOK, HangUp, Reply, NoReply

\* Where no step of the worker daemon is awaited, nobody is connected to it.
LEMMA RpcQuiet ==
  ASSUME TypeOK, RpcInv, UNCHANGED rpc,
         pc \notin {"implement", "fix", "test"}
  PROVE  /\ wd' \in [op : {"edit", "test"}, repo : Repos, client : BOOLEAN]
                      \cup {None}
         /\ wd' # None => ~wd'.client
         /\ reply' \in Reply
         /\ reply'.kind = "none"
<1>1. wd' = wd /\ reply' = reply
  BY DEF rpc
<1>2. wd # None => ~wd.client
  BY DEF RpcInv, TypeOK
<1>3. reply.kind = "none"
  BY DEF RpcInv, TypeOK, Reply
<1> QED
  BY <1>1, <1>2, <1>3 DEF TypeOK

\* A run that stops with an outcome other than "published".
LEMMA StopStep ==
  ASSUME IInv, pc # "off",
         NEW outcome \in {"failed", "declined", "not_ready"},
         StopWith(outcome),
         UNCHANGED <<head, newest, shipped, runs>>,
         wd' \in [op : {"edit", "test"}, repo : Repos, client : BOOLEAN]
                   \cup {None},
         wd' # None => ~wd'.client,
         reply' \in Reply,
         reply'.kind = "none"
  PROVE  IInv'
<1>1. outcome \in Outcomes /\ None \in Nat \cup {None}
  BY DEF Outcomes
<1>2. file' = WithOutcome(file, Current, outcome, None) /\ Leave
  BY DEF StopWith
<1>3. /\ file' \in TicketState
      /\ \A p \in shipped : OnRecord(p) => OnRecord(p)'
      /\ RecordIsTrue'
  BY <1>1, <1>2, RecordStep DEF IInv
<1>4. file' # None
  BY <1>3, NullAssumption DEF TicketState, Outcomes
<1> QED
  BY <1>2, <1>3, <1>4, LeaveStep

\* The same file and the same pushes: the same record.
LEMMA SameRecord ==
  ASSUME IInv, file' = file, shipped' = shipped
  PROVE  /\ ShippedIsVetted'
         /\ file' = None => shipped = {}
         /\ RecordIsTrue'
         /\ OneUnrecordedPerRun'
         /\ \A p \in shipped : OnRecord(p) => OnRecord(p)'
BY DEF IInv, IntentInv, ShippedIsVetted, RecordIsTrue, OneUnrecordedPerRun, OnRecord,
       Published

\* Outside of a publication nothing of the run is pushed and not on record.
LEMMA NotPublishing ==
  ASSUME IInv, pc \notin {"off", "publish"}, pc' # "publish",
         UNCHANGED <<intent, shipped, runs>>,
         file' = None => shipped = {},
         \A p \in shipped : OnRecord(p) => OnRecord(p)'
  PROVE  IntentInv'
BY DEF IInv, IntentInv

LEMMA InitIInv == Init => IInv
<1> SUFFICES ASSUME Init PROVE IInv
  OBVIOUS
<1>1. TypeOK
  <2>1. /\ order \in Selections \cup {<<>>} /\ todo \subseteq Nat /\ at \in Nat
        /\ base \in [Repos -> Nat] /\ ready \subseteq Repos /\ wired \in BOOLEAN
        /\ approve \in BOOLEAN /\ began \in Nat /\ tested \in Nat
    BY DEF Init
  <2>2. judged \in [from : Nat, head : Nat] /\ reply \in Reply
    BY DEF Init, NoDiff, NoReply, Reply
  <2>3. attempt \in 0 .. MaxFixAttempts /\ runs \in 0 .. MaxRuns
    BY DriverAssumption DEF Init
  <2> QED
    BY <2>1, <2>2, <2>3 DEF Init, TypeOK
<1>2. WorkInv /\ VettedInv /\ RpcInv
  BY DEF Init, WorkInv, VettedInv, RpcInv, NoReply
<1>3. IntentInv /\ ShippedIsVetted /\ RecordIsTrue /\ OneUnrecordedPerRun
  BY DEF Init, IntentInv, ShippedIsVetted, RecordIsTrue, OneUnrecordedPerRun
<1> QED
  BY <1>1, <1>2, <1>3 DEF IInv

\* Declining the plans touches no repository on record as published.
LEMMA DeclinedFacts ==
  ASSUME TypeOK, WorkInv, DeclinePlans
  PROVE  /\ file # None /\ file' # None /\ file' \in TicketState
         /\ file'.instruction = file.instruction
         /\ \A r \in Repos : /\ Published(file', r) <=> Published(file, r)
                             /\ Published(file, r) => file'.sha[r] = file.sha[r]
<1> DEFINE declined == {order[i] : i \in todo}
<1>1. /\ file # None /\ file \in TicketState
      /\ \A r \in declined : ~Published(file, r)
  BY WorkFacts DEF DeclinePlans, WorkInv
<1>2. file' = [file EXCEPT
         !.outcome = [r \in Repos |->
                        IF r \in declined THEN "declined" ELSE @[r]],
         !.sha = [r \in Repos |-> IF r \in declined THEN None ELSE @[r]]]
  BY DEF DeclinePlans
<1> HIDE DEF declined
<1>3. /\ file' = [instruction |-> file.instruction, outcome |-> file'.outcome,
                  sha |-> file'.sha]
      /\ file'.outcome = [r \in Repos |-> IF r \in declined THEN "declined"
                                          ELSE file.outcome[r]]
      /\ file'.sha = [r \in Repos |-> IF r \in declined THEN None
                                      ELSE file.sha[r]]
  BY <1>1, <1>2 DEF TicketState
<1>4. /\ file'.outcome \in [Repos -> Outcomes]
      /\ file'.sha \in [Repos -> Nat \cup {None}]
  BY <1>1, <1>3 DEF TicketState, Outcomes
<1>5. file' \in TicketState
  BY <1>1, <1>3, <1>4 DEF TicketState
<1>6. \A r \in Repos : /\ Published(file', r) <=> Published(file, r)
                       /\ Published(file, r) => file'.sha[r] = file.sha[r]
  BY <1>1, <1>3 DEF Published
<1>7. file' # None
  BY <1>5, NullAssumption DEF TicketState, Outcomes
<1> QED
  BY <1>1, <1>3, <1>5, <1>6, <1>7

LEMMA PreparationSteps ==
  ASSUME IInv, Prepare \/ ApprovePlans \/ DeclinePlans
  PROVE  IInv'
<1> USE DEF IInv
<1>1. CASE SetUp
  <2>1. /\ pc = "setup" /\ pc' = "plan" /\ wd = None
        /\ file' = WithOutcome(file, Current, "pending", None)
        /\ UNCHANGED <<head, newest, wd, reply, order, todo, at, ready, wired, round,
                       intent, shipped, runs>>
    BY <1>1 DEF SetUp, worktree, rpc
  <2>2. "pending" \in Outcomes /\ None \in Nat \cup {None}
    BY DEF Outcomes
  <2>3. /\ file' \in TicketState
        /\ \A r \in Repos : r # Current => file'.outcome[r] = file.outcome[r]
        /\ file'.outcome[Current] = "pending"
        /\ \A p \in shipped : OnRecord(p) => OnRecord(p)'
        /\ RecordIsTrue'
    BY <2>1, <2>2, RecordStep
  <2>4. TypeOK'
    <3>1. base' \in [Repos -> Nat]
      BY <1>1, <2>1, WorkFacts DEF SetUp, TypeOK
    <3> QED
      BY <2>1, <2>3, <3>1 DEF TypeOK, round
  <2>5. WorkInv'
    <3>1. file' # None
      BY <2>3, NullAssumption DEF TicketState, Outcomes
    <3>2. \A i \in todo : ~Published(file', order[i])
      BY <2>1, <2>3, WorkFacts DEF WorkInv, Published
    <3> QED
      BY <2>1, <3>1, <3>2 DEF WorkInv
  <2>6. RpcInv' /\ VettedInv'
    BY <2>1 DEF RpcInv, VettedInv
  <2>7. IntentInv'
    <3>1. file' # None
      BY <2>3, NullAssumption DEF TicketState, Outcomes
    <3> QED
      BY <2>1, <2>3, <3>1, NotPublishing
  <2>8. ShippedIsVetted' /\ OneUnrecordedPerRun'
    BY <2>1, <2>3, UnrecordedStep DEF ShippedIsVetted
  <2> QED
    BY <2>3, <2>4, <2>5, <2>6, <2>7, <2>8
<1>2. CASE Planned
  <2>1. /\ pc = "plan" /\ pc' \in {"setup", "gate"}
        /\ at' \in todo
        /\ ready' \in {ready, ready \cup {Current}}
        /\ UNCHANGED <<head, newest, wd, reply, file, order, todo, base, wired, round,
                       intent, shipped, runs>>
    BY <1>2 DEF Planned, First, Later, worktree, rpc
  <2>2. TypeOK'
    BY <2>1, WorkFacts DEF TypeOK, round
  <2>3. WorkInv'
    BY <2>1 DEF WorkInv, Published
  <2>4. RpcInv' /\ VettedInv'
    BY <2>1 DEF RpcInv, VettedInv
  <2>5. IntentInv' /\ ShippedIsVetted' /\ RecordIsTrue' /\ OneUnrecordedPerRun'
    BY <2>1, SameRecord, NotPublishing
  <2> QED
    BY <2>2, <2>3, <2>4, <2>5
<1>3. CASE PreparationFails
  <2>1. /\ pc \in {"setup", "plan"} /\ Leave
        /\ UNCHANGED <<head, newest, wd, reply, file, shipped, runs>>
    BY <1>3 DEF PreparationFails, worktree, rpc
  <2>2. /\ RecordIsTrue'
        /\ \A p \in shipped : OnRecord(p) => OnRecord(p)'
        /\ file' = None => shipped = {}
    BY <2>1, SameRecord
  <2>3. file' \in TicketState \cup {None}
    BY <2>1 DEF TypeOK
  <2> QED
    BY <2>1, <2>2, <2>3, RpcQuiet, LeaveStep DEF rpc
<1>4. CASE ApprovePlans
  <2>1. /\ pc = "gate" /\ pc' = "next"
        /\ UNCHANGED <<head, newest, wd, reply, file, order, todo, at, base, ready,
                       wired, round, intent, shipped, runs>>
    BY <1>4 DEF ApprovePlans, worktree, rpc, work
  <2>2. TypeOK' /\ WorkInv'
    BY <2>1 DEF TypeOK, WorkInv, Published, round
  <2>3. RpcInv' /\ VettedInv'
    BY <2>1 DEF RpcInv, VettedInv
  <2>4. IntentInv' /\ ShippedIsVetted' /\ RecordIsTrue' /\ OneUnrecordedPerRun'
    BY <2>1, SameRecord, NotPublishing
  <2> QED
    BY <2>2, <2>3, <2>4
<1>5. CASE DeclinePlans
  <2>1. /\ pc = "gate" /\ Leave
        /\ UNCHANGED <<head, newest, wd, reply, shipped, runs>>
    BY <1>5 DEF DeclinePlans, worktree, rpc
  <2>2. /\ file # None /\ file' # None /\ file' \in TicketState
        /\ file'.instruction = file.instruction
        /\ \A r \in Repos : /\ Published(file', r) <=> Published(file, r)
                            /\ Published(file, r) => file'.sha[r] = file.sha[r]
    BY <1>5, DeclinedFacts
  <2>3. \A p \in shipped : OnRecord(p) => OnRecord(p)'
    BY <2>2 DEF OnRecord, Published, TypeOK, Push
  <2>4. RecordIsTrue'
    BY <2>1, <2>2 DEF RecordIsTrue, Published
  <2> QED
    BY <2>1, <2>2, <2>3, <2>4, RpcQuiet, LeaveStep DEF rpc
<1> QED
  BY <1>1, <1>2, <1>3, <1>4, <1>5 DEF Prepare

LEMMA PipelineSteps == ASSUME IInv, Pipeline \/ DeclinePublish PROVE IInv'
<1> USE DEF IInv
<1>1. CASE NotReady
  <2>1. /\ pc = "next" /\ StopWith("not_ready")
        /\ UNCHANGED <<head, newest, wd, reply, shipped, runs>>
    BY <1>1 DEF NotReady, worktree, rpc
  <2> QED
    BY <2>1, RpcQuiet, StopStep DEF rpc
<1>2. CASE DeclinePublish
  <2>1. /\ pc = "ask" /\ StopWith("declined")
        /\ UNCHANGED <<head, newest, wd, reply, shipped, runs>>
    BY <1>2 DEF DeclinePublish, worktree, rpc
  <2> QED
    BY <2>1, RpcQuiet, StopStep DEF rpc
<1>3. CASE GiveUp
  <2>1. /\ pc = "test" /\ StopWith("failed")
        /\ reply.kind \in {"pass", "fail"} /\ reply' = NoReply
        /\ UNCHANGED <<head, newest, wd, shipped, runs>>
    BY <1>3 DEF GiveUp, Tested, worktree
  <2>2. wd = None /\ reply' \in Reply /\ reply'.kind = "none"
    BY <2>1 DEF RpcInv, NoReply, Reply
  <2> QED
    BY <2>1, <2>2, StopStep
<1>4. CASE StepFails
  <2>1. /\ pc # "off" /\ StopWith("failed") /\ HangUp
        /\ UNCHANGED <<head, newest, shipped, runs>>
    BY <1>4 DEF StepFails, worktree
  <2> QED
    BY <2>1, HangUpFacts, StopStep
<1>5. CASE Implement
  <2>1. /\ pc = "next" /\ pc' = "implement" /\ attempt' = 0
        /\ wd' = [op |-> "edit", repo |-> Current, client |-> TRUE]
        /\ UNCHANGED <<head, newest, reply, file, order, todo, at, base, ready, wired,
                       judged, approve, began, tested, intent, shipped, runs>>
    BY <1>5 DEF Implement, Call, worktree, work
  <2>2. TypeOK'
    <3>1. attempt' \in 0 .. MaxFixAttempts
      BY <2>1, DriverAssumption
    <3>2. wd' \in [op : {"edit", "test"}, repo : Repos, client : BOOLEAN]
      BY <2>1, WorkFacts
    <3> QED
      BY <2>1, <3>1, <3>2 DEF TypeOK
  <2>3. WorkInv'
    BY <2>1 DEF WorkInv, Published
  <2>4. RpcInv' /\ VettedInv'
    <3>1. reply.kind = "none"
      BY <2>1 DEF RpcInv, TypeOK, Reply
    <3> QED
      BY <2>1, <3>1 DEF RpcInv, VettedInv, Current
  <2>5. IntentInv' /\ ShippedIsVetted' /\ RecordIsTrue' /\ OneUnrecordedPerRun'
    BY <2>1, SameRecord, NotPublishing
  <2> QED
    BY <2>2, <2>3, <2>4, <2>5
<1>6. CASE Edited
  <2>1. /\ pc \in {"implement", "fix"} /\ pc' = "review"
        /\ reply.kind = "outcome" /\ reply' = NoReply
        /\ judged' = [from |-> base[Current], head |-> head[Current]]
        /\ began' = 0
        /\ UNCHANGED <<head, newest, wd, file, order, todo, at, base, ready, wired,
                       attempt, approve, tested, intent, shipped, runs>>
    BY <1>6 DEF Edited, worktree, work
  <2>2. TypeOK'
    <3>1. judged' \in [from : Nat, head : Nat]
      BY <2>1, WorkFacts DEF TypeOK
    <3>2. reply' \in Reply
      BY <2>1 DEF NoReply, Reply
    <3> QED
      BY <2>1, <3>1, <3>2 DEF TypeOK
  <2>3. WorkInv'
    BY <2>1 DEF WorkInv, Published
  <2>4. RpcInv' /\ VettedInv'
    <3>1. wd = None /\ reply'.kind = "none"
      BY <2>1 DEF RpcInv, NoReply
    <3> QED
      BY <2>1, <3>1 DEF RpcInv, VettedInv, Current
  <2>5. IntentInv' /\ ShippedIsVetted' /\ RecordIsTrue' /\ OneUnrecordedPerRun'
    BY <2>1, SameRecord, NotPublishing
  <2> QED
    BY <2>2, <2>3, <2>4, <2>5
<1>7. CASE Reviewed
  <2>1. /\ pc = "review" /\ pc' = "test" /\ approve' \in BOOLEAN
        /\ wd' = [op |-> "test", repo |-> Current, client |-> TRUE]
        /\ began' = head[Current]
        /\ UNCHANGED <<head, newest, reply, file, order, todo, at, base, ready, wired,
                       attempt, judged, tested, intent, shipped, runs>>
    BY <1>7 DEF Reviewed, CallTests, Call, worktree, work
  <2>2. TypeOK'
    <3>1. wd' \in [op : {"edit", "test"}, repo : Repos, client : BOOLEAN]
      BY <2>1, WorkFacts
    <3>2. began' \in Nat
      BY <2>1, WorkFacts DEF TypeOK
    <3> QED
      BY <2>1, <3>1, <3>2 DEF TypeOK
  <2>3. WorkInv'
    BY <2>1 DEF WorkInv, Published
  <2>4. RpcInv' /\ VettedInv'
    <3>1. reply.kind = "none"
      BY <2>1 DEF RpcInv, TypeOK, Reply
    <3> QED
      BY <2>1, <3>1 DEF RpcInv, VettedInv, Current
  <2>5. IntentInv' /\ ShippedIsVetted' /\ RecordIsTrue' /\ OneUnrecordedPerRun'
    BY <2>1, SameRecord, NotPublishing
  <2> QED
    BY <2>2, <2>3, <2>4, <2>5
<1>8. CASE Clean
  <2>1. /\ pc = "test" /\ pc' = "ask" /\ approve /\ tested' = reply.sha
        /\ reply.kind \in {"pass", "fail"} /\ reply' = NoReply
        /\ UNCHANGED <<head, newest, wd, file, order, todo, at, base, ready, wired,
                       attempt, judged, approve, began, intent, shipped, runs>>
    BY <1>8 DEF Clean, Tested, worktree, work
  <2>2. TypeOK'
    <3>1. tested' \in Nat /\ reply' \in Reply
      BY <2>1 DEF TypeOK, Reply, NoReply
    <3> QED
      BY <2>1, <3>1 DEF TypeOK
  <2>3. WorkInv'
    BY <2>1 DEF WorkInv, Published
  <2>4. RpcInv' /\ VettedInv'
    <3>1. wd = None /\ reply'.kind = "none" /\ reply.sha = head[Current]
      BY <2>1 DEF RpcInv, NoReply
    <3> QED
      BY <2>1, <3>1 DEF RpcInv, VettedInv, Vetted, Current
  <2>5. IntentInv' /\ ShippedIsVetted' /\ RecordIsTrue' /\ OneUnrecordedPerRun'
    BY <2>1, SameRecord, NotPublishing
  <2> QED
    BY <2>2, <2>3, <2>4, <2>5
<1>9. CASE Fix
  <2>1. /\ pc = "test" /\ pc' = "fix"
        /\ attempt < MaxFixAttempts /\ attempt' = attempt + 1
        /\ wd' = [op |-> "edit", repo |-> Current, client |-> TRUE]
        /\ reply' = NoReply
        /\ UNCHANGED <<head, newest, file, order, todo, at, base, ready, wired,
                       judged, approve, began, tested, intent, shipped, runs>>
    BY <1>9 DEF Fix, Tested, Call, worktree, work
  <2>2. TypeOK'
    <3>1. attempt' \in 0 .. MaxFixAttempts
      BY <2>1, DriverAssumption DEF TypeOK
    <3>2. wd' \in [op : {"edit", "test"}, repo : Repos, client : BOOLEAN]
      BY <2>1, WorkFacts
    <3>3. reply' \in Reply
      BY <2>1 DEF NoReply, Reply
    <3> QED
      BY <2>1, <3>1, <3>2, <3>3 DEF TypeOK
  <2>3. WorkInv'
    BY <2>1 DEF WorkInv, Published
  <2>4. RpcInv' /\ VettedInv'
    BY <2>1 DEF RpcInv, VettedInv, Current, NoReply
  <2>5. IntentInv' /\ ShippedIsVetted' /\ RecordIsTrue' /\ OneUnrecordedPerRun'
    BY <2>1, SameRecord, NotPublishing
  <2> QED
    BY <2>2, <2>3, <2>4, <2>5
<1> QED
  BY <1>1, <1>2, <1>3, <1>4, <1>5, <1>6, <1>7, <1>8, <1>9 DEF Pipeline

LEMMA WorkerSteps == ASSUME IInv, WorkerDaemon PROVE IInv'
<1> USE DEF IInv
\* No commit is judged or published while the worker daemon works in its repository.
<1>1. ASSUME wd # None PROVE pc \in {"off", "setup", "implement", "fix", "test"}
  BY <1>1 DEF RpcInv, TypeOK
<1>2. SUFFICES ASSUME /\ wd # None
                      /\ head' \in [Repos -> Nat] /\ newest' \in [Repos -> Nat]
                      /\ \/ UNCHANGED rpc
                         \/ \E value \in Reply :
                              /\ Answer(value)
                              /\ value.kind \in IF wd.op = "edit"
                                                THEN {"outcome", "error"}
                                                ELSE {"pass", "fail"}
                              /\ value.sha = head'[wd.repo]
                      /\ UNCHANGED <<file, pc, order, todo, at, base, ready, wired,
                                     attempt, judged, approve, began, tested, intent,
                                     shipped, runs>>
               PROVE  IInv'
  <2>1. ASSUME wd # None, ShellIn(wd.repo)
        PROVE  head' \in [Repos -> Nat] /\ newest' \in [Repos -> Nat]
    <3>1. PICK c \in 0 .. newest[wd.repo] + 1 :
            /\ head' = [head EXCEPT ![wd.repo] = c]
            /\ newest' = [newest EXCEPT ![wd.repo] = IF c > @ THEN c ELSE @]
      BY <2>1 DEF ShellIn
    <3>2. wd.repo \in Repos /\ newest[wd.repo] \in Nat
      BY <2>1 DEF TypeOK
    <3>3. c \in Nat
      BY <3>1, <3>2
    <3>4. head' \in [Repos -> Nat]
      BY <3>1, <3>2, <3>3 DEF TypeOK
    <3>5. newest' = [newest EXCEPT ![wd.repo] = IF c > newest[wd.repo] THEN c
                                                ELSE newest[wd.repo]]
      BY <3>1
    <3>6. newest' \in [Repos -> Nat]
      BY <3>2, <3>3, <3>5 DEF TypeOK
    <3> QED
      BY <3>4, <3>6
  <2>2. CASE EditSession
    BY <2>1, <2>2, <1>2 DEF EditSession, work, round
  <2>3. CASE TestCommand
    BY <2>1, <2>3, <1>2 DEF TestCommand, work, round
  <2>4. CASE EditEnds
    <3>1. wd.repo \in Repos
      BY <2>4 DEF EditEnds, TypeOK
    <3>2. head' \in [Repos -> Nat] /\ newest' \in [Repos -> Nat]
      <4>1. CASE UNCHANGED worktree
        BY <4>1 DEF worktree, TypeOK
      <4>2. CASE /\ newest' = [newest EXCEPT ![wd.repo] = @ + 1]
                 /\ head' = [head EXCEPT ![wd.repo] = newest'[wd.repo]]
        <5>1. newest' \in [Repos -> Nat]
          BY <3>1, <4>2 DEF TypeOK
        <5>2. newest'[wd.repo] \in Nat
          BY <3>1, <5>1
        <5> QED
          BY <3>1, <4>2, <5>1, <5>2 DEF TypeOK
      <4> QED
        BY <2>4, <4>1, <4>2 DEF EditEnds
    <3>3. PICK kind \in {"outcome", "error"} :
            Answer([kind |-> kind, sha |-> head'[wd.repo]])
      BY <2>4 DEF EditEnds
    <3>4. [kind |-> kind, sha |-> head'[wd.repo]] \in Reply
      BY <3>1, <3>2 DEF Reply
    <3> QED
      BY <2>4, <3>2, <3>3, <3>4, <1>2 DEF EditEnds, work, round
  <2>5. CASE TestsEnd
    <3>1. wd.repo \in Repos /\ head' = head /\ newest' = newest
      BY <2>5 DEF TestsEnd, TypeOK, worktree
    <3>2. PICK kind \in {"pass", "fail"} :
            Answer([kind |-> kind, sha |-> head[wd.repo]])
      BY <2>5 DEF TestsEnd
    <3>3. [kind |-> kind, sha |-> head[wd.repo]] \in Reply
      BY <3>1 DEF Reply, TypeOK
    <3> QED
      BY <2>5, <3>1, <3>2, <3>3, <1>2 DEF TestsEnd, work, round, TypeOK
  <2> QED
    BY <2>2, <2>3, <2>4, <2>5 DEF WorkerDaemon
<1>3. TypeOK'
  BY <1>2 DEF TypeOK, rpc, Answer
<1>4. WorkInv'
  BY <1>2 DEF WorkInv, Published
<1>5. RpcInv'
  <2>1. CASE UNCHANGED rpc
    BY <1>1, <1>2, <2>1 DEF RpcInv, rpc, Current, TypeOK
  <2>2. CASE \E value \in Reply :
               /\ Answer(value)
               /\ value.kind \in IF wd.op = "edit" THEN {"outcome", "error"}
                                 ELSE {"pass", "fail"}
               /\ value.sha = head'[wd.repo]
    <3>1. wd' = None /\ (wd.client \/ reply' = reply)
      BY <2>2, <1>2 DEF Answer, TypeOK
    <3>2. CASE wd.client
      BY <1>2, <2>2, <3>1, <3>2 DEF RpcInv, Answer, Current, TypeOK
    <3>3. CASE ~wd.client
      <4>1. reply'.kind = "none"
        BY <1>2, <3>1, <3>3 DEF RpcInv, TypeOK, Reply
      <4> QED
        BY <3>1, <4>1 DEF RpcInv
    <3> QED
      BY <3>2, <3>3
  <2> QED
    BY <1>2, <2>1, <2>2
<1>6. VettedInv'
  BY <1>1, <1>2 DEF VettedInv, Vetted, Current, TypeOK
<1>7. ShippedIsVetted' /\ RecordIsTrue' /\ OneUnrecordedPerRun'
  BY <1>2, SameRecord
<1>8. IntentInv'
  BY <1>1, <1>2 DEF IntentInv, OnRecord, Published, ThisPush, Vetted, Current, TypeOK
<1> QED
  BY <1>3, <1>4, <1>5, <1>6, <1>7, <1>8

LEMMA PublicationSteps ==
  ASSUME IInv, PublishStub \/ SendIntent \/ BrokerPushes \/ Publish
  PROVE  IInv'
<1> USE DEF IInv
\* The loop goes on after a record: what this run pushed is on record by then.
<1>1. ASSUME pc \in {"ask", "publish"},
             NEW sha \in Nat \cup {None},
             file' = WithOutcome(file, Current, "published", sha),
             sha # None => pc = "publish" /\ sha = intent.sha,
             pc = "publish" => sha # None,
             Continue,
             UNCHANGED <<head, newest, wd, reply, shipped, runs>>
      PROVE  IInv'
  <2>1. "published" \in Outcomes
    BY DEF Outcomes
  <2>2. /\ Current \in Repos /\ at \in todo /\ todo \subseteq Nat
        /\ \A i \in todo : order[i] \in Repos
        /\ \A i, j \in todo : order[i] = order[j] => i = j
    BY <1>1, WorkFacts
  <2>3. sha # None => /\ sha = head[Current]
                      /\ ThisPush \in shipped
    BY <1>1 DEF IntentInv, TypeOK
  <2>4. sha # None => \E p \in shipped : /\ p.repo = Current
                                         /\ p.sha = sha
                                         /\ p.story = file.instruction
    BY <2>3 DEF ThisPush
  <2>5. /\ file' \in TicketState
        /\ \A r \in Repos : r # Current => /\ file'.outcome[r] = file.outcome[r]
                                            /\ file'.sha[r] = file.sha[r]
        /\ file'.outcome[Current] = "published"
        /\ file'.sha[Current] = sha
        /\ \A p \in shipped : OnRecord(p) => OnRecord(p)'
        /\ RecordIsTrue'
    BY <1>1, <2>1, <2>4, RecordStep
  <2>6. file' # None
    BY <2>5, NullAssumption DEF TicketState, Outcomes
  <2>7. ASSUME Leave PROVE IInv'
    BY <1>1, <2>5, <2>6, <2>7, RpcQuiet, LeaveStep DEF rpc
  <2>8. ASSUME NEW i \in Later, First(Later, i), at' = i, pc' = "next",
               intent' = None, ForgetRound, UNCHANGED <<order, todo, base, ready, wired>>
        PROVE  IInv'
    <3>1. i \in todo /\ i > at
      BY <2>8 DEF Later
    <3>2. TypeOK'
      <4>1. attempt' \in 0 .. MaxFixAttempts /\ began' \in Nat /\ tested' \in Nat
        BY <2>8, DriverAssumption DEF ForgetRound
      <4>2. judged' \in [from : Nat, head : Nat]
        BY <2>8 DEF ForgetRound, NoDiff
      <4>3. approve' \in BOOLEAN
        BY <2>8 DEF ForgetRound
      <4> QED
        BY <1>1, <2>2, <2>5, <2>8, <3>1, <4>1, <4>2, <4>3 DEF TypeOK
    <3>3. WorkInv'
      <4>1. \A j \in todo : j >= i => ~Published(file', order[j])
        <5> SUFFICES ASSUME NEW j \in todo, j >= i PROVE ~Published(file', order[j])
          OBVIOUS
        <5>1. j > at /\ j # at
          BY <2>2, <3>1
        <5>2. order[j] # Current /\ order[j] \in Repos
          BY <2>2, <5>1 DEF Current
        <5>3. ~Published(file, order[j])
          BY <1>1, <2>2, <5>1 DEF WorkInv
        <5> QED
          BY <2>5, <5>2, <5>3 DEF Published
      <4> QED
        BY <1>1, <2>8, <2>6, <3>1, <4>1 DEF WorkInv
    <3>4. RpcInv' /\ VettedInv'
      BY <1>1, <2>8 DEF RpcInv, VettedInv, TypeOK, Reply
    <3>5. ShippedIsVetted' /\ OneUnrecordedPerRun'
      BY <1>1, <2>5, UnrecordedStep DEF ShippedIsVetted
    <3>6. IntentInv'
      <4> SUFFICES ASSUME NEW p \in shipped, p.run = runs, ~OnRecord(p)'
                   PROVE  FALSE
        BY <1>1, <2>6, <2>8 DEF IntentInv
      <4>1. pc = "publish" /\ p = ThisPush
        BY <1>1, <2>5 DEF IntentInv
      <4>2. p.repo = Current /\ p.sha = sha
        BY <1>1, <2>3, <4>1 DEF ThisPush
      <4> QED
        BY <2>5, <4>2 DEF OnRecord, Published
    <3> QED
      BY <2>5, <3>2, <3>3, <3>4, <3>5, <3>6
  <2> QED
    BY <1>1, <2>7, <2>8 DEF Continue
<1>2. CASE PublishStub
  <2>1. /\ pc = "ask" /\ Continue
        /\ file' = WithOutcome(file, Current, "published", None)
        /\ UNCHANGED <<head, newest, wd, reply, shipped, runs>>
    BY <1>2 DEF PublishStub, worktree, rpc
  <2> QED
    BY <1>1, <2>1
<1>3. CASE PublishAnswered
  <2>1. /\ pc = "publish" /\ Continue /\ intent.sha # None
        /\ file' = WithOutcome(file, Current, "published", intent.sha)
        /\ UNCHANGED <<head, newest, wd, reply, shipped, runs>>
    BY <1>3 DEF PublishAnswered, worktree, rpc
  <2>2. intent.sha \in Nat
    BY <2>1 DEF IntentInv, TypeOK
  <2> QED
    BY <1>1, <2>1, <2>2
<1>4. CASE PublishFails
  <2>1. /\ pc = "publish" /\ StopWith("failed")
        /\ UNCHANGED <<head, newest, wd, reply, shipped, runs>>
    BY <1>4 DEF PublishFails, worktree, rpc
  <2> QED
    BY <2>1, RpcQuiet, StopStep DEF rpc
<1>5. CASE SendIntent
  <2>1. /\ pc = "ask" /\ pc' = "publish"
        /\ intent' = [repo |-> Current, sha |-> None]
        /\ UNCHANGED <<head, newest, wd, reply, file, order, todo, at, base, ready,
                       wired, attempt, judged, approve, began, tested, shipped,
                       runs>>
    BY <1>5 DEF SendIntent, worktree, rpc, work, round
  <2>2. TypeOK'
    BY <2>1, WorkFacts DEF TypeOK
  <2>3. WorkInv'
    BY <2>1 DEF WorkInv, Published
  <2>4. RpcInv' /\ VettedInv'
    BY <2>1 DEF RpcInv, VettedInv, Vetted, Current, TypeOK
  <2>5. ShippedIsVetted' /\ RecordIsTrue' /\ OneUnrecordedPerRun'
        /\ \A p \in shipped : OnRecord(p) => OnRecord(p)'
    BY <2>1, SameRecord
  <2>6. IntentInv'
    <3>1. intent' # None
      BY <2>1, WorkFacts, NullAssumption
    <3>2. intent'.repo = Current' /\ intent'.sha = None
      BY <2>1 DEF Current
    <3> QED
      BY <2>1, <2>5, <3>1, <3>2 DEF IntentInv
  <2> QED
    BY <2>2, <2>3, <2>4, <2>5, <2>6
<1>6. CASE BrokerPushes
  <2>1. /\ intent # None /\ pc = "publish" /\ intent.repo = Current
        /\ intent.sha = None
    BY <1>6 DEF BrokerPushes, IntentInv
  <2>2. /\ intent' = [intent EXCEPT !.sha = head[Current]]
        /\ shipped' = shipped \cup {ThisPush}
        /\ UNCHANGED <<head, newest, wd, reply, file, pc, order, todo, at, base, ready,
                       wired, attempt, judged, approve, began, tested, runs>>
    BY <1>6, <2>1 DEF BrokerPushes, ThisPush, worktree, rpc, work, round
  <2>3. /\ Current \in Repos /\ head[Current] \in Nat /\ file \in TicketState
        /\ ~Published(file, Current)
    BY <2>1, WorkFacts DEF TypeOK
  <2>4. intent' = [repo |-> Current, sha |-> head[Current]]
    BY <2>1, <2>2 DEF TypeOK
  <2>5. ThisPush \in Push
    BY <2>3 DEF ThisPush, Push, Vetted, TypeOK, TicketState
  <2>6. TypeOK'
    <3>1. intent' \in [repo : Repos, sha : Nat \cup {None}]
      BY <2>3, <2>4
    <3>2. shipped' \subseteq Push
      BY <2>2, <2>5 DEF TypeOK
    <3> QED
      BY <2>2, <3>1, <3>2 DEF TypeOK
  <2>7. WorkInv' /\ RpcInv' /\ VettedInv'
    BY <2>2 DEF WorkInv, RpcInv, VettedInv, Vetted, Published, Current
  <2>8. ShippedIsVetted'
    <3>1. Vetted(Current)
      BY <2>1 DEF VettedInv
    <3>2. ThisPush.vetted
      BY <3>1 DEF ThisPush
    <3> QED
      BY <2>2, <3>2 DEF ShippedIsVetted
  <2>9. RecordIsTrue'
    BY <2>2 DEF RecordIsTrue, Published
  <2>10. /\ ThisPush' = ThisPush
         /\ \A p : OnRecord(p)' <=> OnRecord(p)
         /\ ThisPush.run = runs
    BY <2>2 DEF ThisPush, Vetted, Current, OnRecord, Published
  <2>11. intent' # None /\ intent'.sha = head[Current] /\ intent'.sha # None
    BY <2>3, <2>4, NullAssumption
  <2>12. \A p \in shipped : p.run = runs => OnRecord(p)
    BY <2>1 DEF IntentInv
  <2>13. IntentInv'
    <3>1. intent'.repo = Current' /\ intent'.sha = head'[Current']
      BY <2>2, <2>4 DEF Current
    <3>2. ThisPush' \in shipped'
      BY <2>2, <2>10
    <3>3. runs \in Nat
      BY DriverAssumption DEF TypeOK
    <3>4. \A p \in shipped' :
            /\ p.run <= runs
            /\ p.run = runs /\ ~OnRecord(p) => p = ThisPush
      BY <2>2, <2>10, <2>12, <3>3 DEF IntentInv
    <3> QED
      <4>1. file' # None
        BY <2>2, <2>3, NullAssumption DEF TicketState, Outcomes
      <4>2. pc' = "publish" /\ runs' = runs
        BY <2>1, <2>2
      <4>3. \A p \in shipped' :
              /\ p.run <= runs'
              /\ p.run = runs' /\ ~OnRecord(p)' => p = ThisPush'
        BY <2>10, <3>4, <4>2
      <4> QED
        BY <2>11, <3>1, <3>2, <4>1, <4>2, <4>3 DEF IntentInv
  <2>14. OneUnrecordedPerRun'
    BY <2>2, <2>10, <2>12 DEF OneUnrecordedPerRun
  <2> QED
    BY <2>6, <2>7, <2>8, <2>9, <2>13, <2>14
<1> QED
  BY <1>2, <1>3, <1>4, <1>5, <1>6 DEF Publish

LEMMA CrashStep == ASSUME IInv, Crash PROVE IInv'
<1>1. /\ Leave /\ HangUp
      /\ UNCHANGED <<head, newest, file, shipped, runs>>
  BY DEF Crash, worktree
<1>2. /\ RecordIsTrue'
      /\ \A p \in shipped : OnRecord(p) => OnRecord(p)'
      /\ file' = None => shipped = {}
  BY <1>1, SameRecord
<1>3. file' \in TicketState \cup {None} /\ TypeOK
  BY <1>1 DEF IInv, TypeOK
<1> QED
  BY <1>1, <1>2, <1>3, HangUpFacts, LeaveStep

\* What a run starts from is the record: its instruction is corrected only while
\* no repository is on record as published.
LEMMA ResumedFacts ==
  ASSUME TypeOK, NEW given \in Instructions, file' = Resumed(given)
  PROVE  /\ file' \in TicketState
         /\ \A r \in Repos :
              /\ Published(file', r) <=> file # None /\ Published(file, r)
              /\ file # None => file'.sha[r] = file.sha[r]
         /\ (\E r \in Repos : Published(file', r))
              => file # None /\ file'.instruction = file.instruction
<1>1. CASE file = None
  BY <1>1 DEF Resumed, NewState, TicketState, Outcomes, Published
<1>2. CASE file # None
  <2>1. file \in TicketState
    BY <1>2 DEF TypeOK
  <2>2. Resolve(file, given) \in Instructions
    BY <2>1 DEF Resolve, TicketState
  <2>3. file' = [instruction |-> Resolve(file, given), outcome |-> file.outcome,
                 sha |-> file.sha]
    BY <1>2, <2>1 DEF Resumed, TicketState
  <2>4. file' \in TicketState
    BY <2>1, <2>2, <2>3 DEF TicketState
  <2>5. \A r \in Repos : /\ Published(file', r) <=> Published(file, r)
                         /\ file'.sha[r] = file.sha[r]
    BY <2>3 DEF Published
  <2>6. (\E r \in Repos : Published(file', r))
          => file'.instruction = file.instruction
    BY <2>3, <2>5 DEF Resolve
  <2> QED
    BY <1>2, <2>4, <2>5, <2>6
<1> QED
  BY <1>1, <1>2

LEMMA StartStep == ASSUME IInv, Start PROVE IInv'
<1> USE DEF IInv
<1>1. PICK selection \in Selections, given \in Instructions :
        /\ file' = Resumed(given)
        /\ \/ /\ Todo(file', selection) = {}
              /\ UNCHANGED <<pc, work>>
           \/ /\ order' = selection
              /\ todo' = Todo(file', selection)
              /\ \E i \in todo' : First(todo', i) /\ at' = i
              /\ wired' \in BOOLEAN
              /\ pc' = "setup"
              /\ UNCHANGED <<base, ready>>
  BY DEF Start
<1>2. /\ pc = "off" /\ runs < MaxRuns /\ runs' = runs + 1 /\ runs \in Nat
      /\ UNCHANGED <<head, newest, wd, reply, attempt, judged, approve, began,
                     tested, intent, shipped>>
  BY DriverAssumption DEF Start, worktree, rpc, round, TypeOK
<1>3. /\ file' \in TicketState
      /\ \A r \in Repos :
           /\ Published(file', r) <=> file # None /\ Published(file, r)
           /\ file # None => file'.sha[r] = file.sha[r]
      /\ (\E r \in Repos : Published(file', r))
           => file # None /\ file'.instruction = file.instruction
  BY <1>1, ResumedFacts
<1>4. file' # None
  BY <1>3, NullAssumption DEF TicketState, Outcomes
<1>5. RecordIsTrue'
  <2> SUFFICES ASSUME NEW r \in Repos, Published(file', r), file'.sha[r] # None
               PROVE  \E p \in shipped : /\ p.repo = r
                                         /\ p.sha = file'.sha[r]
                                         /\ p.story = file'.instruction
    BY <1>2 DEF RecordIsTrue, Published
  <2> QED
    BY <1>3 DEF RecordIsTrue
<1>6. OneUnrecordedPerRun' /\ ShippedIsVetted'
  <2>1. \A p \in shipped : p.repo \in Repos /\ p.sha \in Nat
    BY DEF TypeOK, Push
  <2>2. CASE file # None
    <3>1. \A p \in shipped : OnRecord(p) => OnRecord(p)'
      BY <1>3, <2>1, <2>2 DEF OnRecord, Published
    <3> QED
      BY <1>2, <3>1, UnrecordedStep DEF ShippedIsVetted
  <2>3. CASE file = None
    BY <1>2, <2>3 DEF IntentInv, ShippedIsVetted, OneUnrecordedPerRun
  <2> QED
    BY <2>2, <2>3
<1>7. IntentInv'
  <2>1. intent = None /\ pc' # "publish"
    BY <1>1, <1>2 DEF IntentInv, work
  <2>2. \A p \in shipped : p.run <= runs /\ p.run \in Nat
    BY DEF IntentInv, TypeOK, Push
  <2> QED
    BY <1>2, <1>4, <2>1, <2>2 DEF IntentInv
<1>8. CASE Todo(file', selection) = {} /\ UNCHANGED <<pc, work>>
  <2>1. UNCHANGED <<pc, order, todo, at, base, ready, wired>>
    BY <1>8 DEF work
  <2>2. TypeOK'
    BY <1>2, <1>3, <2>1, DriverAssumption DEF TypeOK
  <2>3. WorkInv' /\ RpcInv' /\ VettedInv'
    BY <1>2, <2>1 DEF WorkInv, RpcInv, VettedInv
  <2> QED
    BY <1>5, <1>6, <1>7, <2>2, <2>3
<1>9. CASE /\ order' = selection
           /\ todo' = Todo(file', selection)
           /\ at' \in todo'
           /\ wired' \in BOOLEAN
           /\ pc' = "setup"
           /\ UNCHANGED <<base, ready>>
  <2>1. /\ todo' \subseteq 1 .. Len(order')
        /\ \A i \in todo' : ~Published(file', order'[i])
    BY <1>9 DEF Todo
  <2>2. todo' \subseteq Nat /\ at' \in Nat
    BY <1>9, <2>1, DriverAssumption
  <2>3. TypeOK'
    BY <1>2, <1>3, <1>9, <2>2, DriverAssumption DEF TypeOK
  <2>4. WorkInv'
    BY <1>4, <1>9, <2>1 DEF WorkInv, Published
  <2>5. RpcInv' /\ VettedInv'
    BY <1>2, <1>9 DEF RpcInv, VettedInv, TypeOK
  <2> QED
    BY <1>5, <1>6, <1>7, <2>3, <2>4, <2>5
<1> QED
  BY <1>1, <1>8, <1>9

LEMMA Step == ASSUME IInv, [Next]_vars PROVE IInv'
<1>1. CASE UNCHANGED vars
  <2>1. UNCHANGED <<head, newest, wd, reply, file, pc, order, todo, at, base, ready,
                    wired, attempt, judged, approve, began, tested, intent, shipped,
                    runs>>
    BY <1>1 DEF vars, worktree, rpc, work, round
  <2>2. TypeOK' /\ WorkInv' /\ RpcInv' /\ VettedInv'
    BY <2>1 DEF IInv, TypeOK, WorkInv, RpcInv, VettedInv, Vetted, Published, Current
  <2>3. IntentInv'
    BY <2>1 DEF IInv, IntentInv, ThisPush, Vetted, OnRecord, Published, Current
  <2> QED
    BY <2>1, <2>2, <2>3, SameRecord DEF IInv
<1> QED
  BY <1>1, StartStep, PreparationSteps, PipelineSteps, PublicationSteps, WorkerSteps,
     CrashStep DEF Next, Human

-----------------------------------------------------------------------------
(* Theorems.                                                               *)

\* The inductive invariant holds in every reachable state: whatever step the
\* driver, the worker daemon or the broker takes, and wherever a run dies.
THEOREM Invariance == Spec => []IInv
BY InitIInv, Step, PTL DEF Spec

\* Every variable keeps its type, and no run uses more fix attempts than allowed.
THEOREM TypeCorrect == Spec => []TypeOK
BY Invariance, PTL DEF IInv

\* Whatever the broker pushed is what a passing test command left at HEAD, which had
\* begun with a commit that the reviewer approved, in the run that pushed it (the
\* loop of runOrchestrator).
THEOREM PushesAreVetted == Spec => []ShippedIsVetted
BY Invariance, PTL DEF IInv

\* What the file says is published was pushed at the recorded commit, for the
\* recorded instruction (setRepoState, resolveResumedInstruction).
THEOREM RecordsAreTrue == Spec => []RecordIsTrue
BY Invariance, PTL DEF IInv

\* A run leaves at most one push behind that the file does not know of: it stops
\* at the first publication that fails (runDriver).
THEOREM RunsStopAtTheFirst == Spec => []OneUnrecordedPerRun
BY Invariance, PTL DEF IInv

\* How a step may change the file: a run starts, the plans are declined, or the
\* outcome of the current repository is recorded.
LEMMA FileSteps ==
  ASSUME IInv, [Next]_vars
  PROVE  \/ UNCHANGED file
         \/ Start
         \/ DeclinePlans
         \/ /\ pc # "off" /\ shipped' = shipped
            /\ \E outcome \in Outcomes, sha \in Nat \cup {None} :
                 file' = WithOutcome(file, Current, outcome, sha)
<1>1. CASE SetUp \/ NotReady \/ GiveUp \/ StepFails \/ DeclinePublish
           \/ PublishStub \/ PublishFails
  <2>1. /\ pc # "off" /\ shipped' = shipped
        /\ \E outcome \in {"pending", "not_ready", "failed", "declined", "published"} :
             file' = WithOutcome(file, Current, outcome, None)
    BY <1>1 DEF SetUp, NotReady, GiveUp, StepFails, DeclinePublish, PublishStub,
       PublishFails, StopWith, Tested
  <2> QED
    BY <2>1 DEF Outcomes
<1>2. CASE PublishAnswered
  <2>1. pc # "off" /\ shipped' = shipped /\ intent.sha \in Nat
    BY <1>2 DEF PublishAnswered, IInv, IntentInv, TypeOK
  <2> QED
    BY <2>1, <1>2 DEF PublishAnswered, Outcomes
<1>3. CASE \/ Planned \/ PreparationFails \/ ApprovePlans \/ Implement \/ Edited
           \/ Reviewed \/ Clean \/ Fix \/ SendIntent \/ BrokerPushes
           \/ WorkerDaemon \/ Crash \/ UNCHANGED vars
  BY <1>3 DEF Planned, PreparationFails, ApprovePlans, Implement, Edited, Reviewed,
     Clean, Fix, SendIntent, BrokerPushes, WorkerDaemon, EditSession, EditEnds,
     TestCommand, TestsEnd, Crash, vars
<1> QED
  BY <1>1, <1>2, <1>3 DEF Next, Prepare, Human, Pipeline, Publish

\* A push on record stays on record, and the broker pushes nothing for a repository
\* on record as published, in whatever run.
THEOREM PublishedAreSkipped == Spec => NothingShipsTwice
<1> DEFINE RecordKept == \A p \in shipped : OnRecord(p) => OnRecord(p)'
           OnlyUnpublished == \A p \in shipped' \ shipped : ~Published(file, p.repo)
<1>1. ASSUME IInv, [Next]_vars PROVE RecordKept
  <2> USE <1>1
  <2>1. \A p \in shipped : p.repo \in Repos /\ p.sha \in Nat
    BY DEF IInv, TypeOK, Push
  <2>2. CASE UNCHANGED file
    BY <2>2 DEF OnRecord, Published
  <2>3. CASE Start
    <3>1. PICK given \in Instructions : file' = Resumed(given)
      BY <2>3 DEF Start
    <3>2. \A r \in Repos : /\ Published(file', r) <=> file # None /\ Published(file, r)
                           /\ file # None => file'.sha[r] = file.sha[r]
      BY <3>1, ResumedFacts DEF IInv
    <3>3. shipped # {} => file # None
      BY DEF IInv, IntentInv
    <3> QED
      BY <2>1, <3>2, <3>3 DEF OnRecord, Published
  <2>4. CASE DeclinePlans
    BY <2>1, <2>4, DeclinedFacts DEF IInv, OnRecord, Published
  <2>5. CASE pc # "off" /\ shipped' = shipped
             /\ \E outcome \in Outcomes, sha \in Nat \cup {None} :
                  file' = WithOutcome(file, Current, outcome, sha)
    BY <2>5, RecordStep DEF IInv
  <2> QED
    BY <2>2, <2>3, <2>4, <2>5, FileSteps
<1>2. ASSUME IInv, [Next]_vars PROVE OnlyUnpublished
  <2>1. CASE BrokerPushes
    <3>1. pc = "publish" /\ intent.repo = Current
      BY <1>2, <2>1 DEF BrokerPushes, IInv, IntentInv
    <3>2. ~Published(file, Current)
      BY <1>2, <3>1, WorkFacts DEF IInv
    <3>3. \A p \in shipped' \ shipped : p.repo = Current
      BY <2>1, <3>1 DEF BrokerPushes
    <3> QED
      BY <3>2, <3>3
  <2>2. CASE ~BrokerPushes
    <3>1. shipped' = shipped
      BY <1>2, <2>2 DEF Next, Start, Prepare, SetUp, Planned, PreparationFails, Human,
         ApprovePlans, DeclinePlans, DeclinePublish, PublishStub, SendIntent, Pipeline,
         NotReady, Implement, Edited, Reviewed, Clean, Fix, GiveUp, StepFails, Publish,
         PublishAnswered, PublishFails, WorkerDaemon, EditSession, EditEnds,
         TestCommand, TestsEnd, Crash, vars
    <3> QED
      BY <3>1
  <2> QED
    BY <2>1, <2>2
<1> QED
  BY <1>1, <1>2, Invariance, PTL DEF Spec, NothingShipsTwice

\* A record of one outcome of the current repository is a step of the record that
\* TicketRecord promises, or none of its business.
LEMMA RecordTold ==
  ASSUME IInv, pc # "off", NEW outcome \in Outcomes, NEW sha \in Nat \cup {None},
         file' = WithOutcome(file, Current, outcome, sha), shipped' = shipped
  PROVE  [Record!Tell \/ Record!Complete]_(Record!ticket)
<1>1. /\ Current \in Repos /\ ~Published(file, Current)
      /\ file # None /\ file \in TicketState
  BY WorkFacts, NullAssumption DEF IInv, WorkInv
<1>2. /\ file' \in TicketState
      /\ file'.instruction = file.instruction
      /\ \A r \in Repos : r # Current => file'.outcome[r] = file.outcome[r]
      /\ file'.outcome[Current] = outcome
  BY RecordStep DEF IInv
<1>3. file' # None /\ file.instruction # None
  BY <1>1, <1>2, NullAssumption DEF TicketState, Outcomes
<1> DEFINE done == {r \in Repos : Published(file, r)}
<1>4. CASE outcome = "published"
  <2>1. {r \in Repos : Published(file, r)}' = done \cup {Current}
    BY <1>1, <1>2, <1>4 DEF Published
  <2>2. Current \in Repos \ done
    BY <1>1
  <2> QED
    BY <1>1, <1>2, <1>3, <2>1, <2>2 DEF Record!Complete
<1>5. CASE outcome # "published"
  <2>1. {r \in Repos : Published(file, r)}' = done
    BY <1>1, <1>2, <1>5 DEF Published
  <2> QED
    BY <1>1, <1>2, <1>3, <2>1 DEF Record!ticket
<1> QED
  BY <1>4, <1>5

\* The file is the record that TicketRecord promises: of whatever run, repositories
\* are recorded as published one at a time, none is taken back, and all of them are
\* published for the one instruction that was on record when the first of them was.
THEOREM Refinement == Spec => KeepsTheRecord
<1>1. Init => Record!TicketInit
  BY DEF Init, Record!TicketInit
<1>2. ASSUME IInv, [Next]_vars
      PROVE  [Record!Tell \/ Record!Complete]_(Record!ticket)
  <2> USE <1>2
  <2>1. CASE UNCHANGED file
    BY <2>1 DEF Record!ticket, Published
  <2>2. CASE Start
    <3>1. PICK given \in Instructions : file' = Resumed(given)
      BY <2>2 DEF Start
    <3>2. /\ file' \in TicketState
          /\ \A r \in Repos : Published(file', r) <=> file # None /\ Published(file, r)
          /\ (\E r \in Repos : Published(file', r))
               => file # None /\ file'.instruction = file.instruction
      BY <3>1, ResumedFacts DEF IInv
    <3>3. file' # None /\ file'.instruction \in Instructions
      BY <3>2, NullAssumption DEF TicketState, Outcomes
    <3>4. {r \in Repos : Published(file, r)}'
            = IF file = None THEN {} ELSE {r \in Repos : Published(file, r)}
      BY <3>2 DEF Published
    <3>5. CASE \E r \in Repos : Published(file', r)
      BY <3>2, <3>3, <3>4, <3>5 DEF Record!ticket
    <3>6. CASE ~\E r \in Repos : Published(file', r)
      BY <3>2, <3>3, <3>4, <3>6 DEF Record!Tell, Published
    <3> QED
      BY <3>5, <3>6
  <2>3. CASE DeclinePlans
    BY <2>3, DeclinedFacts DEF IInv, Record!ticket, Published
  <2>4. CASE pc # "off" /\ shipped' = shipped
             /\ \E outcome \in Outcomes, sha \in Nat \cup {None} :
                  file' = WithOutcome(file, Current, outcome, sha)
    BY <2>4, RecordTold
  <2> QED
    BY <2>1, <2>2, <2>3, <2>4, FileSteps
<1> QED
  BY <1>1, <1>2, Invariance, PTL DEF Spec, KeepsTheRecord, Record!TicketSpec
=============================================================================

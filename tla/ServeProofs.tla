---------------------------- MODULE ServeProofs ----------------------------
(***************************************************************************)
(* What TLAPS proves of Serve, for any number of requests, pages, clicks   *)
(* and faults, and any limits of the cache and the history.                *)
(***************************************************************************)
EXTENDS Serve, SequenceTheorems, TLAPS

USE ServeAssumption DEF AttemptsInit

-----------------------------------------------------------------------------
(* The broker's side.                                                      *)

\* A request is decided, by whatever channel.
Decision ==
  /\ pending # None
  /\ \E decision \in Decisions : Decide(pending.id, decision)
  /\ UNCHANGED opened

\* What a step can do to the hub.
HubMove ==
  \/ UNCHANGED <<hubVars, opened>>
  \/ OpenRequest
  \/ Decision
  \/ Mistyped /\ UNCHANGED opened
  \/ Published
  \/ pending' = None /\ last' = None /\ UNCHANGED opened

\* The operations of a post.
PostOps == {"approved", "declined"}

\* A post that reaches the broker decides the request at the gate, or nothing.
LEMMA SubmitDecides ==
  ASSUME NEW op \in Decisions, NEW id, Submit(op, id), UNCHANGED opened
  PROVE  UNCHANGED <<hubVars, opened>> \/ (Decision /\ pending.id = id /\ Decide(id, op))
  BY DEF Submit, Decision, Decide, hubVars

\* Every step moves the hub in one of these ways.
LEMMA HubMoves == ASSUME IInv, [Next]_vars PROVE HubMove
<1>1. CASE Next
  <2>1. CASE Broker
    BY <2>1 DEF Broker, OpenRequest, DecidedElsewhere, MistypedElsewhere, Published,
       HubMove, Decision, Decide, Decisions
  <2>2. CASE \E t \in Tabs, ch \in Clicks : Deliver(t, ch)
    <3>1. PICK t \in Tabs, ch \in Clicks : Deliver(t, ch)
      BY <2>2
    <3>2. call[t][ch].op \in Decisions
      BY <3>1 DEF IInv, CallInv, Deliver, At, Calls, Posts, Answers, Channels
    <3>3. QED
      BY <3>1, <3>2, SubmitDecides DEF Deliver, HubMove
  <2>3. CASE \E p \in stray : DeliverLate(p)
    BY <2>3, SubmitDecides DEF DeliverLate, HubMove, IInv, ClickInv, serve
  <2>4. CASE BrokerRestarts
    BY <2>4 DEF BrokerRestarts, HubMove
  <2>5. CASE ServeUp \/ ServeRestarted \/ ServeDown
    BY <2>5 DEF ServeUp, ServeRestarted, ServeDown, Restart, HubMove
  <2>6. ASSUME NEW t \in Tabs, NEW ch \in Channels,
               \/ Answer(t, ch) \/ AskAgain(t, ch) \/ Relay(t, ch) \/ Unreachable(t, ch)
               \/ OpenPage(t) \/ Poll(t) \/ Show(t) \/ GiveUp(t, ch)
               \/ PollAfterClick(t, ch) \/ EndClick(t, ch)
               \/ \E op \in PostOps : Click(t, ch, op)
        PROVE  HubMove
    BY <2>6 DEF Answer, AskAgain, Relay, Unreachable, OpenPage, Poll, Show, GiveUp,
       PollAfterClick, EndClick, Click, HubMove
  <2>7. QED
    BY <1>1, <2>1, <2>2, <2>3, <2>4, <2>5, <2>6
    DEF Next, Fault, Polling, Clicking, Serving, Channels, PostOps
<1>2. CASE UNCHANGED vars
  BY <1>2 DEF vars, HubMove
<1>3. QED
  BY <1>1, <1>2

\* The hub stays consistent, and requests are never taken back.
LEMMA HubStep ==
  ASSUME IInv, [Next]_vars
  PROVE  /\ HubInv'
         /\ opened' \in Nat /\ opened <= opened'
         /\ (pending = None /\ opened' = opened + 1) \/ opened' = opened
<1>1. HubMove
  BY HubMoves
<1>2. HubInv
  BY DEF IInv
<1>3. CASE UNCHANGED <<hubVars, opened>>
  BY <1>2, <1>3 DEF HubInv, Views, Outcomes, hubVars
<1>4. CASE OpenRequest
  BY <1>2, <1>4 DEF OpenRequest, Register, HubInv, Views, Outcomes
<1>5. CASE Decision
  BY <1>2, <1>5 DEF Decision, Decide, HubInv, Views, Outcomes
<1>6. CASE Mistyped /\ UNCHANGED opened
  BY <1>2, <1>6 DEF Mistyped, HubInv, Views, Outcomes
<1>7. CASE Published
  BY <1>2, <1>7 DEF Published, ReportOutcome, HubInv, Views, Outcomes
<1>8. CASE pending' = None /\ last' = None /\ UNCHANGED opened
  BY <1>2, <1>8 DEF HubInv, Views, Outcomes
<1>9. QED
  BY <1>1, <1>3, <1>4, <1>5, <1>6, <1>7, <1>8 DEF HubMove

\* What is of a request stays of a request.
LEMMA GrowingTypes ==
  ASSUME IInv, [Next]_vars
  PROVE  /\ Views \subseteq Views' /\ Outcomes \subseteq Outcomes'
         /\ PageStates \subseteq PageStates' /\ Calls \subseteq Calls'
         /\ Answers \subseteq Answers' /\ Posts \subseteq Posts'
<1>1. 1 .. opened \subseteq 1 .. opened' /\ 0 .. opened \subseteq 0 .. opened'
  BY HubStep DEF IInv, HubInv
<1>2. Views \subseteq Views' /\ Outcomes \subseteq Outcomes' /\ Posts \subseteq Posts'
  BY <1>1 DEF Views, Outcomes, Posts
<1>3. PageStates \subseteq PageStates'
  BY <1>2 DEF PageStates
<1>4. Answers \subseteq Answers'
  BY <1>1, <1>2 DEF Answers
<1>5. QED
  BY <1>1, <1>2, <1>3, <1>4 DEF Calls

-----------------------------------------------------------------------------
(* serve's memory.                                                         *)

\* The cache keeps to its limit, whether or not it has the request already.
LEMMA CachePendingType ==
  ASSUME NEW V, NEW p \in V, cache \in Seq(V), Len(cache) <= CacheLimit
  PROVE  CachePending(p) \in Seq(V) /\ Len(CachePending(p)) <= CacheLimit
<1>1. CASE p.id \in CachedIds
  <2>1. CachePending(p) \in [1 .. Len(cache) -> V]
    BY <1>1 DEF CachePending
  <2>2. QED
    BY <2>1
<1>2. CASE p.id \notin CachedIds
  <2>1. CASE Len(cache) >= CacheLimit
    <3>1. cache # <<>>
      BY <2>1
    <3>2. Tail(cache) \in Seq(V) /\ Len(Tail(cache)) = Len(cache) - 1
      BY <3>1
    <3>3. CachePending(p) = Append(Tail(cache), p)
      BY <1>2, <2>1 DEF CachePending
    <3>4. QED
      BY <3>2, <3>3
  <2>2. CASE ~(Len(cache) >= CacheLimit)
    <3>1. CachePending(p) = Append(cache, p)
      BY <1>2, <2>2 DEF CachePending
    <3>2. QED
      BY <3>1, <2>2
  <2>3. QED
    BY <2>1, <2>2
<1>3. QED
  BY <1>1, <1>2

\* Cutting to the limit takes the front.
LEMMA NewestType ==
  ASSUME NEW V, NEW s \in Seq(V)
  PROVE  /\ Newest(s) \in Seq(V) /\ Len(Newest(s)) <= HistoryLimit
         /\ Len(Newest(s)) <= Len(s)
         /\ \A i \in 1 .. Len(Newest(s)) : Newest(s)[i] = s[i]
         /\ s # <<>> => Newest(s) # <<>>
<1>1. Len(s) \in Nat /\ (s # <<>> => Len(s) > 0)
  BY EmptySeq
<1>2. PICK n \in Nat : /\ n = (IF Len(s) > HistoryLimit THEN HistoryLimit ELSE Len(s))
                       /\ n <= Len(s) /\ n <= HistoryLimit /\ (s # <<>> => n > 0)
  BY <1>1
<1>3. Newest(s) = SubSeq(s, 1, n)
  BY <1>2 DEF Newest
<1>4. SubSeq(s, 1, n) \in Seq(V) /\ Len(SubSeq(s, 1, n)) = n
      /\ \A i \in 1 .. n : SubSeq(s, 1, n)[i] = s[i]
  BY <1>1, <1>2
<1>5. QED
  BY <1>2, <1>3, <1>4

\* The outcome is on top of what is recorded, and what was there is behind it.
LEMMA RecordOutcomeType ==
  ASSUME NEW V, NEW o \in V, history \in Seq(V), Len(history) <= HistoryLimit
  PROVE  /\ RecordOutcome(o) \in Seq(V) /\ Len(RecordOutcome(o)) <= HistoryLimit
         /\ RecordOutcome(o) # <<>> /\ RecordOutcome(o)[1] = o
         /\ \A i \in 2 .. Len(RecordOutcome(o)) :
              IF history # <<>> /\ history[1].id = o.id
              THEN i \in 1 .. Len(history) /\ RecordOutcome(o)[i] = history[i]
              ELSE i - 1 \in 1 .. Len(history) /\ RecordOutcome(o)[i] = history[i - 1]
<1>1. CASE history # <<>> /\ history[1].id = o.id
  <2>1. RecordOutcome(o) = [history EXCEPT ![1] = o]
    BY <1>1 DEF RecordOutcome
  <2>2. Len(history) >= 1
    BY <1>1
  <2>3. QED
    BY <1>1, <2>1, <2>2
<1>2. CASE ~(history # <<>> /\ history[1].id = o.id)
  <2>1. RecordOutcome(o) = Newest(<<o>> \o history)
    BY <1>2 DEF RecordOutcome
  <2>2. /\ <<o>> \o history \in Seq(V) /\ Len(<<o>> \o history) = Len(history) + 1
        /\ (<<o>> \o history)[1] = o
        /\ \A i \in 2 .. Len(history) + 1 : (<<o>> \o history)[i] = history[i - 1]
        /\ <<o>> \o history # <<>>
    OBVIOUS
  <2> DEFINE s == <<o>> \o history
  <2>3. s \in Seq(V) /\ s # <<>> /\ s[1] = o /\ Len(s) = Len(history) + 1
        /\ \A i \in 2 .. Len(history) + 1 : s[i] = history[i - 1]
    BY <2>2
  <2> HIDE DEF s
  <2>4. /\ Newest(s) \in Seq(V) /\ Len(Newest(s)) <= HistoryLimit
        /\ Len(Newest(s)) <= Len(s) /\ Newest(s) # <<>>
        /\ \A i \in 1 .. Len(Newest(s)) : Newest(s)[i] = s[i]
    BY <2>3, NewestType
  <2>5. Len(Newest(s)) >= 1 /\ Len(history) \in Nat /\ Len(Newest(s)) \in Nat
    BY <2>4
  <2>6. RecordOutcome(o) = Newest(s)
    BY <2>1 DEF s
  <2>7. Newest(s)[1] = o
    BY <2>3, <2>4, <2>5
  <2>8. \A i \in 2 .. Len(Newest(s)) : i - 1 \in 1 .. Len(history) /\ Newest(s)[i] = history[i - 1]
    BY <2>3, <2>4, <2>5
  <2>9. QED
    BY <1>2, <2>4, <2>6, <2>7, <2>8
<1>3. QED
  BY <1>1, <1>2

\* An answer with its request, and how far the hub was.
LEMMA AnswerBounds ==
  ASSUME IInv, NEW c \in Answers
  PROVE  /\ Progress(c) \in Nat /\ AtGate(c) \in 0 .. opened
         /\ AtGate(c) # 0 => Progress(c) = 3 * AtGate(c) - 2
         /\ c.last # None =>
              /\ c.last.id \in 1 .. opened /\ 1 <= Progress(c)
              /\ AtGate(c) = 0 => Progress(c) \in {3 * c.last.id - 1, 3 * c.last.id}
<1>1. opened \in Nat
  BY DEF IInv, HubInv
<1>2. AtGate(c) \in 0 .. opened
  BY <1>1 DEF AtGate, Answers, Views
<1>3. QED
  BY <1>1, <1>2 DEF Progress, Answers, Outcomes

\* A call that has been answered carries an answer.
LEMMA Answered ==
  ASSUME IInv, NEW t \in Tabs, NEW ch \in Channels, At(t, ch, "answered")
  PROVE  call[t][ch] \in Answers /\ call[t][ch].ask \in {0, call[t][ch].known}
  BY DEF IInv, CallInv, At, Calls, Posts, Answers

\* serve keeps within its limits.
LEMMA CacheStep == ASSUME IInv, [Next]_vars PROVE CacheInv'
<1>0. CacheInv /\ Views \subseteq Views' /\ Outcomes \subseteq Outcomes'
  BY GrowingTypes DEF IInv, CacheInv
<1>1. ASSUME UNCHANGED <<session, cookie, faults, serve>> PROVE CacheInv'
  BY <1>0, <1>1 DEF CacheInv, serve
<1>2. CASE Next
  <2>1. ASSUME NEW t \in Tabs, NEW ch \in Channels, Relay(t, ch) PROVE CacheInv'
    <3> DEFINE c == call[t][ch]
    <3>1. c \in Answers
      BY <2>1, Answered DEF Relay
    <3>2. cache' \in Seq(Views) /\ Len(cache') <= CacheLimit
      BY <1>0, <2>1, <3>1, CachePendingType DEF Relay, CacheInv, Answers
    <3>3. history' \in Seq(Outcomes) /\ Len(history') <= HistoryLimit
      BY <1>0, <2>1, <3>1, RecordOutcomeType DEF Relay, CacheInv, Answers
    <3>4. recorded' \in Nat /\ overtaken' \in BOOLEAN
      BY <1>0, <2>1, <3>1, AnswerBounds DEF Relay, CacheInv
    <3>5. UNCHANGED <<session, cookie, faults>>
      BY <2>1 DEF Relay, fates
    <3>6. QED
      BY <1>0, <3>2, <3>3, <3>4, <3>5 DEF CacheInv
  <2>2. ASSUME NEW token \in 0 .. MaxFaults + 1, Restart(token) PROVE CacheInv'
    <3>1. <<>> \in Seq(Views') /\ <<>> \in Seq(Outcomes') /\ Len(<<>>) = 0
      OBVIOUS
    <3>2. faults' \in 0 .. MaxFaults /\ {session', cookie'} \subseteq 0 .. MaxFaults + 1
      BY <1>0, <2>2 DEF Restart, CacheInv
    <3>3. cache' = <<>> /\ history' = <<>> /\ recorded' = 0 /\ overtaken' = FALSE
      BY <2>2 DEF Restart
    <3>4. cache' \in Seq(Views') /\ history' \in Seq(Outcomes')
      BY <3>1, <3>3
    <3>5. Len(cache') <= CacheLimit /\ Len(history') <= HistoryLimit
      BY <3>1, <3>3
    <3>6. QED
      BY <3>2, <3>3, <3>4, <3>5 DEF CacheInv
  <2>3. CASE BrokerRestarts
    BY <1>0, <2>3 DEF BrokerRestarts, CacheInv, serve, pages
  <2>4. CASE Broker
    BY <1>0, <2>4 DEF Broker, OpenRequest, DecidedElsewhere, MistypedElsewhere, Published,
       CacheInv, serve, pages, fates
  <2>5. ASSUME NEW t \in Tabs, NEW ch \in Channels,
               \/ Answer(t, ch) \/ AskAgain(t, ch) \/ Unreachable(t, ch)
               \/ Poll(t) \/ Show(t) \/ GiveUp(t, ch) \/ Deliver(t, ch)
               \/ PollAfterClick(t, ch) \/ EndClick(t, ch)
               \/ \E op \in PostOps : Click(t, ch, op)
        PROVE  CacheInv'
    <3>1. UNCHANGED <<session, cookie, serve>>
      BY <2>5 DEF Answer, AskAgain, Unreachable, Poll, Show, GiveUp, Deliver,
         PollAfterClick, EndClick, Click, serve
    <3>2. faults' = faults \/ (faults < MaxFaults /\ faults' = faults + 1)
      BY <2>5 DEF Answer, AskAgain, Unreachable, Poll, Show, GiveUp, Deliver,
         PollAfterClick, EndClick, Click, fates
    <3>3. QED
      BY <1>0, <3>1, <3>2 DEF CacheInv, serve
  <2>6. ASSUME NEW t \in Tabs, OpenPage(t) PROVE CacheInv'
    BY <1>0, <2>6 DEF OpenPage, Printed, CacheInv, serve, fates
  <2>7. ASSUME NEW p \in stray, DeliverLate(p) PROVE CacheInv'
    BY <1>0, <2>7 DEF DeliverLate, CacheInv, serve, pages
  <2>8. CASE ServeUp \/ ServeRestarted \/ ServeDown
    <3>1. faults \in 0 .. MaxFaults /\ session \in 0 .. MaxFaults + 1
      BY <1>0 DEF CacheInv
    <3>2. ServeUp => faults + 2 \in 0 .. MaxFaults + 1
      BY <3>1 DEF ServeUp, Restart
    <3>3. QED
      BY <2>2, <2>8, <3>1, <3>2 DEF ServeUp, ServeRestarted, ServeDown
  <2>9. QED
    BY <1>2, <2>1, <2>3, <2>4, <2>5, <2>6, <2>7, <2>8
    DEF Next, Fault, Polling, Clicking, Serving, Channels, PostOps
<1>3. QED
  BY <1>1, <1>2 DEF vars, serve, pages, fates

-----------------------------------------------------------------------------
(* The pages.                                                              *)

\* A page with an answer that came to it is a page.
LEMMA UpdatedType ==
  ASSUME NEW t \in Tabs, tab[t] \in PageStates, NEW c,
         c.connected \in BOOLEAN, c.said \in Views \cup {None, Unchanged},
         c.last \in Outcomes \cup {None}
  PROVE  Updated(t, c) \in PageStates
<1> DEFINE p == IF c.said = Unchanged THEN tab[t].pending ELSE c.said
<1>1. p \in Views \cup {None}
  BY DEF PageStates
<1>2. QED
  BY <1>1 DEF Updated, PageStates

\* What a page asks for is what it shows.
LEMMA AskedType ==
  ASSUME IInv, NEW t \in Tabs, tab[t] \in PageStates
  PROVE  /\ Asked(t) \in Calls
         /\ Asked(t).stage = "asked" => Asked(t).ask = Asked(t).known
         /\ Asked(t).stage \in {"asked", "relayed"}
         /\ Shown(t) \in 0 .. opened
<1>1. Shown(t) \in 0 .. opened
  BY DEF Shown, PageStates, Views, IInv, HubInv
<1>2. QED
  BY <1>1 DEF Asked, Disconnected, Calls

\* A step of one call leaves every other call alone.
LEMMA GoesType ==
  ASSUME IInv, [Next]_vars, NEW t \in Tabs, NEW ch \in Channels,
         NEW next \in Calls' \cup {None}, Goes(t, ch, next)
  PROVE  /\ call' \in [Tabs -> [Channels -> Calls' \cup {None}]]
         /\ call'[t][ch] = next
         /\ \A u \in Tabs, dh \in Channels : u # t \/ dh # ch => call'[u][dh] = call[u][dh]
<1>1. call \in [Tabs -> [Channels -> Calls \cup {None}]] /\ Calls \subseteq Calls'
  BY GrowingTypes DEF IInv, CallInv
<1>2. QED
  BY <1>1 DEF Goes

\* The pages and their calls keep their types when one call moves on.
LEMMA CallMoves ==
  ASSUME IInv, [Next]_vars, NEW t \in Tabs, NEW ch \in Channels,
         NEW next \in Calls' \cup {None}, Goes(t, ch, next),
         next # None /\ next.stage \in {"asked", "answered"} => next.ask \in {0, next.known},
         tab' \in [Tabs -> PageStates' \cup {None}],
         \A u \in Tabs : tab[u] \in PageStates => tab'[u] \in PageStates',
         next # None => tab[t] \in PageStates
  PROVE  CallInv'
<1>1. CallInv
  BY DEF IInv
<1>2. /\ call' \in [Tabs -> [Channels -> Calls' \cup {None}]]
      /\ call'[t][ch] = next
      /\ \A u \in Tabs, dh \in Channels : u # t \/ dh # ch => call'[u][dh] = call[u][dh]
  BY GoesType
<1>3. ASSUME NEW u \in Tabs, NEW dh \in Channels
      PROVE  /\ call'[u][dh] # None => tab'[u] \in PageStates'
             /\ At(u, dh, "asked")' \/ At(u, dh, "answered")'
                  => call'[u][dh].ask \in {0, call'[u][dh].known}
  <2>1. CASE u = t /\ dh = ch
    BY <1>2, <2>1 DEF At
  <2>2. CASE u # t \/ dh # ch
    BY <1>1, <1>2, <2>2 DEF At, CallInv
  <2>3. QED
    BY <2>1, <2>2
<1>4. QED
  BY <1>2, <1>3 DEF CallInv

\* The pages and their calls keep their types when only a page changes.
LEMMA PageMoves ==
  ASSUME IInv, [Next]_vars, UNCHANGED call,
         tab' \in [Tabs -> PageStates' \cup {None}],
         \A u \in Tabs : tab[u] \in PageStates => tab'[u] \in PageStates'
  PROVE  CallInv'
<1>1. CallInv /\ Calls \subseteq Calls'
  BY GrowingTypes DEF IInv
<1>2. call' \in [Tabs -> [Channels -> Calls' \cup {None}]]
  BY <1>1 DEF CallInv
<1>3. QED
  BY <1>1, <1>2 DEF CallInv, At

\* Cutting a call off leaves a call.
LEMMA CutOffType ==
  ASSUME NEW c \in Calls \cup {None}
  PROVE  /\ CutOff(c) \in Calls \cup {None}
         /\ CutOff(c) # None => c # None
         /\ CutOff(c) # None => CutOff(c).stage \notin {"asked", "answered", "posted"}
  BY DEF CutOff, Disconnected, Calls, Posts, Answers

\* Every step keeps the types of pages and calls.
LEMMA CallStep == ASSUME IInv, [Next]_vars PROVE CallInv'
<1>0. /\ CallInv /\ HubInv /\ CacheInv
      /\ PageStates \subseteq PageStates' /\ Calls \subseteq Calls' /\ Answers \subseteq Answers'
  BY GrowingTypes DEF IInv
<1>1. tab \in [Tabs -> PageStates' \cup {None}]
  BY <1>0 DEF CallInv
<1>2. ASSUME UNCHANGED <<tab, call>> PROVE CallInv'
  BY <1>0, <1>1, <1>2, PageMoves
<1>3. ASSUME NEW t \in Tabs, NEW ch \in Channels, NEW next, Goes(t, ch, next),
             next \in Calls' \cup {None}, UNCHANGED tab,
             next # None /\ next.stage \in {"asked", "answered"} => next.ask \in {0, next.known},
             next # None => tab[t] \in PageStates
      PROVE  CallInv'
  BY <1>0, <1>1, <1>3, CallMoves
<1>4. ASSUME NEW t \in Tabs, NEW ch \in Channels, NEW next, Goes(t, ch, next),
             next \in Calls' \cup {None}, NEW page \in PageStates,
             tab' = [tab EXCEPT ![t] = page], tab[t] \in PageStates,
             next # None => next.stage \notin {"asked", "answered"}
      PROVE  CallInv'
  <2>1. tab' \in [Tabs -> PageStates' \cup {None}]
        /\ \A u \in Tabs : tab[u] \in PageStates => tab'[u] \in PageStates'
    BY <1>0, <1>1, <1>4
  <2>2. QED
    BY <1>4, <2>1, CallMoves
<1>5. CASE Next
  <2>1. ASSUME NEW t \in Tabs, NEW ch \in Channels, Answer(t, ch) PROVE CallInv'
    <3> DEFINE c == call[t][ch]
               next == [stage |-> "answered", known |-> c.known, ask |-> c.ask,
                        said |-> Status(c.ask), last |-> last]
    <3>1. c \in Calls /\ c.stage = "asked" /\ c.ask \in {0, c.known} /\ tab[t] \in PageStates
      BY <1>0, <2>1 DEF Answer, At, CallInv
    <3>2. Status(c.ask) \in Views \cup {None, Unchanged}
      BY <1>0 DEF Status, HubInv
    <3>3. next \in Answers
      BY <1>0, <3>1, <3>2 DEF Calls, Answers, Posts, HubInv
    <3>4. next \in Calls'
      BY <1>0, <3>3 DEF Calls
    <3>5. Goes(t, ch, next) /\ UNCHANGED tab
      BY <2>1 DEF Answer
    <3>6. QED
      BY <1>3, <3>1, <3>4, <3>5
  <2>2. ASSUME NEW t \in Tabs, NEW ch \in Channels, AskAgain(t, ch) PROVE CallInv'
    <3> DEFINE c == call[t][ch]
               next == [stage |-> "asked", known |-> c.known, ask |-> 0]
    <3>1. c \in Answers /\ tab[t] \in PageStates
      BY <1>0, <2>2, Answered DEF AskAgain, At, CallInv
    <3>2. next \in Calls
      BY <1>0, <3>1 DEF Calls, Answers, HubInv
    <3>3. Goes(t, ch, next) /\ UNCHANGED tab
      BY <2>2 DEF AskAgain
    <3>4. QED
      BY <1>0, <1>3, <3>1, <3>2, <3>3
  <2>3. ASSUME NEW t \in Tabs, NEW ch \in Channels, Relay(t, ch) PROVE CallInv'
    <3> DEFINE c == call[t][ch]
               expanded == IF c.said = Unchanged
                           THEN cache[CHOOSE i \in 1 .. Len(cache) : cache[i].id = c.ask]
                           ELSE c.said
               out == IF expanded # None /\ expanded.id = c.known THEN Unchanged ELSE expanded
               next == [stage |-> "relayed", connected |-> TRUE, said |-> out, last |-> c.last]
    <3>1. c \in Answers /\ tab[t] \in PageStates
      BY <1>0, <2>3, Answered DEF Relay, At, CallInv
    <3>2. expanded \in Views \cup {None}
      <4>1. CASE c.said = Unchanged
        <5>1. \E i \in 1 .. Len(cache) : cache[i].id = c.ask
          BY <2>3, <4>1 DEF Relay, CachedIds
        <5>2. QED
          BY <1>0, <4>1, <5>1 DEF CacheInv
      <4>2. CASE c.said # Unchanged
        BY <3>1, <4>2 DEF Answers
      <4>3. QED
        BY <4>1, <4>2
    <3>3. out \in Views \cup {None, Unchanged}
      BY <3>2
    <3>4. next \in Calls
      <4> HIDE DEF out
      <4>1. QED
        BY <3>1, <3>3 DEF Calls, Answers
    <3>5. Goes(t, ch, next) /\ UNCHANGED tab
      BY <2>3 DEF Relay
    <3> HIDE DEF out
    <3>6. QED
      BY <1>0, <1>3, <3>1, <3>4, <3>5
  <2>4. ASSUME NEW t \in Tabs, NEW ch \in Channels, Unreachable(t, ch) PROVE CallInv'
    <3>1. Disconnected \in Calls /\ Disconnected.stage = "relayed"
      BY DEF Disconnected, Calls
    <3>2. tab[t] \in PageStates
      BY <1>0, <2>4 DEF Unreachable, At, CallInv
    <3>3. Goes(t, ch, Disconnected) /\ UNCHANGED tab
      BY <2>4 DEF Unreachable
    <3>4. QED
      BY <1>0, <1>3, <3>1, <3>2, <3>3
  <2>5. ASSUME NEW t \in Tabs, NEW ch \in Channels, GiveUp(t, ch) \/ Deliver(t, ch)
        PROVE  CallInv'
    <3> DEFINE next == [stage |-> "result"]
    <3>1. next \in Calls
      BY DEF Calls
    <3>2. tab[t] \in PageStates
      BY <1>0, <2>5 DEF GiveUp, Deliver, At, CallInv
    <3>3. Goes(t, ch, next) /\ UNCHANGED tab
      BY <2>5 DEF GiveUp, Deliver
    <3>4. QED
      BY <1>0, <1>3, <3>1, <3>2, <3>3
  <2>6. ASSUME NEW t \in Tabs, NEW ch \in Channels,
               Goes(t, ch, Asked(t)), UNCHANGED tab, tab[t] \in PageStates
        PROVE  CallInv'
    <3>1. /\ Asked(t) \in Calls'
          /\ Asked(t).stage \in {"asked", "answered"} => Asked(t).ask \in {0, Asked(t).known}
      BY <1>0, <2>6, AskedType
    <3>2. QED
      BY <1>3, <2>6, <3>1
  <2>7. ASSUME NEW t \in Tabs, Poll(t) PROVE CallInv'
    <3>1. tab[t] \in PageStates /\ Loop \in Channels
      BY <1>0, <2>7 DEF Poll, CallInv, Channels
    <3>2. Goes(t, Loop, Asked(t)) /\ UNCHANGED tab
      BY <2>7 DEF Poll
    <3>3. QED
      BY <2>6, <3>1, <3>2
  <2>8. ASSUME NEW t \in Tabs, NEW ch \in Channels, PollAfterClick(t, ch) PROVE CallInv'
    BY <1>0, <2>6, <2>8 DEF PollAfterClick, CallInv, At
  <2>9. ASSUME NEW t \in Tabs, NEW ch \in Channels, At(t, ch, "relayed")
        PROVE  tab[t] \in PageStates /\ Updated(t, call[t][ch]) \in PageStates
    <3>1. call[t][ch] \in Calls /\ call[t][ch].stage = "relayed" /\ tab[t] \in PageStates
      BY <1>0, <2>9 DEF At, CallInv
    <3>2. /\ call[t][ch].connected \in BOOLEAN
          /\ call[t][ch].said \in Views \cup {None, Unchanged}
          /\ call[t][ch].last \in Outcomes \cup {None}
      BY <3>1 DEF Calls, Answers, Posts
    <3>3. QED
      BY <3>1, <3>2, UpdatedType
  <2>10. ASSUME NEW t \in Tabs, Show(t) PROVE CallInv'
    <3>1. Loop \in Channels
      BY DEF Channels
    <3>2. /\ At(t, Loop, "relayed") /\ Goes(t, Loop, None)
          /\ tab' = [tab EXCEPT ![t] = Updated(t, call[t][Loop])]
      BY <2>10 DEF Show
    <3>3. QED
      BY <1>4, <2>9, <3>1, <3>2
  <2>11. ASSUME NEW t \in Tabs, NEW ch \in Channels, EndClick(t, ch) PROVE CallInv'
    <3> DEFINE page == [IF At(t, ch, "relayed") THEN Updated(t, call[t][ch]) ELSE tab[t]
                          EXCEPT !.submitting = None]
    <3>1. tab[t] \in PageStates
      BY <1>0, <2>11 DEF EndClick, At, CallInv
    <3>2. (IF At(t, ch, "relayed") THEN Updated(t, call[t][ch]) ELSE tab[t]) \in PageStates
      BY <2>9, <3>1
    <3>3. page \in PageStates
      BY <3>2 DEF PageStates
    <3>4. tab' = [tab EXCEPT ![t] = page] /\ Goes(t, ch, None)
      BY <2>11 DEF EndClick
    <3>5. QED
      BY <1>4, <3>1, <3>3, <3>4
  <2>12. ASSUME NEW t \in Tabs, NEW ch \in Channels, NEW op \in PostOps, Click(t, ch, op)
         PROVE  CallInv'
    <3> DEFINE page == [tab[t] EXCEPT !.submitting = op]
               post == [stage |-> "posted", id |-> Shown(t), op |-> op]
               next == IF AuthedPost(t) THEN post ELSE [stage |-> "thrown"]
    <3>1. tab[t] \in PageStates /\ tab[t].pending # None /\ op \in Decisions
      BY <1>0, <2>12 DEF Click, CallInv, PostOps, Decisions
    <3>2. page \in PageStates
      BY <3>1 DEF PageStates
    <3>3. Shown(t) \in 1 .. opened
      BY <3>1 DEF Shown, PageStates, Views
    <3>4. next \in Calls /\ next.stage \notin {"asked", "answered"}
      BY <3>1, <3>3 DEF Calls, Posts
    <3>5. tab' = [tab EXCEPT ![t] = page] /\ Goes(t, ch, next)
      BY <2>12 DEF Click
    <3> HIDE DEF page, next
    <3>6. QED
      BY <1>0, <1>4, <3>1, <3>2, <3>4, <3>5
  <2>13. ASSUME NEW t \in Tabs, OpenPage(t) PROVE CallInv'
    <3> DEFINE page == [csrf |-> session, connected |-> TRUE, pending |-> None,
                        last |-> None, submitting |-> None]
    <3>1. page \in PageStates
      BY <1>0 DEF PageStates, CacheInv
    <3>2. tab' = [tab EXCEPT ![t] = page] /\ UNCHANGED call
      BY <2>13 DEF OpenPage
    <3> HIDE DEF page
    <3>3. tab' \in [Tabs -> PageStates' \cup {None}]
          /\ \A u \in Tabs : tab[u] \in PageStates => tab'[u] \in PageStates'
      BY <1>0, <1>1, <3>1, <3>2
    <3>4. QED
      BY <3>2, <3>3, PageMoves
  <2>14. CASE Broker \/ BrokerRestarts \/ (\E p \in stray : DeliverLate(p))
    BY <1>2, <2>14 DEF Broker, OpenRequest, DecidedElsewhere, MistypedElsewhere, Published,
       BrokerRestarts, DeliverLate, pages
  <2>15. CASE ServeUp \/ ServeRestarted \/ ServeDown
    <3>1. UNCHANGED tab /\ call' = [t \in Tabs |-> [ch \in Channels |-> CutOff(call[t][ch])]]
      BY <2>15 DEF ServeUp, ServeRestarted, ServeDown, Restart
    <3>2. ASSUME NEW t \in Tabs, NEW ch \in Channels
          PROVE  /\ call'[t][ch] = CutOff(call[t][ch])
                 /\ call'[t][ch] \in Calls \cup {None}
                 /\ call'[t][ch] # None => tab[t] \in PageStates
                 /\ call'[t][ch] # None => call'[t][ch].stage \notin {"asked", "answered", "posted"}
      <4>1. call[t][ch] \in Calls \cup {None} /\ (call[t][ch] # None => tab[t] \in PageStates)
        BY <1>0 DEF CallInv
      <4>2. call'[t][ch] = CutOff(call[t][ch])
        BY <3>1
      <4>3. QED
        BY <4>1, <4>2, CutOffType
    <3>3. call' \in [Tabs -> [Channels -> Calls' \cup {None}]]
      BY <1>0, <3>1, <3>2
    <3>4. QED
      BY <1>0, <1>1, <3>1, <3>2, <3>3 DEF CallInv, At
  <2>16. QED
    BY <1>5, <2>1, <2>2, <2>3, <2>4, <2>5, <2>7, <2>8, <2>10, <2>11, <2>12, <2>13, <2>14,
       <2>15 DEF Next, Fault, Polling, Clicking, Serving, Channels, PostOps
<1>6. QED
  BY <1>2, <1>5 DEF vars, pages

-----------------------------------------------------------------------------
(* What becomes of one call in a step.                                     *)

\* The call at dh of page u, when the one at ch of page t moves on.
LEMMA GoesOnly ==
  ASSUME IInv, NEW t \in Tabs, NEW ch \in Channels, NEW next, Goes(t, ch, next),
         NEW u \in Tabs, NEW dh \in Channels
  PROVE  \/ u = t /\ dh = ch /\ call'[u][dh] = next
         \/ call'[u][dh] = call[u][dh]
<1>1. call \in [Tabs -> [Channels -> Calls \cup {None}]]
  BY DEF IInv, CallInv
<1>2. QED
  BY <1>1 DEF Goes

\* Only the broker answers, only a click posts, and only serve relays an answer.
Moved(u, dh) ==
  \/ call'[u][dh] = call[u][dh]
  \/ Answer(u, dh)
  \/ Relay(u, dh)
  \/ \E op \in PostOps : Click(u, dh, op)
  \/ /\ ~At(u, dh, "answered")' /\ ~At(u, dh, "posted")'
     /\ At(u, dh, "relayed")' /\ At(u, dh, "answered") => ~call'[u][dh].connected

\* Every step moves a call in one of these ways.
LEMMA Moves ==
  ASSUME IInv, [Next]_vars, NEW u \in Tabs, NEW dh \in Channels
  PROVE  Moved(u, dh)
<1>1. ASSUME NEW t \in Tabs, NEW ch \in Channels, NEW next, Goes(t, ch, next),
             next # None => next.stage \notin {"answered", "posted"},
             next # None /\ next.stage = "relayed" /\ At(t, ch, "answered") => ~next.connected
      PROVE  Moved(u, dh)
  BY <1>1, GoesOnly DEF Moved, At
<1>2. ASSUME UNCHANGED call PROVE Moved(u, dh)
  BY <1>2 DEF Moved
<1>3. CASE Next
  <2>1. ASSUME NEW t \in Tabs, NEW ch \in Channels, Answer(t, ch) PROVE Moved(u, dh)
    BY <2>1, GoesOnly DEF Answer, Moved
  <2>2. ASSUME NEW t \in Tabs, NEW ch \in Channels, Relay(t, ch) PROVE Moved(u, dh)
    <3>1. u # t \/ dh # ch => call'[u][dh] = call[u][dh]
      <4>1. call \in [Tabs -> [Channels -> Calls \cup {None}]]
        BY DEF IInv, CallInv
      <4>2. \E next : Goes(t, ch, next)
        BY <2>2 DEF Relay
      <4>3. QED
        BY <4>1, <4>2 DEF Goes
    <3>2. QED
      BY <2>2, <3>1 DEF Moved
  <2>3. ASSUME NEW t \in Tabs, NEW ch \in Channels, NEW op \in PostOps, Click(t, ch, op)
        PROVE  Moved(u, dh)
    <3>1. u # t \/ dh # ch => call'[u][dh] = call[u][dh]
      <4>1. call \in [Tabs -> [Channels -> Calls \cup {None}]]
        BY DEF IInv, CallInv
      <4>2. \E next : Goes(t, ch, next)
        BY <2>3 DEF Click
      <4>3. QED
        BY <4>1, <4>2 DEF Goes
    <3>2. QED
      BY <2>3, <3>1 DEF Moved
  <2>4. ASSUME NEW t \in Tabs, NEW ch \in Channels,
               \/ AskAgain(t, ch) \/ Unreachable(t, ch) \/ GiveUp(t, ch)
               \/ Deliver(t, ch) \/ EndClick(t, ch)
        PROVE  Moved(u, dh)
    BY <1>1, <2>4 DEF AskAgain, Unreachable, GiveUp, Deliver, EndClick, Disconnected
  <2>5. ASSUME NEW t \in Tabs, NEW ch \in Channels, PollAfterClick(t, ch)
        PROVE  Moved(u, dh)
    <3>1. Asked(t).stage \in {"asked", "relayed"} /\ ~At(t, ch, "answered")
      BY <2>5 DEF Asked, Disconnected, PollAfterClick, At
    <3>2. QED
      BY <1>1, <2>5, <3>1 DEF PollAfterClick
  <2>6. ASSUME NEW t \in Tabs, Poll(t) PROVE Moved(u, dh)
    <3>1. Asked(t).stage \in {"asked", "relayed"} /\ ~At(t, Loop, "answered")
          /\ Loop \in Channels
      BY <2>6 DEF Asked, Disconnected, Poll, At, Channels
    <3>2. QED
      BY <1>1, <2>6, <3>1 DEF Poll
  <2>7. ASSUME NEW t \in Tabs, Show(t) PROVE Moved(u, dh)
    <3>1. Loop \in Channels
      BY DEF Channels
    <3>2. QED
      BY <1>1, <2>7, <3>1 DEF Show
  <2>8. CASE Broker \/ BrokerRestarts \/ (\E p \in stray : DeliverLate(p))
    BY <1>2, <2>8 DEF Broker, OpenRequest, DecidedElsewhere, MistypedElsewhere, Published,
       BrokerRestarts, DeliverLate, pages
  <2>9. ASSUME NEW t \in Tabs, OpenPage(t) PROVE Moved(u, dh)
    BY <1>2, <2>9 DEF OpenPage
  <2>10. CASE ServeUp \/ ServeRestarted \/ ServeDown
    <3>1. call'[u][dh] = CutOff(call[u][dh])
      BY <2>10 DEF ServeUp, ServeRestarted, ServeDown, Restart
    <3>2. call[u][dh] \in Calls \cup {None}
      BY DEF IInv, CallInv
    <3>3. /\ call'[u][dh] # None => call'[u][dh].stage \notin {"answered", "posted"}
          /\ At(u, dh, "answered") => call'[u][dh] = Disconnected
      BY <3>1, <3>2, CutOffType DEF CutOff, At
    <3>4. QED
      BY <3>3 DEF Moved, At, Disconnected
  <2>11. QED
    BY <1>3, <2>1, <2>2, <2>3, <2>4, <2>5, <2>6, <2>7, <2>8, <2>9, <2>10
    DEF Next, Fault, Polling, Clicking, Serving, Channels, PostOps
<1>4. QED
  BY <1>2, <1>3 DEF vars, pages

\* An answer that is on its way after a step was on its way before, or is what the
\* hub has just said.
LEMMA AnswerIsNow ==
  ASSUME IInv, [Next]_vars, NEW t \in Tabs, NEW ch \in Channels, At(t, ch, "answered")'
  PROVE  \/ At(t, ch, "answered") /\ call'[t][ch] = call[t][ch]
         \/ /\ UNCHANGED <<hubVars, opened, serve>>
            /\ call'[t][ch].last = last
            /\ Progress(call'[t][ch]) = Progress(Now)
            /\ \A u \in Tabs, dh \in Channels :
                 u # t \/ dh # ch => call'[u][dh] = call[u][dh]
<1>1. Moved(t, ch)
  BY Moves
<1>2. CASE call'[t][ch] = call[t][ch]
  BY <1>2 DEF At
<1>3. CASE Answer(t, ch)
  <2>1. At(t, ch, "asked") /\ UNCHANGED <<hubVars, opened, serve>>
    BY <1>3 DEF Answer
  <2>2. /\ call'[t][ch] = [stage |-> "answered", known |-> call[t][ch].known,
                           ask |-> call[t][ch].ask, said |-> Status(call[t][ch].ask),
                           last |-> last]
        /\ \A u \in Tabs, dh \in Channels : u # t \/ dh # ch => call'[u][dh] = call[u][dh]
    BY <1>3 DEF Answer, Goes, IInv, CallInv
  <2>3. pending \in Views \cup {None} /\ Views \subseteq Received
    BY DEF IInv, HubInv, Views, Received
  <2>4. AtGate(call'[t][ch]) = AtGate(Now)
    BY <2>2, <2>3 DEF AtGate, Status, Now
  <2>5. Progress(call'[t][ch]) = Progress(Now)
    BY <2>2, <2>4 DEF Progress, Now
  <2>6. QED
    BY <2>1, <2>2, <2>5
<1>4. CASE Relay(t, ch)
  <2>1. call \in [Tabs -> [Channels -> Calls \cup {None}]]
    BY DEF IInv, CallInv
  <2>2. \E said, out : Goes(t, ch, [stage |-> "relayed", connected |-> TRUE, said |-> said,
                                   last |-> out])
    BY <1>4 DEF Relay
  <2>3. call'[t][ch].stage = "relayed"
    BY <2>1, <2>2 DEF Goes
  <2>4. QED
    BY <2>3 DEF At
<1>5. CASE \E op \in PostOps : Click(t, ch, op)
  BY <1>5 DEF Click, At, IInv, CallInv, Goes
<1>6. QED
  BY <1>1, <1>2, <1>3, <1>4, <1>5 DEF Moved

-----------------------------------------------------------------------------
(* Clicks.                                                                 *)

\* Every step keeps the posts true to the clicks.
LEMMA ClickStep == ASSUME IInv, [Next]_vars PROVE ClickInv'
<1>0. ClickInv /\ HubInv /\ CallInv
  BY DEF IInv
<1>1. /\ opened \in Nat /\ opened' \in Nat /\ opened <= opened'
      /\ opened' = opened => clicked \subseteq clicked'
      /\ opened' = opened \/ opened' = opened + 1
  <2>1. opened' = opened => clicked \subseteq clicked'
    <3>1. ASSUME Broker \/ ServeUp \/ ServeRestarted \/ ServeDown \/ BrokerRestarts
          PROVE  opened' = opened => clicked \subseteq clicked'
      BY <1>0, <3>1 DEF Broker, OpenRequest, DecidedElsewhere, MistypedElsewhere, Published,
         ServeUp, ServeRestarted, ServeDown, Restart, BrokerRestarts, pages, HubInv
    <3>2. ASSUME \E p \in stray : DeliverLate(p) PROVE UNCHANGED clicked
      BY <3>2 DEF DeliverLate, pages
    <3>3. ASSUME NEW t \in Tabs, NEW ch \in Channels,
                 \/ Answer(t, ch) \/ AskAgain(t, ch) \/ Relay(t, ch) \/ Unreachable(t, ch)
                 \/ OpenPage(t) \/ Poll(t) \/ Show(t) \/ GiveUp(t, ch) \/ Deliver(t, ch)
                 \/ PollAfterClick(t, ch) \/ EndClick(t, ch)
                 \/ \E op \in PostOps : Click(t, ch, op)
          PROVE  clicked \subseteq clicked'
      BY <3>3 DEF Answer, AskAgain, Relay, Unreachable, OpenPage, Poll, Show, GiveUp,
         Deliver, PollAfterClick, EndClick, Click
    <3>4. QED
      BY <3>1, <3>2, <3>3 DEF Next, vars, pages, Fault, Polling, Clicking, Serving, Channels, PostOps
  <2>2. QED
    BY <1>0, <2>1, HubStep DEF HubInv
<1>2. ASSUME NEW t \in Tabs, NEW ch \in Channels, At(t, ch, "posted")
      PROVE  call[t][ch].id \in 1 .. opened /\ call[t][ch].op \in Decisions
  BY <1>0, <1>2 DEF At, CallInv, Calls, Posts, Answers
<1>3. ASSUME NEW t \in Tabs, NEW ch \in Channels, At(t, ch, "posted")',
             call'[t][ch].id = opened'
      PROVE  call'[t][ch].op \in clicked'
  <2>1. CASE call'[t][ch] = call[t][ch]
    BY <1>0, <1>1, <1>2, <1>3, <2>1 DEF ClickInv, At
  <2>2. ASSUME NEW op \in PostOps, Click(t, ch, op) PROVE call'[t][ch].op \in clicked'
    <3>1. call'[t][ch] = IF AuthedPost(t) THEN [stage |-> "posted", id |-> Shown(t), op |-> op]
                         ELSE [stage |-> "thrown"]
      BY <1>0, <2>2 DEF Click, Goes, CallInv
    <3>2. call'[t][ch].id = Shown(t) /\ call'[t][ch].op = op
      BY <1>3, <3>1 DEF At
    <3>3. QED
      BY <1>3, <2>2, <3>2 DEF Click
  <2>3. ~Answer(t, ch) /\ ~Relay(t, ch)
    BY <1>0, <1>3 DEF Answer, Relay, Goes, At, CallInv
  <2>4. QED
    BY <1>3, <2>1, <2>2, <2>3, Moves DEF Moved
<1>4. stray' \subseteq stray \cup Posted
  <2>1. ASSUME Broker \/ BrokerRestarts PROVE UNCHANGED stray
    BY <2>1 DEF Broker, OpenRequest, DecidedElsewhere, MistypedElsewhere, Published,
       BrokerRestarts, fates
  <2>2. ASSUME ServeUp \/ ServeRestarted \/ ServeDown PROVE stray' \subseteq stray \cup Posted
    BY <2>2 DEF ServeUp, ServeRestarted, ServeDown, Restart
  <2>3. ASSUME \E p \in stray : DeliverLate(p) PROVE stray' \subseteq stray
    BY <2>3 DEF DeliverLate
  <2>4. ASSUME NEW t \in Tabs, NEW ch \in Channels,
               \/ Answer(t, ch) \/ AskAgain(t, ch) \/ Relay(t, ch) \/ Unreachable(t, ch)
               \/ OpenPage(t) \/ Poll(t) \/ Show(t) \/ Deliver(t, ch)
               \/ PollAfterClick(t, ch) \/ EndClick(t, ch)
               \/ \E op \in PostOps : Click(t, ch, op)
        PROVE  UNCHANGED stray
    BY <2>4 DEF Answer, AskAgain, Relay, Unreachable, OpenPage, Poll, Show, Deliver,
       PollAfterClick, EndClick, Click, fates
  <2>5. ASSUME NEW t \in Tabs, NEW ch \in Clicks, GiveUp(t, ch)
        PROVE  stray' \subseteq stray \cup Posted
    <3> DEFINE p == [id |-> call[t][ch].id, op |-> call[t][ch].op]
    <3>1. stray' \in {stray, stray \cup {p}} /\ At(t, ch, "posted")
      BY <2>5 DEF GiveUp
    <3>2. p \in Posted
      BY <3>1 DEF Posted
    <3> HIDE DEF p
    <3>3. QED
      BY <3>1, <3>2
  <2>6. QED
    BY <2>1, <2>2, <2>3, <2>4, <2>5
    DEF Next, vars, fates, Fault, Polling, Clicking, Serving, Channels, PostOps
<1>5. ASSUME NEW p \in stray \cup Posted
      PROVE  /\ p \in [id : 1 .. opened, op : Decisions]
             /\ p.id = opened => p.op \in clicked
  <2>1. CASE p \in stray
    BY <1>0, <2>1 DEF ClickInv
  <2>2. CASE p \in Posted
    <3>1. PICK t \in Tabs, ch \in Clicks :
            At(t, ch, "posted") /\ p = [id |-> call[t][ch].id, op |-> call[t][ch].op]
      BY <2>2 DEF Posted
    <3>2. ch \in Channels
      BY DEF Channels
    <3>3. QED
      BY <1>0, <1>2, <3>1, <3>2 DEF ClickInv
  <2>3. QED
    BY <2>1, <2>2
<1>6. ASSUME NEW p \in stray'
      PROVE  /\ p \in [id : 1 .. opened', op : Decisions]
             /\ p.id = opened' => p.op \in clicked'
  <2>1. p \in [id : 1 .. opened, op : Decisions] /\ (p.id = opened => p.op \in clicked)
    BY <1>4, <1>5, <1>6
  <2>2. QED
    BY <1>1, <2>1
<1>7. QED
  BY <1>3, <1>6 DEF ClickInv

-----------------------------------------------------------------------------
(* The order of answers.                                                   *)

\* How far the hub is, with what it would say.
LEMMA ProgressNow ==
  ASSUME NEW p \in Received \cup {None}, NEW l
  PROVE  Progress([said |-> p, ask |-> 0, last |-> l])
           = IF p # None THEN 3 * p.id - 2
             ELSE IF l = None THEN 0
             ELSE 3 * l.id - (IF l.publish = "none" THEN 1 ELSE 0)
<1>1. p # None => p.id # 0 /\ p # Unchanged
  BY DEF Received
<1>2. QED
  BY <1>1 DEF Progress, AtGate

\* The same, of the hub before and after a step.
LEMMA ProgressOfHub ==
  ASSUME IInv, [Next]_vars
  PROVE  /\ Progress(Now) = IF pending # None THEN 3 * opened - 2
                            ELSE IF last = None THEN 0
                            ELSE 3 * last.id - (IF last.publish = "none" THEN 1 ELSE 0)
         /\ Progress(Now)' = IF pending' # None THEN 3 * opened' - 2
                             ELSE IF last' = None THEN 0
                             ELSE 3 * last'.id - (IF last'.publish = "none" THEN 1 ELSE 0)
         /\ last # None => last.id \in 1 .. opened
<1>1. HubInv /\ HubInv'
  BY HubStep DEF IInv
<1>2. /\ pending \in Received \cup {None} /\ pending' \in Received \cup {None}
      /\ pending # None => pending.id = opened
      /\ pending' # None => pending'.id = opened'
      /\ last # None => last.id \in 1 .. opened
  BY <1>1 DEF HubInv, Views, Received, Outcomes
<1>3. Progress([said |-> pending, ask |-> 0, last |-> last])
        = IF pending # None THEN 3 * pending.id - 2
          ELSE IF last = None THEN 0
          ELSE 3 * last.id - (IF last.publish = "none" THEN 1 ELSE 0)
  BY <1>2, ProgressNow
<1>4. Progress([said |-> pending', ask |-> 0, last |-> last'])
        = IF pending' # None THEN 3 * pending'.id - 2
          ELSE IF last' = None THEN 0
          ELSE 3 * last'.id - (IF last'.publish = "none" THEN 1 ELSE 0)
  BY <1>2, ProgressNow
<1>5. Progress(Now)' = Progress([said |-> pending', ask |-> 0, last |-> last'])
  BY DEF Now, Progress, AtGate
<1>6. QED
  BY <1>2, <1>3, <1>4, <1>5 DEF Now

\* No step of the hub falls behind an answer.
LEMMA HubStaysAhead ==
  ASSUME IInv, [Next]_vars, NEW c \in Answers, c.last # None,
         pending # None => c.last.id < opened,
         last # None => /\ Progress(c) <= Progress(Now)
                        /\ InOrder(c, Now) /\ InOrder(Now, c)
  PROVE  /\ pending' # None => c.last.id < opened'
         /\ last' # None => /\ Progress(c) <= Progress(Now)'
                            /\ c.last.id <= last'.id
                            /\ Progress(Now)' <= Progress(c) => last'.id <= c.last.id
<1>1. /\ opened \in Nat /\ (pending # None => pending.id = opened)
      /\ last # None => last.id \in 1 .. opened
  BY DEF IInv, HubInv, Outcomes
<1>2. /\ Progress(c) \in Nat /\ AtGate(c) \in 0 .. opened
      /\ AtGate(c) # 0 => Progress(c) = 3 * AtGate(c) - 2
      /\ c.last.id \in 1 .. opened
      /\ AtGate(c) = 0 => Progress(c) \in {3 * c.last.id - 1, 3 * c.last.id}
  BY AnswerBounds
<1>3. last # None => /\ Progress(c) <= Progress(Now) /\ c.last.id <= last.id
                     /\ Progress(Now) <= Progress(c) => last.id <= c.last.id
  BY DEF InOrder, Now
<1>4. CASE UNCHANGED <<hubVars, opened>>
  BY <1>1, <1>2, <1>3, <1>4, ProgressOfHub DEF hubVars
<1>5. CASE OpenRequest
  <2>1. pending' # None /\ opened' = opened + 1 /\ last' = last
    <3>1. pending' = [id |-> opened', left |-> AttemptsInit] /\ opened' \in Ids
          /\ opened' = opened + 1 /\ last' = last
      BY <1>5 DEF OpenRequest, Register
    <3>2. pending' \in Received
      BY <3>1 DEF Received
    <3>3. QED
      BY <3>1, <3>2
  <2>2. Progress(Now)' = 3 * opened + 1
    BY <1>1, <2>1, ProgressOfHub
  <2>3. QED
    BY <1>1, <1>2, <1>3, <2>1, <2>2
<1>6. CASE Decision
  <2>1. pending # None /\ pending' = None /\ last'.id = opened /\ last'.publish = "none"
        /\ opened' = opened
    BY <1>1, <1>6 DEF Decision, Decide
  <2>2. last' # None => Progress(Now)' = 3 * opened - 1
    BY <1>1, <2>1, ProgressOfHub
  <2>3. Progress(c) < 3 * opened - 1
    BY <1>1, <1>2, <2>1
  <2>4. QED
    BY <1>1, <1>2, <2>1, <2>2, <2>3
<1>7. CASE Mistyped /\ UNCHANGED opened
  <2>1. pending # None /\ last' = last /\ opened' = opened
    BY <1>7 DEF Mistyped
  <2>2. pending' # None
    <3>1. pending \in Received /\ pending' = [pending EXCEPT !.left = @ - 1] /\ pending.left > 1
      BY <1>7, <2>1 DEF Mistyped, IInv, HubInv, Views, Received
    <3>2. pending' \in Received
      BY <3>1 DEF Received
    <3>3. QED
      BY <3>2
  <2>3. QED
    BY <1>1, <1>2, <1>3, <2>1, <2>2, ProgressOfHub
<1>8. CASE Published
  <2>1. pending' = pending /\ opened' = opened /\ last # None /\ last'.id = last.id
        /\ last'.publish = "ok"
    BY <1>8 DEF Published, ReportOutcome, IInv, HubInv, Outcomes
  <2>2. Progress(Now) \in Int /\ (last' # None => Progress(Now)' \in Int)
        /\ (last' # None => Progress(Now) <= Progress(Now)')
    BY <1>1, <2>1, ProgressOfHub
  <2>3. QED
    BY <1>1, <1>2, <1>3, <2>1, <2>2
<1>9. CASE pending' = None /\ last' = None /\ UNCHANGED opened
  BY <1>9
<1>10. QED
  BY <1>4, <1>5, <1>6, <1>7, <1>8, <1>9, HubMoves DEF HubMove

\* Every step keeps the hub ahead of the answers on their way.
LEMMA AnswerStep == ASSUME IInv, [Next]_vars PROVE AnswerInv'
<1> SUFFICES ASSUME NEW t \in Tabs, NEW ch \in Channels, At(t, ch, "answered")',
                    call'[t][ch].last # None
             PROVE  /\ pending' # None => call'[t][ch].last.id < opened'
                    /\ last' # None =>
                         /\ Progress(call[t][ch])' <= Progress(Now)'
                         /\ InOrder(call[t][ch], Now)' /\ InOrder(Now, call[t][ch])'
  BY DEF AnswerInv
<1> DEFINE c == call'[t][ch]
<1>1. Progress(call[t][ch])' = Progress(c)
  BY DEF Progress, AtGate
<1>2. /\ pending' # None => c.last.id < opened'
      /\ last' # None => /\ Progress(c) <= Progress(Now)'
                         /\ c.last.id <= last'.id
                         /\ Progress(Now)' <= Progress(c) => last'.id <= c.last.id
  <2>1. CASE At(t, ch, "answered") /\ c = call[t][ch]
    <3>1. c \in Answers
      BY <2>1, Answered
    <3>2. /\ pending # None => c.last.id < opened
          /\ last # None => /\ Progress(c) <= Progress(Now)
                            /\ InOrder(c, Now) /\ InOrder(Now, c)
      BY <2>1 DEF IInv, AnswerInv
    <3> HIDE DEF c
    <3>3. c.last # None
      BY DEF c
    <3>4. QED
      BY <3>1, <3>2, <3>3, HubStaysAhead
  <2>2. CASE /\ UNCHANGED <<hubVars, opened, serve>> /\ c.last = last
             /\ Progress(c) = Progress(Now)
    <3>1. Progress(Now)' = Progress(Now) /\ Progress(Now) \in Int
      BY <2>2, ProgressOfHub DEF hubVars, IInv, HubInv
    <3>2. pending' = pending /\ last' = last /\ opened' = opened
          /\ (pending # None => last.id < opened) /\ last.id \in Int
      BY <2>2 DEF hubVars, IInv, HubInv, Outcomes
    <3>3. QED
      BY <2>2, <3>1, <3>2
  <2>3. QED
    BY <2>1, <2>2, AnswerIsNow
<1>3. QED
  BY <1>1, <1>2 DEF InOrder, Now

\* Two answers on their way keep their order.
LEMMA PairsStep ==
  ASSUME IInv, [Next]_vars, NEW t \in Tabs, NEW ch \in Channels,
         NEW u \in Tabs, NEW dh \in Channels,
         At(t, ch, "answered")', At(u, dh, "answered")'
  PROVE  InOrder(call'[t][ch], call'[u][dh])
<1> DEFINE c == call'[t][ch]
           d == call'[u][dh]
<1>1. ASSUME NEW v \in Tabs, NEW eh \in Channels, At(v, eh, "answered"), last # None
      PROVE  call[v][eh].last # None =>
               /\ Progress(call[v][eh]) <= Progress(Now)
               /\ call[v][eh].last.id <= last.id
               /\ Progress(Now) <= Progress(call[v][eh]) => last.id <= call[v][eh].last.id
  BY <1>1 DEF IInv, AnswerInv, InOrder, Now
<1>2. CASE At(t, ch, "answered") /\ c = call[t][ch] /\ At(u, dh, "answered") /\ d = call[u][dh]
  BY <1>2 DEF IInv, OrderInv
<1>3. CASE /\ UNCHANGED <<hubVars, opened, serve>> /\ c.last = last
           /\ Progress(c) = Progress(Now)
           /\ \A v \in Tabs, eh \in Channels : v # t \/ eh # ch => call'[v][eh] = call[v][eh]
  <2>1. CASE u = t /\ dh = ch
    <3>1. last # None => last.id \in Int
      BY DEF IInv, HubInv, Outcomes
    <3>2. QED
      BY <1>3, <2>1, <3>1 DEF InOrder
  <2>2. CASE u # t \/ dh # ch
    <3>1. At(u, dh, "answered") /\ d = call[u][dh]
      BY <1>3, <2>2 DEF At
    <3>2. QED
      BY <1>1, <1>3, <3>1 DEF InOrder
  <2>3. QED
    BY <2>1, <2>2
<1>4. CASE /\ UNCHANGED <<hubVars, opened, serve>> /\ d.last = last
           /\ Progress(d) = Progress(Now)
           /\ \A v \in Tabs, eh \in Channels : v # u \/ eh # dh => call'[v][eh] = call[v][eh]
  <2>1. CASE u = t /\ dh = ch
    <3>1. last # None => last.id \in Int
      BY DEF IInv, HubInv, Outcomes
    <3>2. QED
      BY <1>4, <2>1, <3>1 DEF InOrder
  <2>2. CASE u # t \/ dh # ch
    <3>1. At(t, ch, "answered") /\ c = call[t][ch]
      BY <1>4, <2>2 DEF At
    <3>2. QED
      BY <1>1, <1>4, <3>1 DEF InOrder
  <2>3. QED
    BY <2>1, <2>2
<1>5. QED
  BY <1>2, <1>3, <1>4, AnswerIsNow

\* The step records an answer, forgets everything, or leaves the history alone.
LEMMA HistoryMoves ==
  ASSUME IInv, [Next]_vars
  PROVE  \/ UNCHANGED <<history, recorded, overtaken>>
         \/ history' = <<>>
         \/ \E t \in Tabs, ch \in Channels : Relay(t, ch)
<1>1. ASSUME NEW t \in Tabs, NEW ch \in Channels,
             \/ Answer(t, ch) \/ AskAgain(t, ch) \/ Unreachable(t, ch)
             \/ OpenPage(t) \/ Poll(t) \/ Show(t) \/ GiveUp(t, ch) \/ Deliver(t, ch)
             \/ PollAfterClick(t, ch) \/ EndClick(t, ch)
             \/ \E op \in PostOps : Click(t, ch, op)
      PROVE  UNCHANGED <<history, recorded, overtaken>>
  BY <1>1 DEF Answer, AskAgain, Unreachable, OpenPage, Poll, Show, GiveUp, Deliver,
     PollAfterClick, EndClick, Click, serve
<1>2. ASSUME Broker \/ BrokerRestarts \/ (\E p \in stray : DeliverLate(p))
      PROVE  UNCHANGED <<history, recorded, overtaken>>
  BY <1>2 DEF Broker, OpenRequest, DecidedElsewhere, MistypedElsewhere, Published,
     BrokerRestarts, DeliverLate, serve
<1>3. ASSUME ServeUp \/ ServeRestarted \/ ServeDown PROVE history' = <<>>
  BY <1>3 DEF ServeUp, ServeRestarted, ServeDown, Restart
<1>4. QED
  BY <1>1, <1>2, <1>3
  DEF Next, vars, serve, Fault, Polling, Clicking, Serving, Channels, PostOps

\* What a step that records an answer does to the history.
LEMMA Recording ==
  ASSUME IInv, [Next]_vars, NEW t \in Tabs, NEW ch \in Channels, Relay(t, ch)
  PROVE  LET c == call[t][ch] IN
         /\ c \in Answers /\ At(t, ch, "answered") /\ ~At(t, ch, "answered")'
         /\ UNCHANGED <<hubVars, opened>>
         /\ recorded <= recorded' /\ Progress(c) <= recorded' /\ recorded' \in Nat
         /\ overtaken => overtaken'
         /\ c.last = None => history' = history
         /\ c.last # None =>
              /\ history' = RecordOutcome(c.last)
              /\ ~overtaken' => recorded <= Progress(c) /\ recorded' = Progress(c)
<1>1. call[t][ch] \in Answers /\ At(t, ch, "answered")
  BY Answered DEF Relay
<1>2. Progress(call[t][ch]) \in Nat /\ recorded \in Nat
      /\ (call[t][ch].last # None => 1 <= Progress(call[t][ch]))
  BY <1>1, AnswerBounds DEF IInv, CacheInv
<1>3. ~At(t, ch, "answered")'
  <2>1. call \in [Tabs -> [Channels -> Calls \cup {None}]]
    BY DEF IInv, CallInv
  <2>2. \E said, out : Goes(t, ch, [stage |-> "relayed", connected |-> TRUE, said |-> said,
                                   last |-> out])
    BY DEF Relay
  <2>3. call'[t][ch].stage = "relayed"
    BY <2>1, <2>2 DEF Goes
  <2>4. QED
    BY <2>3 DEF At
<1>4. /\ history' = IF call[t][ch].last = None THEN history ELSE RecordOutcome(call[t][ch].last)
      /\ overtaken' = (overtaken \/ Progress(call[t][ch]) \in 1 .. recorded - 1)
      /\ recorded' = IF Progress(call[t][ch]) > recorded THEN Progress(call[t][ch]) ELSE recorded
      /\ UNCHANGED <<hubVars, opened>>
  BY DEF Relay
<1> DEFINE c == call[t][ch]
           n == Progress(c)
<1>5. /\ n \in Nat /\ recorded \in Nat /\ (c.last # None => 1 <= n)
      /\ overtaken' = (overtaken \/ n \in 1 .. recorded - 1)
      /\ recorded' = IF n > recorded THEN n ELSE recorded
  BY <1>2, <1>4
<1> HIDE DEF n
<1>6. /\ recorded <= recorded' /\ n <= recorded' /\ recorded' \in Nat
      /\ c.last # None /\ ~overtaken' => recorded <= n /\ recorded' = n
      /\ overtaken => overtaken'
  <2>1. (overtaken => overtaken') /\ (~overtaken' => n \notin 1 .. recorded - 1)
    BY <1>5, Zenon
  <2> HIDE DEF c
  <2>2. c.last # None /\ ~overtaken' => recorded <= n /\ recorded' = n
    BY <1>5, <2>1
  <2>3. recorded <= recorded' /\ n <= recorded' /\ recorded' \in Nat
    BY <1>5
  <2>4. QED
    BY <2>1, <2>2, <2>3
<1>7. QED
  BY <1>1, <1>3, <1>4, <1>6 DEF n

\* The top of the history is of the hub's last outcome or an older one, and of
\* nothing newer than the answers to come.
LEMMA TopStep ==
  ASSUME IInv, [Next]_vars, history' # <<>>
  PROVE  /\ last' # None => history'[1].id <= last'.id
         /\ \A t \in Tabs, ch \in Channels :
              /\ ~overtaken' /\ At(t, ch, "answered")' /\ call'[t][ch].last # None
              /\ recorded' <= Progress(call'[t][ch])
              => history'[1].id <= call'[t][ch].last.id
<1>0. /\ OrderInv /\ AnswerInv /\ HubInv /\ opened \in Nat
      /\ history \in Seq(Outcomes) /\ Len(history) <= HistoryLimit /\ recorded \in Nat
  BY DEF IInv, HubInv, CacheInv
<1>1. history # <<>> => history[1].id \in 1 .. opened
  <2>1. history # <<>> => history[1] \in Outcomes
    BY <1>0
  <2>2. QED
    BY <2>1 DEF Outcomes
<1>2. CASE UNCHANGED <<history, recorded, overtaken>>
  <2>1. last' # None => history'[1].id <= last'.id
    <3>1. last # None => history[1].id <= last.id /\ last.id \in 1 .. opened
      BY <1>0, <1>2 DEF OrderInv, HubInv, Outcomes
    <3>2. \/ last' = last \/ last' = None
          \/ pending # None /\ last'.id = pending.id
          \/ last # None /\ last'.id = last.id
      BY <1>0, HubMoves DEF HubMove, hubVars, OpenRequest, Register, Decision, Decide,
         Mistyped, Published, ReportOutcome, HubInv, Outcomes
    <3>3. pending # None => pending.id = opened
      BY <1>0 DEF HubInv
    <3>4. QED
      BY <1>0, <1>1, <1>2, <3>1, <3>2, <3>3
  <2>2. ASSUME NEW t \in Tabs, NEW ch \in Channels, ~overtaken',
               At(t, ch, "answered")', call'[t][ch].last # None,
               recorded' <= Progress(call'[t][ch])
        PROVE  history'[1].id <= call'[t][ch].last.id
    <3>1. CASE At(t, ch, "answered") /\ call'[t][ch] = call[t][ch]
      BY <1>0, <1>2, <2>2, <3>1 DEF OrderInv
    <3>2. CASE call'[t][ch].last = last
      BY <1>0, <1>2, <2>2, <3>2 DEF OrderInv
    <3>3. QED
      BY <2>2, <3>1, <3>2, AnswerIsNow
  <2>3. QED
    BY <2>1, <2>2
<1>3. ASSUME NEW t \in Tabs, NEW ch \in Channels, Relay(t, ch)
      PROVE  /\ last' # None => history'[1].id <= last'.id
             /\ \A u \in Tabs, dh \in Channels :
                  /\ ~overtaken' /\ At(u, dh, "answered")' /\ call'[u][dh].last # None
                  /\ recorded' <= Progress(call'[u][dh])
                  => history'[1].id <= call'[u][dh].last.id
  <2> DEFINE c == call[t][ch]
  <2>1. /\ c \in Answers /\ At(t, ch, "answered") /\ ~At(t, ch, "answered")'
        /\ UNCHANGED <<hubVars, opened>>
        /\ recorded <= recorded' /\ Progress(c) <= recorded' /\ recorded' \in Nat
        /\ overtaken => overtaken'
        /\ c.last = None => history' = history
        /\ c.last # None =>
             /\ history' = RecordOutcome(c.last)
             /\ ~overtaken' => recorded <= Progress(c) /\ recorded' = Progress(c)
    BY <1>3, Recording
  <2>2. ASSUME NEW u \in Tabs, NEW dh \in Channels, At(u, dh, "answered")'
        PROVE  At(u, dh, "answered") /\ call'[u][dh] = call[u][dh]
    <3>1. u # t \/ dh # ch
      BY <2>1, <2>2
    <3>2. call'[u][dh] = call[u][dh]
      <4>1. call \in [Tabs -> [Channels -> Calls \cup {None}]]
        BY DEF IInv, CallInv
      <4>2. \E next : Goes(t, ch, next)
        BY <1>3 DEF Relay
      <4>3. QED
        BY <3>1, <4>1, <4>2 DEF Goes
    <3>3. QED
      BY <2>2, <3>2 DEF At
  <2>3. CASE c.last = None
    <3>1. last' = last /\ history' = history
      BY <2>1, <2>3 DEF hubVars
    <3>2. ASSUME NEW u \in Tabs, NEW dh \in Channels, ~overtaken',
                 At(u, dh, "answered")', call'[u][dh].last # None,
                 recorded' <= Progress(call'[u][dh])
          PROVE  history'[1].id <= call'[u][dh].last.id
      <4>1. At(u, dh, "answered") /\ call'[u][dh] = call[u][dh]
        BY <2>2, <3>2
      <4>2. call[u][dh] \in Answers
        BY <4>1, Answered
      <4>3. Progress(call[u][dh]) \in Nat
        BY <4>2, AnswerBounds
      <4>4. recorded <= Progress(call[u][dh]) /\ ~overtaken
        BY <1>0, <2>1, <3>2, <4>1, <4>3
      <4>5. QED
        BY <1>0, <3>1, <3>2, <4>1, <4>4 DEF OrderInv
    <3>3. QED
      BY <1>0, <3>1, <3>2 DEF OrderInv
  <2>4. CASE c.last # None
    <3>1. c.last \in Outcomes
      BY <2>1, <2>4 DEF Answers
    <3>2. history'[1] = c.last
      BY <1>0, <2>1, <2>4, <3>1, RecordOutcomeType
    <3>3. last' # None => c.last.id <= last'.id
      BY <1>0, <2>1, <2>4 DEF AnswerInv, InOrder, Now, hubVars
    <3>4. ASSUME NEW u \in Tabs, NEW dh \in Channels, ~overtaken',
                 At(u, dh, "answered")', call'[u][dh].last # None,
                 recorded' <= Progress(call'[u][dh])
          PROVE  c.last.id <= call'[u][dh].last.id
      <4>1. At(u, dh, "answered") /\ call'[u][dh] = call[u][dh]
        BY <2>2, <3>4
      <4>2. InOrder(c, call[u][dh])
        BY <1>0, <2>1, <4>1 DEF OrderInv
      <4>3. Progress(c) <= Progress(call[u][dh])
        BY <2>1, <2>4, <3>4, <4>1
      <4>4. QED
        BY <2>4, <3>4, <4>1, <4>2, <4>3 DEF InOrder
    <3>5. QED
      BY <3>2, <3>3, <3>4
  <2>5. QED
    BY <2>3, <2>4
<1>4. QED
  BY <1>2, <1>3, HistoryMoves

\* The history stays in order, unless answers overtook each other.
LEMMA HistoryStep == ASSUME IInv, [Next]_vars PROVE HistoryFollowsTheBroker'
<1>0. /\ HistoryFollowsTheBroker /\ OrderInv /\ recorded \in Nat
      /\ history \in Seq(Outcomes) /\ Len(history) <= HistoryLimit
  BY DEF IInv, CacheInv
<1> SUFFICES ASSUME ~overtaken', NEW i \in 1 .. Len(history'), NEW j \in 1 .. Len(history'),
                    i < j
             PROVE  history'[i].id > history'[j].id
  BY DEF HistoryFollowsTheBroker
<1>1. CASE UNCHANGED <<history, recorded, overtaken>>
  BY <1>0, <1>1 DEF HistoryFollowsTheBroker
<1>2. CASE history' = <<>>
  BY <1>2
<1>3. ASSUME NEW t \in Tabs, NEW ch \in Channels, Relay(t, ch)
      PROVE  history'[i].id > history'[j].id
  <2> DEFINE c == call[t][ch]
  <2>1. /\ c \in Answers /\ At(t, ch, "answered")
        /\ overtaken => overtaken'
        /\ c.last = None => history' = history
        /\ c.last # None => history' = RecordOutcome(c.last) /\ recorded <= Progress(c)
    BY <1>3, Recording
  <2>2. ~overtaken
    BY <2>1
  <2>3. CASE c.last = None
    BY <1>0, <2>1, <2>2, <2>3 DEF HistoryFollowsTheBroker
  <2>4. CASE c.last # None
    <3>1. c.last \in Outcomes
      BY <2>1, <2>4 DEF Answers
    <3>2. history # <<>> => history[1].id <= c.last.id
      BY <1>0, <2>1, <2>2, <2>4 DEF OrderInv
    <3>3. /\ history' \in Seq(Outcomes) /\ history'[1] = c.last
          /\ \A k \in 2 .. Len(history') :
               IF history # <<>> /\ history[1].id = c.last.id
               THEN k \in 1 .. Len(history) /\ history'[k] = history[k]
               ELSE k - 1 \in 1 .. Len(history) /\ history'[k] = history[k - 1]
      BY <1>0, <2>1, <2>4, <3>1, RecordOutcomeType
    <3>4. \A k, l \in 1 .. Len(history) : k < l => history[k].id > history[l].id
      BY <1>0, <2>2 DEF HistoryFollowsTheBroker
    <3>5. /\ Len(history) \in Nat /\ \A k \in 1 .. Len(history) : history[k].id \in Int
          /\ c.last.id \in Int /\ Len(history') \in Nat
      <4>1. \A k \in 1 .. Len(history) : history[k] \in Outcomes
        BY <1>0
      <4>2. QED
        BY <1>0, <3>1, <3>3, <4>1 DEF Outcomes
    <3> HIDE DEF c
    <3>6. CASE history # <<>> /\ history[1].id = c.last.id
      <4>1. CASE i = 1
        BY <3>3, <3>4, <3>5, <3>6, <4>1
      <4>2. CASE i # 1
        BY <3>3, <3>4, <3>5, <3>6, <4>2
      <4>3. QED
        BY <4>1, <4>2
    <3>7. CASE ~(history # <<>> /\ history[1].id = c.last.id)
      <4>1. j - 1 \in 1 .. Len(history) /\ history'[j] = history[j - 1]
        BY <3>3, <3>5, <3>7
      <4>2. history # <<>> /\ history[1].id < c.last.id
        BY <3>2, <3>5, <3>7, <4>1
      <4>3. CASE i = 1
        <5>1. history[j - 1].id <= history[1].id
          BY <3>4, <3>5, <4>1
        <5>2. QED
          BY <3>3, <3>5, <4>1, <4>2, <4>3, <5>1
      <4>4. CASE i # 1
        <5>1. i - 1 \in 1 .. Len(history) /\ history'[i] = history[i - 1]
          BY <3>3, <3>5, <3>7, <4>4
        <5>2. i - 1 < j - 1
          BY <3>5
        <5>3. history[i - 1].id > history[j - 1].id
          BY <3>4, <4>1, <5>1, <5>2
        <5>4. QED
          BY <4>1, <5>1, <5>3
      <4>5. QED
        BY <4>3, <4>4
    <3>8. QED
      BY <3>6, <3>7
  <2>5. QED
    BY <2>3, <2>4
<1>4. QED
  BY <1>1, <1>2, <1>3, HistoryMoves

-----------------------------------------------------------------------------
\* serve and the broker begin with nothing.
LEMMA InitIInv == Init => IInv
<1> SUFFICES ASSUME Init PROVE IInv
  OBVIOUS
<1>1. HubInv /\ ClickInv
  BY DEF Init, HubInit, HubInv, ClickInv, At
<1>2. CacheInv
  <2>1. <<>> \in Seq(Views) /\ <<>> \in Seq(Outcomes) /\ Len(<<>>) = 0
    OBVIOUS
  <2>2. cache = <<>> /\ history = <<>> /\ session = 1 /\ cookie = 0 /\ faults = 0
        /\ recorded = 0 /\ overtaken = FALSE
    BY DEF Init
  <2>3. Len(cache) <= CacheLimit /\ Len(history) <= HistoryLimit
    BY <2>2
  <2>4. {session, cookie} \subseteq 0 .. MaxFaults + 1 /\ faults \in 0 .. MaxFaults
    BY <2>2
  <2>5. QED
    BY <2>1, <2>2, <2>3, <2>4 DEF CacheInv
<1>3. CallInv
  BY DEF Init, CallInv, At
<1>4. AnswerInv /\ OrderInv /\ HistoryFollowsTheBroker
  BY DEF Init, AnswerInv, OrderInv, HistoryFollowsTheBroker, At
<1>5. QED
  BY <1>1, <1>2, <1>3, <1>4 DEF IInv

\* Every step keeps every part of the invariant.
LEMMA NextIInv == IInv /\ [Next]_vars => IInv'
<1> SUFFICES ASSUME IInv, [Next]_vars PROVE IInv'
  OBVIOUS
<1>1. HubInv' /\ CacheInv' /\ CallInv' /\ ClickInv'
  BY HubStep, CacheStep, CallStep, ClickStep
<1>2. ASSUME history' # <<>>
      PROVE  /\ last' # None => history'[1].id <= last'.id
             /\ \A t \in Tabs, ch \in Channels :
                  /\ ~overtaken' /\ At(t, ch, "answered")' /\ call'[t][ch].last # None
                  /\ recorded' <= Progress(call'[t][ch])
                  => history'[1].id <= call'[t][ch].last.id
  BY <1>2, TopStep
<1>3. \A t, u \in Tabs, ch, dh \in Channels :
        At(t, ch, "answered")' /\ At(u, dh, "answered")' => InOrder(call'[t][ch], call'[u][dh])
  BY PairsStep
<1>4. OrderInv'
  BY <1>2, <1>3 DEF OrderInv, InOrder, Progress, AtGate
<1>5. QED
  BY <1>1, <1>4, AnswerStep, HistoryStep DEF IInv

\* The inductive invariant holds in every reachable state.
THEOREM Invariance == Spec => []IInv
  BY InitIInv, NextIInv, PTL DEF Spec

\* broker-client.ts, recordOutcome: the history has every outcome once, the newest
\* first, unless an answer was recorded after a later one.
THEOREM HistoryInOrder == Spec => []HistoryFollowsTheBroker
<1>1. IInv => HistoryFollowsTheBroker
  BY DEF IInv
<1>2. QED
  BY <1>1, Invariance, PTL

\* broker-client.ts: the cache and the history keep to their limits, and every
\* variable to its type.
THEOREM TypeCorrect == Spec => []TypeOK
<1>1. IInv => TypeOK
  <2> SUFFICES ASSUME IInv PROVE TypeOK
    OBVIOUS
  <2>0. HubInv /\ CacheInv /\ CallInv /\ 1 .. opened \subseteq Ids /\ 0 .. opened \subseteq Ids \cup {0}
    BY DEF IInv, HubInv
  <2>1. Views \subseteq Received
    BY <2>0 DEF Views, Received
  <2>2. Outcomes \cup {None} \subseteq Outcome
    BY <2>0 DEF Outcomes, Outcome
  <2>3. Calls \subseteq Call
    <3>1. Answers \subseteq Call
      BY <2>0, <2>1, <2>2 DEF Answers, Call
    <3>2. Posts \subseteq Call
      BY <2>0 DEF Posts, Call
    <3>3. QED
      BY <2>0, <2>1, <2>2, <3>1, <3>2 DEF Calls, Call
  <2>4. /\ \A t \in Tabs, ch \in Channels : call[t][ch] \in Call \cup {None}
        /\ \A t \in Tabs :
             tab[t] = None \/ (tab[t].pending \in Received \cup {None} /\ tab[t].last \in Outcome)
    <3>1. \A t \in Tabs : tab[t] = None \/ tab[t] \in PageStates
      BY <2>0 DEF CallInv
    <3>2. \A t \in Tabs, ch \in Channels : call[t][ch] \in Calls \cup {None}
      BY <2>0 DEF CallInv
    <3>3. \A page \in PageStates : page.pending \in Received \cup {None} /\ page.last \in Outcome
      BY <2>1, <2>2 DEF PageStates
    <3>4. \A t \in Tabs, ch \in Channels : call[t][ch] \in Call \cup {None}
      BY <2>3, <3>2
    <3>5. \A t \in Tabs :
            tab[t] = None \/ (tab[t].pending \in Received \cup {None} /\ tab[t].last \in Outcome)
      BY <3>1, <3>3
    <3>6. QED
      BY <3>4, <3>5
  <2>5. \A i \in 1 .. Len(cache) : cache[i] \in Received
    BY <2>0, <2>1 DEF CacheInv
  <2>6. QED
    BY <2>0, <2>1, <2>2, <2>4, <2>5 DEF TypeOK, HubInv, CacheInv
<1>2. QED
  BY <1>1, Invariance, PTL

-----------------------------------------------------------------------------
(* What a step may never do.                                               *)

\* Who decides, and about what.
LEMMA WhoDecides ==
  ASSUME IInv, [Next]_vars, last' # None, last' # last
  PROVE  \/ last # None /\ last'.id = last.id /\ last'.decision = last.decision
         \/ /\ (last # None => last'.id # last.id)
            /\ PostTaken => last'.id = opened /\ last'.decision \in clicked
<1>0. HubInv /\ ClickInv /\ opened \in Nat
  BY DEF IInv, HubInv
<1>1. ASSUME Decision
      PROVE  last'.id = opened /\ (last # None => last'.id # last.id)
  BY <1>0, <1>1 DEF Decision, Decide, HubInv, Outcomes
<1>2. CASE DecidedElsewhere \/ MistypedElsewhere \/ OpenRequest
  <2>1. Decision \/ UNCHANGED last
    BY <1>2 DEF DecidedElsewhere, MistypedElsewhere, OpenRequest, Register, Mistyped,
       Decision, Decisions, Decide
  <2>2. UNCHANGED <<call, stray>>
    BY <1>2 DEF DecidedElsewhere, MistypedElsewhere, OpenRequest, pages, fates
  <2>3. ~PostTaken
    BY <2>2 DEF PostTaken, At
  <2>4. QED
    BY <1>1, <2>1, <2>3
<1>3. CASE Published
  BY <1>0, <1>3 DEF Published, ReportOutcome, HubInv, Outcomes
<1>4. ASSUME NEW t \in Tabs, NEW ch \in Clicks, Deliver(t, ch)
      PROVE  last'.id = opened /\ (last # None => last'.id # last.id)
             /\ last'.decision \in clicked
  <2>1. /\ At(t, ch, "posted") /\ Submit(call[t][ch].op, call[t][ch].id) /\ UNCHANGED opened
        /\ ch \in Channels
    BY <1>4 DEF Deliver, Channels
  <2>2. call[t][ch].op \in Decisions
    BY <2>1 DEF IInv, CallInv, At, Calls, Posts, Answers
  <2>3. Decision /\ pending.id = call[t][ch].id /\ last'.decision = call[t][ch].op
    BY <2>1, <2>2, SubmitDecides DEF hubVars, Decide
  <2>4. call[t][ch].id = opened
    BY <1>0, <2>3 DEF HubInv, Decision
  <2>5. QED
    BY <1>0, <1>1, <2>1, <2>3, <2>4 DEF ClickInv
<1>5. ASSUME NEW p \in stray, DeliverLate(p)
      PROVE  last'.id = opened /\ (last # None => last'.id # last.id)
             /\ last'.decision \in clicked
  <2>1. p.op \in Decisions /\ Submit(p.op, p.id) /\ UNCHANGED opened
    BY <1>0, <1>5 DEF ClickInv, DeliverLate
  <2>2. Decision /\ pending.id = p.id /\ last'.decision = p.op
    BY <2>1, SubmitDecides DEF hubVars, Decide
  <2>3. p.id = opened
    BY <1>0, <2>2 DEF HubInv, Decision
  <2>4. QED
    BY <1>0, <1>1, <1>5, <2>2, <2>3 DEF ClickInv
<1>6. ASSUME NEW t \in Tabs, NEW ch \in Channels,
             \/ Answer(t, ch) \/ AskAgain(t, ch) \/ Relay(t, ch) \/ Unreachable(t, ch)
             \/ OpenPage(t) \/ Poll(t) \/ Show(t) \/ GiveUp(t, ch)
             \/ PollAfterClick(t, ch) \/ EndClick(t, ch)
             \/ \E op \in PostOps : Click(t, ch, op)
      PROVE  FALSE
  BY <1>6 DEF Answer, AskAgain, Relay, Unreachable, OpenPage, Poll, Show, GiveUp,
     PollAfterClick, EndClick, Click, hubVars
<1>7. ~BrokerRestarts /\ ~ServeUp /\ ~ServeRestarted /\ ~ServeDown
  BY DEF BrokerRestarts, ServeUp, ServeRestarted, ServeDown, Restart, hubVars
<1>8. QED
  BY <1>2, <1>3, <1>4, <1>5, <1>6, <1>7
  DEF Next, vars, hubVars, Broker, Fault, Polling, Clicking, Serving, Channels, PostOps

\* gate.ts, "First decision wins": a request is decided once; and a browser decides
\* only the request that a human saw when clicking, as was clicked.
THEOREM ClicksDecideWhatTheyShow == Spec => DecidedAsClicked
<1>1. IInv /\ [Next]_vars =>
        [last' # None /\ last' # last =>
           IF last # None /\ last'.id = last.id THEN last'.decision = last.decision
           ELSE PostTaken => last'.id = opened /\ last'.decision \in clicked]_vars
  BY WhoDecides
<1>2. QED
  BY <1>1, Invariance, PTL DEF Spec, DecidedAsClicked

\* What serve relays is what the broker has just said.
LEMMA RelaysTruth ==
  ASSUME IInv, NEW t \in Tabs, NEW ch \in Channels, Relay(t, ch)
  PROVE  LET c == call[t][ch]
             out == call'[t][ch].said
         IN IF out = Unchanged THEN AtGate(c) # 0 /\ AtGate(c) = c.known ELSE out = c.said
<1> DEFINE c == call[t][ch]
           expanded == IF c.said = Unchanged
                       THEN cache[CHOOSE i \in 1 .. Len(cache) : cache[i].id = c.ask]
                       ELSE c.said
           out == IF expanded # None /\ expanded.id = c.known THEN Unchanged ELSE expanded
<1>1. c \in Answers /\ c.ask \in {0, c.known}
  BY Answered DEF Relay
<1>2. call'[t][ch].said = out
  <2>1. call \in [Tabs -> [Channels -> Calls \cup {None}]]
    BY DEF IInv, CallInv
  <2>2. Goes(t, ch, [stage |-> "relayed", connected |-> TRUE, said |-> out, last |-> c.last])
    BY DEF Relay
  <2>3. call'[t][ch] = [stage |-> "relayed", connected |-> TRUE, said |-> out, last |-> c.last]
    BY <2>1, <2>2 DEF Goes
  <2> HIDE DEF out
  <2>4. QED
    BY <2>3
<1>3. Views \subseteq Received
  BY DEF IInv, HubInv, Views, Received
<1>4. CASE c.said = Unchanged
  <2>1. \E i \in 1 .. Len(cache) : cache[i].id = c.ask
    BY <1>4 DEF Relay, CachedIds
  <2>2. expanded \in Views /\ expanded.id = c.ask
    BY <1>4, <2>1 DEF IInv, CacheInv
  <2>3. c.ask # 0 /\ expanded # None
    BY <1>3, <2>2 DEF Views
  <2>4. c.ask = c.known
    BY <1>1, <2>3
  <2>5. out = Unchanged
    <3> HIDE DEF expanded
    <3>1. QED
      BY <2>2, <2>3, <2>4
  <2>6. AtGate(c) = c.ask
    BY <1>4 DEF AtGate
  <2>7. QED
    BY <1>2, <2>3, <2>4, <2>5, <2>6
<1>5. CASE c.said # Unchanged
  <2>1. expanded = c.said /\ c.said \in Views \cup {None}
    BY <1>1, <1>5 DEF Answers
  <2>2. CASE c.said # None /\ c.said.id = c.known
    <3>1. out = Unchanged
      BY <2>1, <2>2
    <3>2. AtGate(c) = c.said.id /\ c.said.id # 0
      BY <1>5, <2>1, <2>2 DEF AtGate, Views
    <3>3. QED
      BY <1>2, <2>2, <3>1, <3>2
  <2>3. CASE ~(c.said # None /\ c.said.id = c.known)
    <3>1. out = c.said
      BY <2>1, <2>3
    <3>2. QED
      BY <1>2, <1>5, <3>1
  <2>4. QED
    BY <2>2, <2>3
<1>6. QED
  BY <1>4, <1>5

\* routes.ts and broker-client.ts: "unchanged" is said only of what the page shows
\* and the broker has at the gate, and a view that is sent is the broker's answer.
THEOREM RelaysAreTrue == Spec => RelayIsTrue
<1>1. ASSUME IInv, [Next]_vars, NEW t \in Tabs, NEW ch \in Channels,
             At(t, ch, "answered"), At(t, ch, "relayed")', call'[t][ch].connected
      PROVE  Relay(t, ch)
  <2>1. call'[t][ch] # call[t][ch]
    BY <1>1 DEF At
  <2>2. ~Answer(t, ch) /\ \A op \in PostOps : ~Click(t, ch, op)
    BY <1>1 DEF Answer, Click, At
  <2>3. QED
    BY <1>1, <2>1, <2>2, Moves DEF Moved
<1>2. IInv /\ [Next]_vars =>
        [\A t \in Tabs, ch \in Channels :
           At(t, ch, "answered") /\ At(t, ch, "relayed")' /\ call'[t][ch].connected =>
             LET c == call[t][ch]
                 out == call'[t][ch].said
             IN IF out = Unchanged THEN AtGate(c) # 0 /\ AtGate(c) = c.known
                ELSE out = c.said]_vars
  BY <1>1, RelaysTruth
<1>3. QED
  BY <1>2, Invariance, PTL DEF Spec, RelayIsTrue
=============================================================================

-------------------------------- MODULE Serve --------------------------------
(***************************************************************************)
(* mrw serve: the pages in the browser (assets/app.js), serve with its     *)
(* cache and its history (routes.ts, broker-client.ts), and the approval   *)
(* socket (approval-server.ts), in front of the broker's ApprovalHub.      *)
(*                                                                         *)
(* A page polls, and asks only for what it does not show yet: the broker   *)
(* answers "unchanged" to serve, and serve to the page.  Nothing orders    *)
(* the polls of one page, of several pages, and the poll that follows a    *)
(* click, and any answer may be lost or come late.                         *)
(*                                                                         *)
(* Auxiliary state, read by no guard: recorded, overtaken and clicked.     *)
(***************************************************************************)
EXTENDS ApprovalHub, Sequences

CONSTANTS
  Tabs,          \* the pages a browser opens
  Clicks,        \* bound: the clicks of a page that are being handled at once
  Unchanged,     \* "unchanged", on the wire
  CacheLimit,    \* PENDING_CACHE_LIMIT
  HistoryLimit,  \* HISTORY_LIMIT
  MaxFaults      \* bound: calls lost, restarts, other clients' mistakes

\* A request as the approval socket shows it.
Received == [id : Ids, left : 1 .. AttemptsInit]

ASSUME ServeAssumption ==
  /\ Ids \subseteq Nat \ {0}
  /\ CacheLimit \in Nat \ {0}
  /\ HistoryLimit \in Nat \ {0}
  /\ MaxFaults \in Nat
  /\ None \notin Received /\ Unchanged \notin Received /\ Unchanged # None

VARIABLES
  opened,     \* the requests registered since the start, which are 1 .. opened
  session,    \* the session token of the running serve, or 0
  cookie,     \* the session token in the browser's cookie, or 0
  cache,      \* pendingCache: requests as last received, in order of insertion
  history,    \* the outcomes serve has observed, the newest first
  tab,        \* tab[t]: the state of a page, or None
  call,       \* call[t][ch]: the HTTP request of a page's poll loop or click
  stray,      \* posts that serve gave up on and the broker may yet read
  faults,     \* the faults so far
  recorded,   \* auxiliary: how far the hub was in the latest answer recorded
  overtaken,  \* auxiliary: an answer was recorded after a later one
  clicked     \* auxiliary: what was clicked on pages that showed the last request

serve  == <<session, cache, history, recorded, overtaken>>
pages  == <<cookie, tab, call, clicked>>
fates  == <<stray, faults>>
vars   == <<hubVars, opened, serve, pages, fates>>

Loop == "loop"

Channels == Clicks \cup {Loop}

Goes(t, ch, next) == call' = [call EXCEPT ![t][ch] = next]

At(t, ch, stage) == call[t][ch] # None /\ call[t][ch].stage = stage

-----------------------------------------------------------------------------
(* The broker, as the approval socket shows it.                            *)

\* ApprovalHub.status, called synchronously by approval-server.ts.
Status(known) ==
  IF pending # None /\ pending.id = known THEN Unchanged ELSE pending

\* Publish requests are handled one at a time: the last one is decided, and its
\* result reported, before the next is at the gate.  This is the one thing that
\* Serve takes for granted of the broker and that ApprovalHub does not promise: it
\* holds in Broker as long as the listener has not released its busy flag twice
\* (rereleased).
OpenRequest ==
  /\ pending = None
  /\ last # None /\ last.decision = "approved" => last.publish # "none"
  /\ opened + 1 \in Ids
  /\ opened' = opened + 1
  /\ Register(opened')
  /\ clicked' = {}
  /\ UNCHANGED <<serve, cookie, tab, call, fates>>

\* The terminal, the approval budget or the requester decides.  To serve a decline
\* at the terminal and a cancellation are two words for one thing.
DecidedElsewhere ==
  /\ pending # None
  /\ \E decision \in {"approved", "canceled"} : Decide(pending.id, decision)
  /\ UNCHANGED <<opened, serve, pages, fates>>

\* Another client of the approval socket submits another sha: a page enables its
\* button only for the sha it shows.
MistypedElsewhere ==
  /\ faults < MaxFaults
  /\ faults' = faults + 1
  /\ pending # None
  /\ IF pending.left > 1
     THEN Mistyped
     ELSE Decide(pending.id, "declined")
  /\ UNCHANGED <<opened, serve, pages, stray>>

\* The push ended; a failed one is told in other words.
Published ==
  /\ last # None /\ last.publish = "none"
  /\ ReportOutcome("ok")
  /\ UNCHANGED <<opened, serve, pages, fates>>

SubmitUnbound(op, id) ==
  IF pending # None
  THEN Decide(pending.id, op)
  ELSE UNCHANGED hubVars

\* submitApprove with the sha of request id, and submitDecline: "no_pending" and
\* "stale" change nothing.
Submit(op, id) ==
  IF pending # None /\ pending.id = id
  THEN Decide(id, op)
  ELSE UNCHANGED hubVars

-----------------------------------------------------------------------------
(* serve.                                                                  *)

CachedIds == {cache[i].id : i \in 1 .. Len(cache)}

\* cachePending: a Map keeps the place of a key that it has; a new key drops the
\* oldest when the cache is full.
CachePending(p) ==
  IF p.id \in CachedIds
  THEN [i \in 1 .. Len(cache) |-> IF cache[i].id = p.id THEN p ELSE cache[i]]
  ELSE Append(IF Len(cache) >= CacheLimit THEN Tail(cache) ELSE cache, p)

Newest(s) == SubSeq(s, 1, IF Len(s) > HistoryLimit THEN HistoryLimit ELSE Len(s))

RecordOutcomeAlwaysFirst(o) == Newest(<<o>> \o history)

\* recordOutcome: the same outcome as the newest entry refreshes that entry.  (The
\* title and the rest of the view are added from the cache when it has them.)
RecordOutcome(o) ==
  IF history # <<>> /\ history[1].id = o.id
  THEN [history EXCEPT ![1] = o]
  ELSE Newest(<<o>> \o history)

\* The session cookie, which every page of the browser sends, must be this
\* serve's; a POST also carries the CSRF token that the page was loaded with.
Authed == cookie = session

AuthedPost(t) == Authed /\ tab[t].csrf = session

\* What a page makes of any failure: a 403, no connection, an unreachable broker.
Disconnected ==
  [stage |-> "relayed", connected |-> FALSE, said |-> None, last |-> None]

\* The broker reads one line, and answers it.
Answer(t, ch) ==
  /\ At(t, ch, "asked")
  /\ Goes(t, ch, [stage |-> "answered", known |-> call[t][ch].known,
                  ask |-> call[t][ch].ask, said |-> Status(call[t][ch].ask),
                  last |-> last])
  /\ UNCHANGED <<hubVars, opened, serve, cookie, tab, clicked, fates>>

\* The request that was at the gate when the broker gave an answer, or 0.
AtGate(c) ==
  IF c.said = None THEN 0 ELSE IF c.said = Unchanged THEN c.ask ELSE c.said.id

\* How far the hub was: each request is at the gate, decided, and then published.
Progress(c) ==
  IF AtGate(c) # 0 THEN 3 * AtGate(c) - 2
  ELSE IF c.last = None THEN 0
  ELSE 3 * c.last.id - (IF c.last.publish = "none" THEN 1 ELSE 0)

\* serve has not got the view that the broker calls unchanged, because it has
\* been restarted: it asks for everything.
AskAgain(t, ch) ==
  /\ At(t, ch, "answered")
  /\ LET c == call[t][ch] IN
       /\ c.said = Unchanged
       /\ c.ask \notin CachedIds
       /\ Goes(t, ch, [stage |-> "asked", known |-> c.known, ask |-> 0])
  /\ UNCHANGED <<hubVars, opened, serve, cookie, tab, clicked, fates>>

RelayNewest(t, ch) ==
  /\ At(t, ch, "answered")
  /\ LET c == call[t][ch]
         new == c.said # None /\ c.said # Unchanged
         expanded == IF c.said = Unchanged THEN cache[Len(cache)] ELSE c.said
         out == IF expanded # None /\ expanded.id = c.known THEN Unchanged ELSE expanded
     IN
       /\ c.said = Unchanged => cache # <<>>
       /\ cache' = IF new THEN CachePending(c.said) ELSE cache
       /\ Goes(t, ch, [stage |-> "relayed", connected |-> TRUE, said |-> out,
                       last |-> c.last])
  /\ UNCHANGED <<hubVars, opened, session, history, recorded, overtaken, cookie, tab,
                 clicked, fates>>

\* The answer is expanded from the cache, and the outcome recorded.  What the
\* page itself already has is "unchanged" again.
Relay(t, ch) ==
  /\ At(t, ch, "answered")
  /\ LET c == call[t][ch]
         new == c.said # None /\ c.said # Unchanged
         expanded == IF c.said = Unchanged
                     THEN cache[CHOOSE i \in 1 .. Len(cache) : cache[i].id = c.ask]
                     ELSE c.said
         out == IF expanded # None /\ expanded.id = c.known THEN Unchanged ELSE expanded
     IN
       /\ c.said = Unchanged => c.ask \in CachedIds
       /\ cache' = IF new THEN CachePending(c.said) ELSE cache
       /\ history' = IF c.last = None THEN history
                     ELSE RecordOutcome(c.last)
       /\ overtaken' = (overtaken \/ Progress(c) \in 1 .. recorded - 1)
       /\ recorded' = IF Progress(c) > recorded THEN Progress(c) ELSE recorded
       /\ Goes(t, ch, [stage |-> "relayed", connected |-> TRUE, said |-> out,
                       last |-> c.last])
  /\ UNCHANGED <<hubVars, opened, session, cookie, tab, clicked, fates>>

\* The approval socket does not answer in time, or breaks.
Unreachable(t, ch) ==
  /\ faults < MaxFaults
  /\ At(t, ch, "asked") \/ At(t, ch, "answered")
  /\ Goes(t, ch, Disconnected)
  /\ faults' = faults + 1
  /\ UNCHANGED <<hubVars, opened, serve, cookie, tab, clicked, stray>>

-----------------------------------------------------------------------------
(* A page.                                                                 *)

Shown(t) == IF tab[t].pending = None THEN 0 ELSE tab[t].pending.id

\* pollOnce sends what the page shows.
Asked(t) ==
  IF Authed THEN [stage |-> "asked", known |-> Shown(t), ask |-> Shown(t)]
  ELSE Disconnected

Key(p, l) ==
  IF p # None THEN <<"review", p.id>>
  ELSE IF l # None THEN <<"decided", l.id>> ELSE <<"idle", 0>>

\* applyStateUpdate and render: a review that was not on the screen is rendered
\* anew, which also resets its buttons.
Updated(t, c) ==
  LET p   == IF c.said = Unchanged THEN tab[t].pending ELSE c.said
      key == Key(p, c.last)
      fresh == p # None /\ key # Key(tab[t].pending, tab[t].last)
  IN [tab[t] EXCEPT !.connected = c.connected, !.pending = p, !.last = c.last,
                    !.submitting = IF fresh THEN None ELSE @]

\* The token in the URL that mrw serve up printed, and that mrw serve url reads
\* back from the running container.
Printed == session

\* A page is loaded with that URL, which sets the cookie.
OpenPage(t) ==
  /\ tab[t] = None
  /\ Printed # 0
  /\ cookie' = Printed
  /\ tab' = [tab EXCEPT ![t] = [csrf |-> session, connected |-> TRUE, pending |-> None,
                                last |-> None, submitting |-> None]]
  /\ UNCHANGED <<hubVars, opened, serve, call, clicked, fates>>

\* schedulePoll: the next poll is scheduled when the last one ended.
Poll(t) ==
  /\ tab[t] # None
  /\ call[t][Loop] = None
  /\ Goes(t, Loop, Asked(t))
  /\ UNCHANGED <<hubVars, opened, serve, cookie, tab, clicked, fates>>

ShowOrStop(t) ==
  /\ At(t, Loop, "relayed")
  /\ call[t][Loop].connected
  /\ tab' = [tab EXCEPT ![t] = Updated(t, call[t][Loop])]
  /\ Goes(t, Loop, None)
  /\ UNCHANGED <<hubVars, opened, serve, cookie, clicked, fates>>

Show(t) ==
  /\ At(t, Loop, "relayed")
  /\ tab' = [tab EXCEPT ![t] = Updated(t, call[t][Loop])]
  /\ Goes(t, Loop, None)
  /\ UNCHANGED <<hubVars, opened, serve, cookie, clicked, fates>>

\* A human types the sha on the page, or declines.
Click(t, ch, op) ==
  /\ tab[t] # None
  /\ tab[t].pending # None
  /\ tab[t].submitting = None
  /\ call[t][ch] = None
  /\ tab' = [tab EXCEPT ![t].submitting = op]
  /\ clicked' = IF Shown(t) = opened THEN clicked \cup {op} ELSE clicked
  /\ Goes(t, ch, IF AuthedPost(t) THEN [stage |-> "posted", id |-> Shown(t), op |-> op]
                 ELSE [stage |-> "thrown"])
  /\ UNCHANGED <<hubVars, opened, serve, cookie, fates>>

\* serve forwards the post verbatim, and the broker takes it.  Whether the answer
\* comes back makes no difference: the page polls in either case.
Deliver(t, ch) ==
  /\ At(t, ch, "posted")
  /\ Submit(call[t][ch].op, call[t][ch].id)
  /\ Goes(t, ch, [stage |-> "result"])
  /\ UNCHANGED <<opened, serve, cookie, tab, clicked, fates>>

\* serve gives the post up as "broker_unreachable"; the broker may still read it.
GiveUp(t, ch) ==
  /\ faults < MaxFaults
  /\ At(t, ch, "posted")
  /\ Goes(t, ch, [stage |-> "result"])
  /\ faults' = faults + 1
  /\ stray' \in {stray, stray \cup {[id |-> call[t][ch].id, op |-> call[t][ch].op]}}
  /\ UNCHANGED <<hubVars, opened, serve, cookie, tab, clicked>>

DeliverLate(p) ==
  /\ p \in stray
  /\ stray' = stray \ {p}
  /\ Submit(p.op, p.id)
  /\ UNCHANGED <<opened, serve, pages, faults>>

\* Whatever the answer was, the page polls.
PollAfterClick(t, ch) ==
  /\ At(t, ch, "result")
  /\ Goes(t, ch, Asked(t))
  /\ UNCHANGED <<hubVars, opened, serve, cookie, tab, clicked, fates>>

\* The finally of submitApprove and submitDecline, after the poll or after a post
\* that threw.  It resets the buttons of whatever is on the screen by then.
EndClick(t, ch) ==
  /\ At(t, ch, "relayed") \/ At(t, ch, "thrown")
  /\ tab' = [tab EXCEPT ![t] =
       [IF At(t, ch, "relayed") THEN Updated(t, call[t][ch]) ELSE @
          EXCEPT !.submitting = None]]
  /\ Goes(t, ch, None)
  /\ UNCHANGED <<hubVars, opened, serve, cookie, clicked, fates>>

-----------------------------------------------------------------------------
(* Restarts.                                                               *)

\* A request that serve was handling fails in the browser.
CutOff(c) ==
  IF c = None THEN None
  ELSE IF c.stage \in {"asked", "answered"} THEN Disconnected
  ELSE IF c.stage = "posted" THEN [stage |-> "thrown"]
  ELSE c

Posted == UNION {{[id |-> call[t][ch].id, op |-> call[t][ch].op] :
                    ch \in {x \in Clicks : At(t, x, "posted")}} : t \in Tabs}

\* serve starts with nothing in memory: by mrw serve up with a token of its own, or
\* because its container is restarted, which keeps the token; or it is stopped
\* (token 0).  What it had forwarded may still reach the broker.
Restart(token) ==
  /\ faults < MaxFaults
  /\ faults' = faults + 1
  /\ session' = token
  /\ cache' = <<>>
  /\ history' = <<>>
  /\ recorded' = 0
  /\ overtaken' = FALSE
  /\ call' = [t \in Tabs |-> [ch \in Channels |-> CutOff(call[t][ch])]]
  /\ \E forwarded \in SUBSET Posted : stray' = stray \cup forwarded
  /\ UNCHANGED <<hubVars, opened, cookie, tab, clicked>>

ServeUp == Restart(faults + 2)

ServeRestarted == session # 0 /\ Restart(session)

ServeDown == session # 0 /\ Restart(0)

\* The broker is restarted: what it held in memory is gone.
BrokerRestarts ==
  /\ faults < MaxFaults
  /\ faults' = faults + 1
  /\ pending' = None
  /\ last' = None
  /\ UNCHANGED <<opened, serve, pages, stray>>

-----------------------------------------------------------------------------
Init ==
  /\ HubInit
  /\ opened = 0
  /\ session = 1
  /\ cookie = 0
  /\ cache = <<>>
  /\ history = <<>>
  /\ tab = [t \in Tabs |-> None]
  /\ call = [t \in Tabs |-> [ch \in Channels |-> None]]
  /\ stray = {}
  /\ faults = 0
  /\ recorded = 0
  /\ overtaken = FALSE
  /\ clicked = {}

Broker == OpenRequest \/ DecidedElsewhere \/ MistypedElsewhere \/ Published

Serving(t, ch) == Answer(t, ch) \/ AskAgain(t, ch) \/ Relay(t, ch)

Clicking(t, ch) ==
  \/ Serving(t, ch) \/ Deliver(t, ch) \/ PollAfterClick(t, ch) \/ EndClick(t, ch)

Polling(t) == Poll(t) \/ Serving(t, Loop) \/ Show(t)

Fault ==
  \/ ServeUp \/ ServeRestarted \/ ServeDown \/ BrokerRestarts
  \/ \E t \in Tabs, ch \in Channels : Unreachable(t, ch)
  \/ \E t \in Tabs, ch \in Clicks : GiveUp(t, ch)

Next ==
  \/ Broker \/ Fault
  \/ \E p \in stray : DeliverLate(p)
  \/ \E t \in Tabs : OpenPage(t) \/ Polling(t)
  \/ \E t \in Tabs, ch \in Clicks :
       Clicking(t, ch) \/ \E op \in {"approved", "declined"} : Click(t, ch, op)

Spec == Init /\ [][Next]_vars

\* A poll ends, since serve bounds its calls by timers and a browser sees a broken
\* connection, and a page's timer fires.  Nothing is assumed of a human, of the
\* broker's decisions, or of a post.
Fairness == \A t \in Tabs : WF_vars(Polling(t))

FairSpec == Spec /\ Fairness

-----------------------------------------------------------------------------
(* Properties.                                                             *)

Outcome ==
  [id : Ids, decision : Decisions, publish : {"none", "failed", "ok"}] \cup {None}

Call ==
  [stage : {"asked"}, known : Ids \cup {0}, ask : Ids \cup {0}]
    \cup [stage : {"answered"}, known : Ids \cup {0}, ask : Ids \cup {0},
          said : Received \cup {None, Unchanged}, last : Outcome]
    \cup [stage : {"relayed"}, connected : BOOLEAN,
          said : Received \cup {None, Unchanged}, last : Outcome]
    \cup [stage : {"posted"}, id : Ids, op : Decisions]
    \cup [stage : {"result", "thrown"}]

\* The values each variable takes.
TypeOK ==
  /\ pending \in Received \cup {None}
  /\ last \in Outcome
  /\ {session, cookie} \subseteq 0 .. MaxFaults + 1
  /\ Len(cache) <= CacheLimit /\ \A i \in 1 .. Len(cache) : cache[i] \in Received
  /\ Len(history) <= HistoryLimit
  /\ \A t \in Tabs :
       /\ tab[t] = None \/ /\ tab[t].pending \in Received \cup {None}
                           /\ tab[t].last \in Outcome
       /\ \A ch \in Channels : call[t][ch] \in Call \cup {None}

\* This step is the broker's, with a post from a page.
PostTaken ==
  \/ stray' # stray
  \/ \E t \in Tabs, ch \in Clicks : At(t, ch, "posted") /\ ~At(t, ch, "posted")'

\* gate.ts: "First decision wins".  A request is decided once, however many pages,
\* clicks and late posts there are; and in a browser it is decided as a human
\* clicked on a page that showed that very request: a post that arrives after its
\* request is gone decides nothing else.
DecidedAsClicked ==
  [][last' # None /\ last' # last =>
       IF last # None /\ last'.id = last.id THEN last'.decision = last.decision
       ELSE PostTaken => last'.id = opened /\ last'.decision \in clicked]_vars

\* routes.ts and broker-client.ts: a page is told "unchanged" only if the request
\* it asked about was the one at the gate when the broker answered; and a view it
\* is sent is the broker's answer, never an older copy from the cache, so that the
\* attempts left are those of that moment.
RelayIsTrue ==
  [][\A t \in Tabs, ch \in Channels :
       At(t, ch, "answered") /\ At(t, ch, "relayed")' /\ call'[t][ch].connected =>
         LET c == call[t][ch]
             out == call'[t][ch].said
         IN IF out = Unchanged THEN AtGate(c) # 0 /\ AtGate(c) = c.known
            ELSE out = c.said]_vars

\* broker-client.test.ts: "the SAME outcome id refreshes in place rather than
\* duplicating" and "most recent first": the history has every outcome once, the
\* newest first.  It holds while answers are recorded in the order the broker gave
\* them, which nothing ensures when polls overlap.
HistoryFollowsTheBroker ==
  ~overtaken => \A i, j \in 1 .. Len(history) : i < j => history[i].id > history[j].id

ShowsTheHub(t) ==
  /\ tab[t] # None
  /\ tab[t].connected
  /\ Shown(t) = IF pending = None THEN 0 ELSE pending.id
  /\ tab[t].last = last

\* browser-approval.md: the page "will show the next publish here automatically".
\* Through lost answers, restarts and polls that overtake each other, an open page
\* shows again and again what is at the gate and what was decided last, unless the
\* browser's session is not the running serve's.
PageKeepsUp ==
  \A t \in Tabs : [](tab[t] # None => <>(ShowsTheHub(t) \/ ~Authed))

-----------------------------------------------------------------------------
(* The inductive invariant behind the safety properties, in parts.         *)

Views == [id : 1 .. opened, left : 1 .. AttemptsInit]

Outcomes ==
  [id : 1 .. opened, decision : Decisions, publish : {"none", "failed", "ok"}]

PageStates ==
  [csrf : 0 .. MaxFaults + 1, connected : BOOLEAN, pending : Views \cup {None},
   last : Outcomes \cup {None}, submitting : Decisions \cup {None}]

Posts == [stage : {"posted"}, id : 1 .. opened, op : Decisions]

Answers ==
  [stage : {"answered"}, known : 0 .. opened, ask : 0 .. opened,
   said : Views \cup {None, Unchanged}, last : Outcomes \cup {None}]

Calls ==
  [stage : {"asked"}, known : 0 .. opened, ask : 0 .. opened]
    \cup Answers
    \cup [stage : {"relayed"}, connected : BOOLEAN,
          said : Views \cup {None, Unchanged}, last : Outcomes \cup {None}]
    \cup Posts
    \cup [stage : {"result", "thrown"}]

\* The request at the gate is the newest, and the last outcome is of an older one.
HubInv ==
  /\ opened \in Nat /\ 1 .. opened \subseteq Ids
  /\ pending \in Views \cup {None}
  /\ last \in Outcomes \cup {None}
  /\ pending # None => pending.id = opened /\ (last # None => last.id < opened)

\* What serve keeps is of requests there were, and within its limits.
CacheInv ==
  /\ {session, cookie} \subseteq 0 .. MaxFaults + 1 /\ faults \in 0 .. MaxFaults
  /\ cache \in Seq(Views) /\ Len(cache) <= CacheLimit
  /\ history \in Seq(Outcomes) /\ Len(history) <= HistoryLimit
  /\ recorded \in Nat /\ overtaken \in BOOLEAN

\* Only a page that is open calls, and the broker is asked about what the page
\* shows, or for everything.
CallInv ==
  /\ tab \in [Tabs -> PageStates \cup {None}]
  /\ call \in [Tabs -> [Channels -> Calls \cup {None}]]
  /\ \A t \in Tabs, ch \in Channels :
       /\ call[t][ch] # None => tab[t] \in PageStates
       /\ At(t, ch, "asked") \/ At(t, ch, "answered")
            => call[t][ch].ask \in {0, call[t][ch].known}

\* A post for the newest request was clicked on a page that showed it.
ClickInv ==
  /\ stray \subseteq [id : 1 .. opened, op : Decisions]
  /\ \A p \in stray : p.id = opened => p.op \in clicked
  /\ \A t \in Tabs, ch \in Channels :
       At(t, ch, "posted") /\ call[t][ch].id = opened => call[t][ch].op \in clicked

\* The hub, as an answer would give it now.
Now == [said |-> pending, ask |-> 0, last |-> last]

\* Of two answers the one that is further on has the newer outcome.
InOrder(c, d) ==
  c.last # None /\ d.last # None /\ Progress(c) <= Progress(d)
    => c.last.id <= d.last.id

\* The hub is further on than every answer on its way, unless it was restarted.
AnswerInv ==
  \A t \in Tabs, ch \in Channels :
    At(t, ch, "answered") /\ call[t][ch].last # None =>
      /\ pending # None => call[t][ch].last.id < opened
      /\ last # None =>
           /\ Progress(call[t][ch]) <= Progress(Now)
           /\ InOrder(call[t][ch], Now) /\ InOrder(Now, call[t][ch])

\* So are answers on their way among each other, and the history up to the latest
\* answer recorded.
OrderInv ==
  /\ \A t, u \in Tabs, ch, dh \in Channels :
       At(t, ch, "answered") /\ At(u, dh, "answered") => InOrder(call[t][ch], call[u][dh])
  /\ history # <<>> =>
       /\ last # None => history[1].id <= last.id
       /\ \A t \in Tabs, ch \in Channels :
            /\ ~overtaken /\ At(t, ch, "answered") /\ call[t][ch].last # None
            /\ recorded <= Progress(call[t][ch])
            => history[1].id <= call[t][ch].last.id

IInv ==
  /\ HubInv /\ CacheInv /\ CallInv /\ ClickInv
  /\ AnswerInv /\ OrderInv /\ HistoryFollowsTheBroker
=============================================================================

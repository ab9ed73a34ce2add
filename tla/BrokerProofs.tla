---------------------------- MODULE BrokerProofs ----------------------------
(***************************************************************************)
(* Theorems about Broker, for every set of connections, commits and        *)
(* targets, and their proofs.                                              *)
(***************************************************************************)
EXTENDS Broker, TLAPS

LP == INSTANCE ListenerProofs

\* Every step of the broker is a step of its listener, or leaves it alone.
LEMMA ListenerStep == [Next]_vars => [L!Next]_(L!vars)
<1> SUFFICES ASSUME [Next]_vars PROVE [L!Next]_(L!vars)
  OBVIOUS
<1> USE DEF L!vars, L!Next, L!Reading, L!Handling, listener
<1>1. ASSUME NEW c \in Conns, Connect(c) \/ NoRequest(c) \/ Dispatch(c) \/ Abort(c)
      PROVE  L!Next
  BY <1>1 DEF Connect, NoRequest, Dispatch, Abort
<1>2. ASSUME NEW c \in Conns, NEW result \in Results, Finish(c, result) PROVE L!Next
  BY <1>2 DEF Finish
<1>3. {"refused", "published", "pr_failed"} = Results
  BY DEF Results
<1>4. ASSUME NEW c \in Conns, OpenGate(c) \/ Render(c) \/ Approved(c) \/ Revalidate(c)
      PROVE  UNCHANGED L!vars
  BY <1>4 DEF OpenGate, Render, Approved, Revalidate
<1>5. ASSUME NEW c \in Conns, Continue(c) PROVE L!Next \/ UNCHANGED L!vars
  BY <1>2, <1>3, <1>4, <1>5
  DEF Continue, Refuse, Canceled, Declined, RefusePush, Revalidate, Push, GhPrCreate
<1>6. CASE Human \/ Poll \/ World
  BY <1>6
  DEF Human, TypeLine, SubmitApprove, ReadLine, SubmitDecline, Poll, World
<1>7. CASE UNCHANGED vars
  BY <1>7 DEF vars
<1> QED
  BY <1>1, <1>4, <1>5, <1>6, <1>7 DEF Next

\* The broker's listener is the one that ListenerProofs is about.
LEMMA SameListener ==
  /\ LP!ListenerAssumption
  /\ L!IInv <=> LP!IInv
  /\ L!Next <=> LP!Next
  /\ L!vars = LP!vars
<1>1. LP!ListenerAssumption
  BY BrokerNoneAssumption DEF LP!ListenerAssumption, Results
<1>2. L!IInv <=> LP!IInv
  BY DEF L!IInv, L!TypeOK, L!OwnerInv, L!SoleInv, L!AnswerInv, L!NoLateResult, L!Active,
         LP!IInv, LP!TypeOK, LP!OwnerInv, LP!SoleInv, LP!AnswerInv, LP!NoLateResult,
         LP!Active
<1>3. L!Next <=> LP!Next
  BY DEF L!Next, L!Accept, L!RefuseBusy, L!Reading, L!GiveUpReading, L!Broken, L!Closed,
         L!Malformed, L!Dispatch, L!Handling, L!BudgetExpires, L!ClientGone,
         L!HandlerEnds, L!Reply, L!Release, L!Goto,
         LP!Next, LP!Accept, LP!RefuseBusy, LP!Reading, LP!GiveUpReading, LP!Broken,
         LP!Closed, LP!Malformed, LP!Dispatch, LP!Handling, LP!BudgetExpires,
         LP!ClientGone, LP!HandlerEnds, LP!Reply, LP!Release, LP!Goto
<1>4. L!vars = LP!vars
  BY DEF L!vars, LP!vars
<1> QED
  BY <1>1, <1>2, <1>3, <1>4

\* The listener's invariant holds, since the broker's steps are steps of it.
LEMMA NextListenerIInv == L!IInv /\ [Next]_vars => L!IInv'
<1> SUFFICES ASSUME L!IInv, [Next]_vars PROVE L!IInv'
  OBVIOUS
<1>1. LP!IInv
  BY SameListener
<1>2. [LP!Next]_(LP!vars)
  BY ListenerStep, SameListener DEF L!vars, LP!vars
<1>3. LP!IInv'
  BY <1>1, <1>2, SameListener, LP!NextIInv
<1> QED
  BY <1>3
  DEF L!IInv, L!TypeOK, L!OwnerInv, L!SoleInv, L!AnswerInv, L!NoLateResult, L!Active,
      LP!IInv, LP!TypeOK, LP!OwnerInv, LP!SoleInv, LP!AnswerInv, LP!NoLateResult,
      LP!Active

-----------------------------------------------------------------------------
(* Type correctness.                                                       *)

\* Rendering a request leaves the earlier ones as they are.
LEMMA RenderAppends ==
  ASSUME TypeOK, NEW c \in Conns, Render(c)
  PROVE  /\ requests' \in Seq(Request)
         /\ Len(requests') = Len(requests) + 1 /\ Len(requests) \in Nat
         /\ requests'[Len(requests')] = Current
         /\ \A n \in 1 .. Len(requests) : requests'[n] = requests[n]
<1>1. Current \in Request
  BY DEF TypeOK, Render, Current, Request
<1> QED
  BY <1>1 DEF TypeOK, Render

\* Initially every variable has its type.
LEMMA InitTypeOK == Init => TypeOK
<1> SUFFICES ASSUME Init PROVE TypeOK
  OBVIOUS
<1>1. L!TypeOK
  BY DEF Init, L!Init, L!TypeOK
<1>2. requests \in Seq(Request) /\ Len(requests) = 0
  BY DEF Init
<1>3. /\ at \in [Conns -> Waiting \cup Due]
      /\ req \in [Conns -> 0 .. Len(requests)]
      /\ seen \in 0 .. Len(requests) /\ prompted \in 0 .. Len(requests)
  BY <1>2 DEF Init, Waiting, Due
<1>4. pushed = {} /\ agreed = {} /\ crossed \in BOOLEAN
  BY Zenon DEF Init
<1>5. /\ pending = None /\ last = None /\ line = None
      /\ head \in Shas /\ target \in Targets
  BY DEF Init
<1> QED
  BY <1>1, <1>2, <1>3, <1>4, <1>5 DEF TypeOK

\* The steps of the listener's callbacks.
LEMMA CallbacksTypeOK ==
  ASSUME IInv, L!IInv', NEW c \in Conns,
         Connect(c) \/ NoRequest(c) \/ Dispatch(c) \/ Abort(c)
  PROVE  TypeOK'
<1> USE DEF IInv, TypeOK, L!IInv, hub, humans, world
<1>1. Len(requests) \in Nat
  OBVIOUS
<1>2. /\ at' \in [Conns -> Waiting \cup Due]
      /\ req' \in [Conns -> 0 .. Len(requests)]
  BY <1>1 DEF Connect, NoRequest, Dispatch, Abort, Resume, Waiting, Due
<1>3. UNCHANGED <<requests, hub, humans, world, pushed>>
  BY DEF Connect, NoRequest, Dispatch, Abort
<1> QED
  BY <1>2, <1>3

\* The steps of the humans, of their channels, and of the world.
LEMMA HumansTypeOK ==
  ASSUME IInv, L!IInv', Human \/ Poll \/ World
  PROVE  TypeOK'
<1> USE DEF IInv, TypeOK, L!IInv, hub, humans, world
<1>1. Len(requests) \in Nat
  OBVIOUS
<1>2. CASE TypeLine
  <2>1. PICK typed \in Typeable(prompted) :
          /\ line' = [typed |-> typed, for |-> prompted]
          /\ Agree(prompted, typed)
    BY <1>2 DEF TypeLine
  <2>2. prompted \in 1 .. Len(requests)
    BY <1>1, <1>2 DEF TypeLine
  <2>3. typed \in Shas \cup {None}
    <3>1. requests[prompted] \in Request
      BY <2>2
    <3> QED
      BY <3>1 DEF Typeable, Request
  <2> QED
    BY <1>2, <2>1, <2>2, <2>3 DEF TypeLine, Agree, listener
<1>3. ASSUME NEW c \in Conns, SubmitApprove(c) PROVE TypeOK'
  <2>1. seen \in 1 .. Len(requests)
    BY <1>1, <1>3 DEF SubmitApprove
  <2>2. agreed' \in SUBSET (1 .. Len(requests))
    BY <1>3, <2>1 DEF SubmitApprove, Agree
  <2>3. /\ at' \in [Conns -> Waiting \cup Due]
        /\ pending' \in [id : 1 .. Len(requests), left : 1 .. AttemptsInit] \cup {None}
    <3>1. CASE /\ UNCHANGED at
               /\ pending' = [pending EXCEPT !.left = @ - 1]
               /\ pending.left > 1
      BY <1>3, <3>1 DEF SubmitApprove, AttemptsInit
    <3>2. CASE UNCHANGED pending /\ \E place \in {"approved", "declined"} : Resume(c, place)
      BY <3>2 DEF Resume, Due
    <3> QED
      BY <1>3, <3>1, <3>2 DEF SubmitApprove
  <2> QED
    BY <1>3, <2>2, <2>3 DEF SubmitApprove, listener
<1>4. ASSUME NEW gates \in SUBSET Gates, ReadLine(gates) PROVE TypeOK'
  BY <1>4 DEF ReadLine, Waiting, Due, listener
<1>5. ASSUME NEW c \in Conns, SubmitDecline(c) PROVE TypeOK'
  BY <1>5 DEF SubmitDecline, Resume, Due, listener
<1>6. CASE Poll
  BY <1>1, <1>6 DEF Poll, listener
<1>7. CASE World
  BY <1>7 DEF World, listener
<1> QED
  BY <1>2, <1>3, <1>4, <1>5, <1>6, <1>7 DEF Human

\* The steps of the handlers.
LEMMA HandlersTypeOK ==
  ASSUME IInv, L!IInv', NEW c \in Conns, OpenGate(c) \/ Continue(c)
  PROVE  TypeOK'
<1> USE DEF IInv, TypeOK, L!IInv, hub, humans, world, Finish, Resume, Waiting, Due
<1>1. Len(requests) \in Nat
  OBVIOUS
<1>2. at[c] \notin {"out", "validate"} => req[c] \in 1 .. Len(requests)
  BY <1>1 DEF RequestInv
<1>3. CASE OpenGate(c)
  BY <1>2, <1>3 DEF OpenGate, AttemptsInit, listener
<1>4. CASE Refuse(c)
  BY <1>4 DEF Refuse
<1>5. CASE Render(c)
  <2>1. requests' \in Seq(Request) /\ Len(requests') = Len(requests) + 1
    BY <1>5, RenderAppends
  <2>2. /\ req' = [req EXCEPT ![c] = Len(requests')]
        /\ at' = [at EXCEPT ![c] = "consult"]
        /\ UNCHANGED <<hub, humans, world, pushed>>
    BY <1>5 DEF Render
  <2>3. req' \in [Conns -> 0 .. Len(requests')]
    BY <1>1, <2>1, <2>2
  <2>4. 1 .. Len(requests) \subseteq 1 .. Len(requests')
    BY <1>1, <2>1
  <2>5. seen' \in 0 .. Len(requests') /\ prompted' \in 0 .. Len(requests')
    BY <1>1, <2>1, <2>2
  <2>6. /\ pending' \in [id : 1 .. Len(requests'), left : 1 .. AttemptsInit] \cup {None}
        /\ last' \in [id : 1 .. Len(requests'),
                      decision : {"approved", "declined", "canceled"},
                      publish : {"none", "failed", "ok"}] \cup {None}
        /\ line' \in [typed : Shas \cup {None}, for : 1 .. Len(requests')] \cup {None}
        /\ pushed' \in SUBSET [id : 1 .. Len(requests'), sha : Shas]
        /\ agreed' \in SUBSET (1 .. Len(requests'))
    BY <2>2, <2>4
  <2> QED
    BY <2>1, <2>2, <2>3, <2>5, <2>6
<1>6. CASE Canceled(c) \/ Declined(c) \/ Approved(c)
  <2>1. PICK d \in {"approved", "declined", "canceled"} : last' = Outcome(c, d)
    BY <1>6 DEF Canceled, Declined, Approved
  <2>2. Outcome(c, d) \in [id : 1 .. Len(requests),
                           decision : {"approved", "declined", "canceled"},
                           publish : {"none", "failed", "ok"}]
    BY <1>2, <1>6 DEF Outcome, Canceled, Declined, Approved
  <2>3. at' \in [Conns -> Waiting \cup Due]
    BY <1>6 DEF Canceled, Declined, Approved
  <2>4. pending' = None /\ UNCHANGED <<req, requests, humans, world, pushed>>
    BY <1>6 DEF Canceled, Declined, Approved
  <2> QED
    BY <2>1, <2>2, <2>3, <2>4
<1>7. ASSUME NEW result \in {"failed", "ok"}, Report(result)
      PROVE  last' \in [id : 1 .. Len(requests),
                        decision : {"approved", "declined", "canceled"},
                        publish : {"none", "failed", "ok"}] \cup {None}
  BY <1>7 DEF Report
<1>8. CASE RefusePush(c)
  BY <1>7, <1>8 DEF RefusePush
<1>9. CASE Push(c)
  <2>1. pushed' \in SUBSET [id : 1 .. Len(requests), sha : Shas]
    <3>1. View(c).sha \in Shas
      <4>1. View(c) \in Request
        BY <1>2, <1>9 DEF Push, View
      <4> QED
        BY <4>1 DEF Request
    <3> QED
      BY <1>2, <1>9, <3>1 DEF Push, PushApprovedSha
  <2>2. \E result \in {"failed", "ok"} : Report(result)
    BY <1>9 DEF Push, GhPrCreate
  <2> QED
    BY <1>7, <1>9, <2>1, <2>2 DEF Push, GhPrCreate
<1>10. CASE Revalidate(c)
  BY <1>10 DEF Revalidate, listener
<1> QED
  BY <1>3, <1>4, <1>5, <1>6, <1>8, <1>9, <1>10 DEF Continue

\* Every step keeps the types.
LEMMA NextTypeOK == IInv /\ [Next]_vars => TypeOK'
<1> SUFFICES ASSUME IInv, [Next]_vars PROVE TypeOK'
  OBVIOUS
<1>1. L!IInv'
  BY NextListenerIInv DEF IInv
<1>2. CASE UNCHANGED vars
  BY <1>2
  DEF IInv, TypeOK, vars, listener, hub, humans, world, L!TypeOK
<1> QED
  BY <1>1, <1>2, CallbacksTypeOK, HumansTypeOK, HandlersTypeOK DEF Next

-----------------------------------------------------------------------------
(* Handlers, requests, and what was pushed.                                *)

\* What the steps of the humans, of their channels and of the world leave alone: all
\* but the handlers at the gate, which they send to an answer.
LEMMA HumansMove ==
  ASSUME TypeOK, Human \/ Poll \/ World
  PROVE  /\ UNCHANGED <<listener, req, requests, last, pushed>>
         /\ at' \in [Conns -> Waiting \cup Due]
         /\ \A c \in Conns : \/ at'[c] = at[c]
                             \/ at[c] = "gate" /\ at'[c] \in {"approved", "declined"}
<1> USE DEF TypeOK, hub, humans, world, Waiting, Due
<1>1. CASE TypeLine \/ Poll \/ World
  BY <1>1 DEF TypeLine, Poll, World
<1>2. ASSUME NEW c \in Conns, SubmitApprove(c) \/ SubmitDecline(c)
      PROVE  /\ UNCHANGED <<listener, req, requests, last, pushed>>
             /\ at[c] = "gate"
             /\ at' = at \/ \E place \in {"approved", "declined"} :
                              at' = [at EXCEPT ![c] = place]
  BY <1>2 DEF SubmitApprove, SubmitDecline, Pending, Resume
<1>3. ASSUME NEW gates \in SUBSET Gates, ReadLine(gates)
      PROVE  /\ UNCHANGED <<listener, req, requests, last, pushed>>
             /\ at' \in [Conns -> Waiting \cup Due]
             /\ \A c \in Conns :
                  \/ at'[c] = at[c]
                  \/ at[c] = "gate" /\ at'[c] \in {"approved", "declined"}
  BY <1>3 DEF ReadLine, Gates
<1> QED
  BY <1>1, <1>2, <1>3 DEF Human

\* HandlerInv is preserved.
LEMMA NextHandlerInv == IInv /\ [Next]_vars => HandlerInv'
<1> SUFFICES ASSUME IInv, [Next]_vars PROVE HandlerInv'
  OBVIOUS
<1> USE DEF IInv, TypeOK, L!IInv, L!TypeOK, HandlerInv, L!Active, L!Goto, L!Reply,
            L!Release, Resume, listener
<1>1. ASSUME NEW c \in Conns, Connect(c) PROVE HandlerInv'
  BY <1>1 DEF Connect, L!Accept, L!RefuseBusy
<1>2. ASSUME NEW c \in Conns, NoRequest(c) PROVE HandlerInv'
  BY <1>2 DEF NoRequest, L!GiveUpReading, L!Broken, L!Closed, L!Malformed
<1>3. ASSUME NEW c \in Conns, Dispatch(c) PROVE HandlerInv'
  BY <1>3 DEF Dispatch, L!Dispatch
<1>4. ASSUME NEW c \in Conns, Abort(c) PROVE HandlerInv'
  BY <1>4 DEF Abort, L!BudgetExpires, L!ClientGone, Turn, Waiting
<1>5. ASSUME NEW c \in Conns, NEW result \in Results, Finish(c, result)
      PROVE  HandlerInv'
  BY <1>5 DEF Finish, L!HandlerEnds
<1>6. ASSUME NEW c \in Conns, OpenGate(c) \/ Render(c) \/ Approved(c) \/ Revalidate(c)
      PROVE  HandlerInv'
  BY <1>6 DEF OpenGate, Render, Approved, Revalidate, Revalidated
<1>7. ASSUME NEW c \in Conns, Continue(c) PROVE HandlerInv'
  BY <1>5, <1>6, <1>7
  DEF Continue, Refuse, Canceled, Declined, RefusePush, Revalidate, Push, GhPrCreate,
      Results
<1>8. CASE Human \/ Poll \/ World
  BY <1>8, HumansMove
<1>9. CASE UNCHANGED vars
  BY <1>9 DEF vars
<1> QED
  BY <1>1, <1>2, <1>3, <1>4, <1>6, <1>7, <1>8, <1>9 DEF Next

\* RequestInv is preserved: a rendered request has a number no handler has had.
LEMMA NextRequestInv == IInv /\ [Next]_vars => RequestInv'
<1> SUFFICES ASSUME IInv, [Next]_vars PROVE RequestInv'
  OBVIOUS
<1> USE DEF IInv, TypeOK, L!IInv, L!TypeOK, RequestInv, L!Goto, Resume, listener
<1>1. ASSUME NEW c \in Conns, Connect(c) PROVE RequestInv'
  <2>1. at[c] = "out" /\ at'[c] = "out"
    BY <1>1 DEF Connect, L!Accept, L!RefuseBusy, HandlerInv
  <2> QED
    BY <1>1, <2>1 DEF Connect, L!Accept, L!RefuseBusy
<1>2. ASSUME NEW c \in Conns, NoRequest(c) PROVE RequestInv'
  BY <1>2 DEF NoRequest, L!GiveUpReading, L!Broken, L!Closed, L!Malformed
<1>3. ASSUME NEW c \in Conns, Dispatch(c) PROVE RequestInv'
  BY <1>3 DEF Dispatch, L!Dispatch
<1>4. ASSUME NEW c \in Conns, Abort(c) PROVE RequestInv'
  BY <1>4 DEF Abort, L!BudgetExpires, L!ClientGone, Turn, Waiting, HandlerInv
<1>5. ASSUME NEW c \in Conns, NEW result \in Results, Finish(c, result),
             UNCHANGED <<req, requests>>
      PROVE  RequestInv'
  BY <1>5 DEF Finish, L!HandlerEnds
<1>6. ASSUME NEW c \in Conns, Render(c) PROVE RequestInv'
  <2>1. /\ Len(requests') = Len(requests) + 1 /\ Len(requests) \in Nat
        /\ Len(requests') <= MaxRequests
    BY <1>6, RenderAppends, MaxRequestsAssumption DEF Render
  <2>2. /\ req' = [req EXCEPT ![c] = Len(requests')]
        /\ at' = [at EXCEPT ![c] = "consult"]
        /\ conn[c] = "handling" /\ conn' = conn
    BY <1>6 DEF Render, HandlerInv
  <2>3. \A d \in Conns : d # c => req'[d] # req'[c]
    BY <2>1, <2>2
  <2> QED
    BY <2>1, <2>2, <2>3
<1>7. ASSUME NEW c \in Conns, OpenGate(c) \/ Approved(c) \/ Revalidate(c)
      PROVE  RequestInv'
  BY <1>7 DEF OpenGate, Approved, Revalidate
<1>8. ASSUME NEW c \in Conns, Continue(c) PROVE RequestInv'
  BY <1>5, <1>6, <1>7, <1>8
  DEF Continue, Refuse, Canceled, Declined, RefusePush, Revalidate, Push, GhPrCreate,
      Results
<1>9. CASE Human \/ Poll \/ World
  BY <1>9, HumansMove
<1>10. CASE UNCHANGED vars
  BY <1>10 DEF vars
<1> QED
  BY <1>1, <1>2, <1>3, <1>4, <1>7, <1>8, <1>9, <1>10 DEF Next

\* PushedInv is preserved: after a push, the handler answers and ends.
LEMMA NextPushedInv == IInv /\ [Next]_vars => PushedInv'
<1> SUFFICES ASSUME IInv, [Next]_vars PROVE PushedInv'
  OBVIOUS
<1> USE DEF IInv, TypeOK, L!IInv, L!TypeOK, PushedInv, L!Reply, Resume, listener
<1>1. ASSUME NEW c \in Conns, Connect(c) PROVE PushedInv'
  BY <1>1 DEF Connect, L!Accept, L!RefuseBusy
<1>2. ASSUME NEW c \in Conns, NoRequest(c) PROVE PushedInv'
  BY <1>2 DEF NoRequest, L!GiveUpReading, L!Broken, L!Closed, L!Malformed
<1>3. ASSUME NEW c \in Conns, Dispatch(c) PROVE PushedInv'
  BY <1>3 DEF Dispatch, L!Dispatch, RequestInv
<1>4. ASSUME NEW c \in Conns, Abort(c) PROVE PushedInv'
  BY <1>4 DEF Abort, L!BudgetExpires, L!ClientGone, HandlerInv
<1>5. ASSUME NEW c \in Conns, NEW result \in Results, Finish(c, result),
             UNCHANGED <<req, pushed>>
      PROVE  PushedInv'
  BY <1>5 DEF Finish, L!HandlerEnds
<1>6. ASSUME NEW c \in Conns, Render(c) PROVE PushedInv'
  BY <1>6, RenderAppends DEF Render
<1>7. ASSUME NEW c \in Conns, OpenGate(c) \/ Approved(c) \/ Revalidate(c)
      PROVE  PushedInv'
  BY <1>7 DEF OpenGate, Approved, Revalidate
<1>8. ASSUME NEW c \in Conns, Push(c), pushed' # pushed PROVE PushedInv'
  <2>1. PICK result \in {"published", "pr_failed"} : Finish(c, result)
    BY <1>8 DEF Push, GhPrCreate
  <2>2. /\ at[c] = "push" /\ answer[c] = "none" /\ req' = req
        /\ pushed' = pushed \cup {[id |-> req[c], sha |-> View(c).sha]}
    BY <1>8 DEF Push, PushApprovedSha, HandlerInv, L!Active
  <2>3. at'[c] = "out" /\ answer'[c] = result
    BY <2>1, <2>2 DEF Finish, L!HandlerEnds
  <2>4. \A d \in Conns : d # c => /\ at'[d] = at[d] /\ answer'[d] = answer[d]
                                  /\ req[d] # req[c]
    BY <2>1, <2>2 DEF Finish, L!HandlerEnds, RequestInv
  <2> QED
    BY <2>2, <2>3, <2>4
<1>9. ASSUME NEW c \in Conns, Continue(c) PROVE PushedInv'
  BY <1>5, <1>6, <1>7, <1>8, <1>9
  DEF Continue, Refuse, Canceled, Declined, RefusePush, Revalidate, Push, GhPrCreate,
      Results
<1>10. CASE Human \/ Poll \/ World
  BY <1>10, HumansMove
<1>11. CASE UNCHANGED vars
  BY <1>11 DEF vars
<1> QED
  BY <1>1, <1>2, <1>3, <1>4, <1>7, <1>9, <1>10, <1>11 DEF Next

-----------------------------------------------------------------------------
(* Approvals.                                                              *)

\* No request is rendered again, and nothing a human said is unsaid.
LEMMA Monotone ==
  ASSUME IInv, [Next]_vars
  PROVE  /\ \A n \in 1 .. Len(requests) : requests'[n] = requests[n]
         /\ agreed \subseteq agreed'
         /\ ~crossed' => ~crossed
         /\ \A c \in Conns : at[c] # "out" => req'[c] = req[c] \/ Render(c)
<1> USE DEF hub, humans, world
<1>1. ASSUME NEW c \in Conns, Render(c)
      PROVE  \A n \in 1 .. Len(requests) : requests'[n] = requests[n]
  BY <1>1, RenderAppends DEF IInv
<1>2. requests' = requests \/ \E c \in Conns : Render(c)
  BY DEF Next, vars, Connect, NoRequest, Dispatch, Abort, OpenGate, Continue, Refuse,
         Canceled, Declined, Approved, RefusePush, Revalidate, Push, Human, TypeLine,
         SubmitApprove, ReadLine, SubmitDecline, Poll, World
<1>3. agreed \subseteq agreed' /\ (~crossed' => ~crossed)
  <2>1. ASSUME NEW d \in Conns,
               \/ Connect(d) \/ NoRequest(d) \/ Dispatch(d) \/ Abort(d) \/ OpenGate(d)
               \/ Continue(d)
        PROVE  UNCHANGED <<agreed, crossed>>
    BY <2>1
    DEF Connect, NoRequest, Dispatch, Abort, OpenGate, Continue, Refuse, Canceled,
        Declined, Approved, RefusePush, Revalidate, Push, Render
  <2>2. CASE Poll \/ World \/ UNCHANGED vars
    BY <2>2 DEF Poll, World, vars
  <2>3. ASSUME NEW d \in Conns, SubmitApprove(d) \/ SubmitDecline(d)
        PROVE  UNCHANGED crossed /\ agreed \subseteq agreed'
    BY <2>3 DEF SubmitApprove, SubmitDecline, Agree
  <2>4. CASE TypeLine
    BY <2>4 DEF TypeLine, Agree
  <2>5. ASSUME NEW gates \in SUBSET Gates, ReadLine(gates)
        PROVE  UNCHANGED agreed /\ (~crossed' => ~crossed)
    BY <2>5 DEF ReadLine
  <2> QED
    BY <2>1, <2>2, <2>3, <2>4, <2>5 DEF Next, Human
<1>4. ASSUME NEW c \in Conns, at[c] # "out" PROVE req'[c] = req[c] \/ Render(c)
  <2>1. ASSUME NEW d \in Conns, Connect(d) PROVE req'[c] = req[c]
    <3>1. conn[c] = "handling" /\ conn[d] = "closed"
      BY <1>4, <2>1 DEF Connect, L!Accept, L!RefuseBusy, IInv, HandlerInv
    <3> QED
      BY <2>1, <3>1 DEF Connect, IInv, TypeOK
  <2>2. ASSUME NEW d \in Conns, Render(d) PROVE req'[c] = req[c] \/ Render(c)
    BY <2>2 DEF Render, IInv, TypeOK
  <2> QED
    BY <2>1, <2>2
    DEF Next, vars, NoRequest, Dispatch, Abort, OpenGate, Continue, Refuse,
        Canceled, Declined, Approved, RefusePush, Revalidate, Push, Human, TypeLine,
        SubmitApprove, ReadLine, SubmitDecline, Poll, World
<1> QED
  BY <1>1, <1>2, <1>3, <1>4

\* The line on the terminal is one a human meant, for a commit shown to him.
LEMMA NextLineInv ==
  ASSUME IInv, [Next]_vars, line' # None, line'.typed # None
  PROVE  line'.for \in agreed' /\ requests'[line'.for].sha = line'.typed
<1> USE DEF IInv, TypeOK, hub, humans, world
<1>1. CASE line' = line
  <2>1. line.for \in 1 .. Len(requests)
    BY <1>1
  <2>2. line.for \in agreed /\ requests[line.for].sha = line.typed
    BY <1>1 DEF ApprovalInv
  <2> QED
    BY <1>1, <2>1, <2>2, Monotone
<1>2. CASE TypeLine
  BY <1>2 DEF TypeLine, Typeable, Agree
<1>3. line' \in {line, None} \/ TypeLine
  BY DEF Next, vars, Connect, NoRequest, Dispatch, Abort, OpenGate, Continue, Refuse,
         Canceled, Declined, Approved, RefusePush, Revalidate, Push, Human, Render,
         SubmitApprove, ReadLine, SubmitDecline, Poll, World
<1> QED
  BY <1>1, <1>2, <1>3

\* What an approved handler rests on.
ApprovedBy(c) ==
  /\ \E n \in agreed : requests[n].sha = requests[req[c]].sha
  /\ ~crossed => req[c] \in agreed

\* A handler is approved by a line or a click that is for its own commit.
LEMMA NewlyApproved ==
  ASSUME IInv, [Next]_vars, NEW c \in Conns,
         at'[c] = "approved", at[c] # "approved"
  PROVE  ApprovedBy(c)'
<1> USE DEF IInv, TypeOK, hub, humans, world, ApprovedBy
<1>1. ASSUME NEW d \in Conns, SubmitApprove(d) PROVE ApprovedBy(c)'
  <2>1. d = c /\ at'[c] = "approved"
    BY <1>1 DEF SubmitApprove, Resume
  <2>2. PICK typed \in Typeable(seen) :
          /\ Agree(seen, typed)
          /\ typed = View(c).sha
    BY <1>1, <2>1 DEF SubmitApprove, Resume
  <2>3. req[c] = seen /\ req' = req /\ requests' = requests /\ seen \in 1 .. Len(requests)
    BY <1>1, <2>1 DEF SubmitApprove, Pending
  <2>4. typed \in Shas
    <3>1. requests[req[c]] \in Request
      BY <2>3
    <3> QED
      BY <2>2, <3>1 DEF View, Request
  <2>5. seen \in agreed'
    BY <2>2, <2>4, BrokerNoneAssumption DEF Agree
  <2> QED
    BY <2>3, <2>5
<1>2. ASSUME NEW gates \in SUBSET Gates, ReadLine(gates) PROVE ApprovedBy(c)'
  <2>1. /\ line # None /\ line.typed = View(c).sha
        /\ at[c] = "gate"
        /\ UNCHANGED <<req, requests, agreed>>
        /\ ~crossed' => req[c] = line.for
    BY <1>2 DEF ReadLine, Gates
  <2>2. req[c] \in 1 .. Len(requests)
    BY <2>1 DEF RequestInv
  <2>3. line.typed # None
    <3>1. requests[req[c]] \in Request
      BY <2>2
    <3> QED
      BY <2>1, <3>1, BrokerNoneAssumption DEF View, Request
  <2>4. line.for \in agreed /\ requests[line.for].sha = line.typed
    BY <2>1, <2>3 DEF ApprovalInv
  <2> QED
    BY <2>1, <2>4 DEF View
<1>3. /\ ~(TypeLine \/ Poll \/ World \/ UNCHANGED vars)
      /\ \A d \in Conns : ~SubmitDecline(d)
  BY DEF TypeLine, Poll, World, SubmitDecline, Resume, vars
<1>4. ASSUME NEW d \in Conns
      PROVE  /\ ~(Connect(d) \/ NoRequest(d) \/ Dispatch(d) \/ Abort(d) \/ OpenGate(d))
             /\ ~Continue(d)
  BY DEF Connect, NoRequest, Dispatch, Abort, OpenGate, Resume, Finish, Continue,
         Refuse, Render, Canceled, Declined, Approved, RefusePush, Revalidate, Push,
         GhPrCreate
<1> QED
  BY <1>1, <1>2, <1>3, <1>4 DEF Next, Human

\* A handler pushes only after it was approved.
LEMMA ComesToPush ==
  ASSUME IInv, [Next]_vars, NEW c \in Conns,
         at'[c] \in {"approved", "revalidate", "push"},
         ~(at'[c] = "approved" /\ at[c] # "approved")
  PROVE  at[c] \in {"approved", "revalidate", "push"}
<1> USE DEF IInv, TypeOK, hub, humans, world
<1>1. CASE Human \/ Poll \/ World
  BY <1>1, HumansMove
<1>2. ASSUME NEW d \in Conns,
             \/ Connect(d) \/ NoRequest(d) \/ Dispatch(d) \/ Abort(d) \/ OpenGate(d)
             \/ Continue(d)
      PROVE  at[c] \in {"approved", "revalidate", "push"}
  BY <1>2
  DEF Connect, NoRequest, Dispatch, Abort, OpenGate, Resume, Finish, Continue, Refuse,
      Render, Canceled, Declined, Approved, RefusePush, Revalidate, Push, GhPrCreate
<1> QED
  BY <1>1, <1>2 DEF Next, vars

\* ApprovalInv is preserved.
LEMMA NextApprovalInv == IInv /\ [Next]_vars => ApprovalInv'
<1> SUFFICES ASSUME IInv, [Next]_vars PROVE ApprovalInv'
  OBVIOUS
<1>1. ASSUME NEW c \in Conns, at'[c] \in {"approved", "revalidate", "push"}
      PROVE  ApprovedBy(c)'
  <2>1. CASE at'[c] = "approved" /\ at[c] # "approved"
    BY <2>1, NewlyApproved
  <2>2. CASE ~(at'[c] = "approved" /\ at[c] # "approved")
    <3>1. at[c] \in {"approved", "revalidate", "push"}
      BY <1>1, <2>2, ComesToPush
    <3>2. ApprovedBy(c)
      BY <3>1 DEF IInv, ApprovalInv, ApprovedBy
    <3>3. req[c] \in 1 .. Len(requests) /\ agreed \subseteq 1 .. Len(requests)
      BY <3>1 DEF IInv, TypeOK, RequestInv
    <3>4. req'[c] = req[c]
      BY <3>1, Monotone DEF Render
    <3> QED
      BY <3>2, <3>3, <3>4, Monotone DEF ApprovedBy
  <2> QED
    BY <2>1, <2>2
<1> QED
  BY <1>1, NextLineInv DEF ApprovalInv, ApprovedBy

\* What is pushed is approved.
LEMMA NextPushed ==
  ASSUME IInv, [Next]_vars
  PROVE  ApprovalIsShaBound' /\ ApprovalIsOfTheRequest'
<1> USE DEF IInv, TypeOK
<1>1. ASSUME NEW p \in pushed'
      PROVE  \/ p \in pushed
             \/ \E c \in Conns : /\ Push(c)
                                 /\ p = [id |-> req[c], sha |-> View(c).sha]
  BY <1>1
  DEF Next, vars, Connect, NoRequest, Dispatch, Abort, OpenGate, Continue, Refuse,
      Canceled, Declined, Approved, RefusePush, Revalidate, Push, PushApprovedSha,
      Human, Render, TypeLine, SubmitApprove, ReadLine, SubmitDecline, Poll, World
<1>2. ASSUME NEW c \in Conns, Push(c), NEW p, p = [id |-> req[c], sha |-> View(c).sha]
      PROVE  /\ \E n \in agreed' : requests'[n].sha = p.sha
             /\ ~crossed' => p.id \in agreed'
  <2>1. UNCHANGED <<requests, humans>> /\ at[c] = "push"
    BY <1>2 DEF Push
  <2>2. ApprovedBy(c)
    BY <2>1 DEF ApprovalInv, ApprovedBy
  <2> QED
    BY <1>2, <2>1, <2>2 DEF ApprovedBy, View, humans
<1>3. ASSUME NEW p \in pushed
      PROVE  /\ \E n \in agreed' : requests'[n].sha = p.sha
             /\ ~crossed' => p.id \in agreed'
  BY <1>3, Monotone DEF ApprovalIsShaBound, ApprovalIsOfTheRequest
<1> QED
  BY <1>1, <1>2, <1>3 DEF ApprovalIsShaBound, ApprovalIsOfTheRequest

-----------------------------------------------------------------------------
(* The hub.                                                                *)

\* What a step may do to the hub's pending approval.
LEMMA PendingMoves ==
  ASSUME IInv, [Next]_vars
  PROVE  \/ pending' = None /\ \E c \in Conns : Canceled(c) \/ Declined(c) \/ Approved(c)
         \/ \E c \in Conns : OpenGate(c)
         \/ /\ pending = None <=> pending' = None
            /\ pending # None => pending'.id = pending.id
            /\ \A c \in Conns : ~(Canceled(c) \/ Declined(c) \/ Approved(c))
<1> USE DEF IInv, TypeOK, hub, Resume
<1>1. ASSUME NEW c \in Conns, SubmitApprove(c)
      PROVE  pending # None /\ pending' # None /\ pending'.id = pending.id
  BY <1>1, BrokerNoneAssumption DEF SubmitApprove
<1>2. CASE \E c \in Conns : Canceled(c) \/ Declined(c) \/ Approved(c)
  BY <1>2 DEF Canceled, Declined, Approved
<1>3. ASSUME \A c \in Conns : ~(Canceled(c) \/ Declined(c) \/ Approved(c))
      PROVE  \/ pending' = pending
             \/ \E c \in Conns : OpenGate(c) \/ SubmitApprove(c)
  BY <1>3
  DEF Next, vars, Connect, NoRequest, Dispatch, Abort, Continue, Refuse, RefusePush,
      Revalidate, Push, Human, Render, TypeLine, ReadLine, SubmitDecline, Poll, World
<1> QED
  BY <1>1, <1>2, <1>3

\* A handler at the gate, answered or aborted there, stays so until decide() resumes.
LEMMA StaysUndecided ==
  ASSUME IInv, [Next]_vars, NEW c \in Conns, at[c] \in Undecided,
         ~(Canceled(c) \/ Declined(c) \/ Approved(c))
  PROVE  at'[c] \in Undecided /\ req'[c] = req[c]
<1> USE DEF IInv, TypeOK, Undecided
<1>1. CASE Human \/ Poll \/ World
  BY <1>1, HumansMove
<1>2. ASSUME NEW d \in Conns, Connect(d) \/ NoRequest(d) \/ Dispatch(d)
      PROVE  at'[c] = at[c]
  BY <1>2
  DEF Connect, NoRequest, Dispatch, Resume, HandlerInv, L!Dispatch
<1>3. ASSUME NEW d \in Conns, Abort(d) \/ OpenGate(d) PROVE at'[c] \in Undecided
  BY <1>3 DEF Abort, OpenGate, Resume
<1>4. ASSUME NEW d \in Conns, Continue(d) PROVE at'[c] = at[c]
  BY <1>4
  DEF Continue, Refuse, Render, Canceled, Declined, Approved, RefusePush, Revalidate,
      Push, GhPrCreate, Finish, Resume
<1>5. at'[c] \in Undecided
  BY <1>1, <1>2, <1>3, <1>4 DEF Next, vars
<1> QED
  BY <1>5, Monotone DEF Render

\* The outcome of an approval is reported when its handler ends.
LEMMA StaysReported ==
  ASSUME IInv, [Next]_vars,
         last' # None, last'.decision = "approved", last'.publish = "none"
  PROVE  \E c \in Conns : at'[c] \in {"revalidate", "push"}
<1> USE DEF IInv, TypeOK, Resume, hub
<1>1. ASSUME NEW c \in Conns, Approved(c) PROVE at'[c] = "revalidate"
  BY <1>1 DEF Approved
<1>2. ASSUME NEW c \in Conns PROVE ~(Canceled(c) \/ Declined(c))
  BY DEF Canceled, Declined, Outcome
<1>3. ASSUME NEW c \in Conns, NEW result \in {"failed", "ok"}, Report(result)
      PROVE  FALSE
  BY <1>3 DEF Report
<1>4. ASSUME NEW c \in Conns PROVE ~(RefusePush(c) \/ Push(c))
  BY <1>3 DEF RefusePush, Push, GhPrCreate
<1>5. CASE \A c \in Conns : ~Approved(c)
  <2>1. last' = last
    BY <1>2, <1>4, <1>5
    DEF Next, vars, Connect, NoRequest, Dispatch, Abort, Continue, Refuse, OpenGate,
        Revalidate, Human, Render, TypeLine, SubmitApprove, ReadLine, SubmitDecline,
        Poll, World
  <2>2. PICK c \in Conns : at[c] \in {"revalidate", "push"}
    BY <2>1 DEF HubInv
  <2>3. CASE Human \/ Poll \/ World
    BY <2>2, <2>3, HumansMove
  <2>4. ASSUME NEW d \in Conns, \/ Connect(d) \/ NoRequest(d) \/ Dispatch(d) \/ Abort(d)
                                \/ OpenGate(d) \/ Refuse(d) \/ Render(d) \/ Revalidate(d)
        PROVE  at'[c] \in {"revalidate", "push"}
    BY <2>2, <2>4
    DEF Connect, NoRequest, Dispatch, Abort, OpenGate, Refuse, Render, Revalidate,
        Finish, HandlerInv, L!Dispatch, Turn, Waiting
  <2> QED
    BY <1>2, <1>4, <1>5, <2>2, <2>3, <2>4 DEF Next, vars, Continue
<1> QED
  BY <1>1, <1>5

\* HubInv is preserved.
LEMMA NextHubInv == IInv /\ [Next]_vars => HubInv'
<1> SUFFICES ASSUME IInv, [Next]_vars PROVE HubInv'
  OBVIOUS
<1>1. ASSUME pending' # None
      PROVE  \E c \in Conns : at'[c] \in Undecided /\ req'[c] = pending'.id
  <2>1. ASSUME NEW c \in Conns, OpenGate(c)
        PROVE  at'[c] \in Undecided /\ req'[c] = pending'.id
    BY <2>1 DEF OpenGate, Resume, Undecided, IInv, TypeOK
  <2>2. CASE /\ pending # None /\ pending'.id = pending.id
             /\ \A c \in Conns : ~(Canceled(c) \/ Declined(c) \/ Approved(c))
    <3>1. PICK c \in Conns : at[c] \in Undecided /\ req[c] = pending.id
      BY <2>2 DEF IInv, HubInv
    <3> QED
      BY <2>2, <3>1, StaysUndecided
  <2> QED
    BY <1>1, <2>1, <2>2, PendingMoves
<1> QED
  BY <1>1, StaysReported DEF HubInv

\* GateInv is preserved: decide() is called, and returns, for the only request.
LEMMA NextGateInv == IInv /\ [Next]_vars => GateInv'
<1> SUFFICES ASSUME IInv, [Next]_vars, ~rereleased', NEW c \in Conns, at'[c] = "gate"
             PROVE  pending' # None /\ pending'.id = req'[c]
  BY DEF GateInv, Gates
<1>1. L!IInv' /\ HandlerInv'
  BY NextListenerIInv, NextHandlerInv DEF IInv
<1>2. ~rereleased
  BY ListenerStep
  DEF L!Next, L!vars, L!Accept, L!RefuseBusy, L!Reading, L!GiveUpReading, L!Broken,
      L!Closed, L!Malformed, L!Dispatch, L!Handling, L!BudgetExpires, L!ClientGone,
      L!HandlerEnds, L!Release
<1>3. ASSUME NEW d \in Conns, OpenGate(d)
      PROVE  pending' # None /\ pending'.id = req'[c]
  <2>1. at'[d] = "gate" /\ pending' = [id |-> req[d], left |-> AttemptsInit] /\ req' = req
    BY <1>3 DEF OpenGate, Resume, IInv, TypeOK
  <2>2. c = d
    BY <1>1, <2>1 DEF L!IInv, L!SoleInv, L!Active, HandlerInv
  <2>3. pending'.id \in Nat /\ pending' \in [id : Nat, left : Int]
    BY <2>1 DEF IInv, TypeOK, AttemptsInit
  <2> QED
    BY <2>1, <2>2, <2>3, BrokerNoneAssumption
<1>4. ASSUME \A d \in Conns : ~OpenGate(d) PROVE at[c] = "gate"
  <2>1. ASSUME NEW d \in Conns, \/ Connect(d) \/ NoRequest(d) \/ Dispatch(d) \/ Abort(d)
                                \/ Continue(d)
        PROVE  at[c] = "gate"
    BY <2>1
    DEF Connect, NoRequest, Dispatch, Abort, Continue, Refuse, Render, Canceled,
        Declined, Approved, RefusePush, Revalidate, Push, GhPrCreate, Finish, Resume,
        IInv, TypeOK
  <2>2. CASE Human \/ Poll \/ World
    BY <2>2, HumansMove DEF IInv
  <2> QED
    BY <1>4, <2>1, <2>2 DEF Next, vars
<1>5. ASSUME NEW d \in Conns, Canceled(d) \/ Declined(d) \/ Approved(d), at[c] = "gate"
      PROVE  FALSE
  <2>1. at[d] \in {"canceled", "declined", "approved"}
    BY <1>5 DEF Canceled, Declined, Approved
  <2>2. conn[c] = "handling" /\ conn[d] = "handling"
    BY <1>5, <2>1 DEF IInv, HandlerInv
  <2>3. c = d
    BY <1>2, <2>2 DEF IInv, L!IInv, L!SoleInv, L!Active
  <2> QED
    BY <1>5, <2>1, <2>3
<1>6. ASSUME at[c] = "gate"
      PROVE  pending # None /\ pending.id = req[c] /\ req'[c] = req[c]
  BY <1>2, <1>6, Monotone DEF IInv, GateInv, Gates, Render
<1> QED
  BY <1>3, <1>4, <1>5, <1>6, PendingMoves

-----------------------------------------------------------------------------
(* The inductive invariant.                                                *)

\* Before the first connection everything is in order.
LEMMA InitIInv == Init => IInv
<1> SUFFICES ASSUME Init PROVE IInv
  OBVIOUS
<1>1. TypeOK
  BY InitTypeOK
<1>2. L!IInv
  BY DEF Init, L!Init, L!IInv, L!TypeOK, L!OwnerInv, L!SoleInv, L!AnswerInv,
         L!NoLateResult, L!Active, Results
<1>3. Len(requests) = 0
  BY DEF Init
<1> QED
  BY <1>1, <1>2, <1>3, MaxRequestsAssumption
  DEF IInv, Init, L!Init, L!Active, HandlerInv, RequestInv, ApprovalInv, PushedInv,
      HubInv, GateInv, Gates, ApprovalIsShaBound, ApprovalIsOfTheRequest

\* The inductive invariant is preserved.
LEMMA NextIInv == IInv /\ [Next]_vars => IInv'
  BY NextTypeOK, NextListenerIInv, NextHandlerInv, NextRequestInv, NextApprovalInv,
     NextPushedInv, NextHubInv, NextGateInv, NextPushed
  DEF IInv

\* In every reachable state the listener, the handlers, the hub, the humans and what
\* was pushed agree as IInv says.
THEOREM Invariance == Spec => []IInv
<1> QED
  BY InitIInv, NextIInv, PTL DEF Spec

\* Every variable keeps to the values TypeOK lists.
THEOREM TypeCorrect == Spec => []TypeOK
<1>1. IInv => TypeOK
  BY DEF IInv
<1> QED
  BY <1>1, Invariance, PTL

-----------------------------------------------------------------------------
(* The safety properties.                                                  *)

\* approve.ts's "approval is sha-bound": every commit pushed was typed by a human to
\* whom it had been shown.
THEOREM ApprovalsAreShaBound == Spec => []ApprovalIsShaBound
<1>1. IInv => ApprovalIsShaBound
  BY DEF IInv
<1> QED
  BY <1>1, Invariance, PTL

\* Every request pushed was approved as such, while no line crossed prompts.
THEOREM ApprovalsAreOfTheRequest == Spec => []ApprovalIsOfTheRequest
<1>1. IInv => ApprovalIsOfTheRequest
  BY DEF IInv
<1> QED
  BY <1>1, Invariance, PTL

\* server.ts: nothing is pushed behind an answer that says it was not.
THEOREM NoPushAfterFailure == Spec => []NoPushBehindAFailure
<1>1. IInv => NoPushBehindAFailure
  BY DEF IInv, PushedInv, NoPushBehindAFailure
<1> QED
  BY <1>1, Invariance, PTL

\* The browser can decide the request at the gate, and no other.
THEOREM GatesAreDecidable == Spec => []GateIsDecidable
<1>1. IInv => GateIsDecidable
  BY DEF IInv, HubInv, GateInv, Undecided, Waiting, Turn, Gates, GateIsDecidable
<1> QED
  BY <1>1, Invariance, PTL

\* reportOutcome is never forgotten.
THEOREM OutcomesAreReported == Spec => []OutcomeReported
<1>1. IInv => OutcomeReported
  BY DEF IInv, HubInv, Waiting, Turn, OutcomeReported
<1> QED
  BY <1>1, Invariance, PTL

-----------------------------------------------------------------------------
(* The refinements.                                                        *)

\* Every step of the broker is a step of the hub, or leaves it alone.
LEMMA HubStep == IInv /\ [Next]_vars => [Hub!HubNext]_(Hub!hubVars)
<1> SUFFICES ASSUME IInv, [Next]_vars PROVE Hub!HubNext \/ UNCHANGED <<pending, last>>
  BY DEF Hub!hubVars
<1> USE DEF IInv, TypeOK, hub, Hub!HubNext
<1>1. ASSUME NEW c \in Conns, at[c] \notin {"out", "validate"}
      PROVE  req[c] \in 1 .. MaxRequests
  BY <1>1, MaxRequestsAssumption DEF RequestInv
<1>2. ASSUME NEW c \in Conns, OpenGate(c) PROVE Hub!HubNext
  BY <1>1, <1>2 DEF OpenGate, Hub!Register, AttemptsInit, Hub!AttemptsInit
<1>3. ASSUME NEW c \in Conns, Canceled(c) \/ Declined(c) \/ Approved(c)
      PROVE  Hub!HubNext
  <2>1. PICK d \in {"approved", "declined", "canceled"} :
          last' = [id |-> req[c], decision |-> d, publish |-> "none"]
    BY <1>3 DEF Canceled, Declined, Approved, Outcome
  <2>2. pending' = None /\ req[c] \in 1 .. MaxRequests
    BY <1>1, <1>3 DEF Canceled, Declined, Approved
  <2> QED
    BY <2>1, <2>2 DEF Hub!Decide, Hub!Decisions
<1>4. ASSUME NEW c \in Conns, RefusePush(c) \/ Push(c)
      PROVE  Hub!HubNext \/ UNCHANGED <<pending, last>>
  <2>1. PICK result \in {"failed", "ok"} : Report(result) /\ pending' = pending
    BY <1>4 DEF RefusePush, Push, GhPrCreate
  <2> QED
    BY <2>1 DEF Report, Hub!ReportOutcome
<1>5. ASSUME NEW c \in Conns, SubmitApprove(c)
      PROVE  Hub!HubNext \/ UNCHANGED <<pending, last>>
  BY <1>5 DEF SubmitApprove, Hub!Mistyped
<1>6. \/ UNCHANGED <<pending, last>>
      \/ \E c \in Conns : \/ OpenGate(c) \/ Canceled(c) \/ Declined(c) \/ Approved(c)
                          \/ RefusePush(c) \/ Push(c) \/ SubmitApprove(c)
  BY DEF Next, vars, Connect, NoRequest, Dispatch, Abort, Continue, Refuse,
         Revalidate, Human,
         Render, TypeLine, ReadLine, SubmitDecline, Poll, World
<1> QED
  BY <1>2, <1>3, <1>4, <1>5, <1>6

\* gate.ts implements ApprovalHub.
THEOREM HubImplemented == Spec => ImplementsTheHub
<1>1. Init => Hub!HubInit
  BY DEF Init, Hub!HubInit
<1> QED
  BY <1>1, HubStep, Invariance, PTL DEF Spec, ImplementsTheHub, Hub!HubSpec

\* A handler's request is open until its peer is answered.
OpenAt(c) == conn[c] = "handling" /\ answer[c] = "none" /\ req[c] # 0

\* The open requests are those of the handlers.
LEMMA OpenRequests == \A n : n \in Open <=> \E c \in Conns : OpenAt(c) /\ req[c] = n
  BY DEF Open, OpenAt

\* A step that leaves every handler but c alone, and rendered nothing, closes at most
\* c's request.
LEMMA ClosesOne ==
  ASSUME IInv, NEW c \in Conns, req' = req,
         \A d \in Conns : d # c => (OpenAt(d) <=> OpenAt(d)'),
         OpenAt(c)' => OpenAt(c)
  PROVE  /\ \/ Open' = Open
            \/ req[c] \in Open /\ Open' = Open \ {req[c]}
         /\ OpenAt(c) /\ ~OpenAt(c)' => req[c] \in Open /\ Open' = Open \ {req[c]}
<1>1. \A n : n \in Open' <=> \E d \in Conns : OpenAt(d)' /\ req[d] = n
  BY DEF Open, OpenAt
<1>2. CASE ~(OpenAt(c) /\ ~OpenAt(c)')
  <2>1. \A n : n \in Open' <=> n \in Open
    BY <1>1, <1>2, OpenRequests
  <2>2. Open' = Open
    BY <2>1
  <2> QED
    BY <1>2, <2>2
<1>3. CASE OpenAt(c) /\ ~OpenAt(c)'
  <2>1. \A d \in Conns : OpenAt(d) /\ d # c => req[d] # req[c]
    BY DEF OpenAt, IInv, RequestInv
  <2> QED
    BY <1>1, <1>3, <2>1, OpenRequests
<1> QED
  BY <1>2, <1>3

\* Every step of the broker is one the gate promises, or shows nothing of it.
LEMMA GateStep == IInv /\ [Next]_vars => [Gate!GateNext]_(Gate!gate)
<1> SUFFICES ASSUME IInv, [Next]_vars
             PROVE  Gate!GateNext \/ UNCHANGED <<requests, Open, {p.id : p \in pushed}>>
  BY DEF Gate!gate
<1> USE DEF IInv, TypeOK, L!IInv, L!TypeOK, Gate!GateNext, OpenAt, L!Goto, L!Reply,
            Resume, listener
<1>1. ASSUME NEW c \in Conns, UNCHANGED <<req, requests, pushed>>,
             \A d \in Conns : d # c => (OpenAt(d) <=> OpenAt(d)'),
             OpenAt(c)' => OpenAt(c)
      PROVE  Gate!GateNext \/ UNCHANGED <<requests, Open, {p.id : p \in pushed}>>
  BY <1>1, ClosesOne DEF Gate!Close
<1>2. ASSUME NEW c \in Conns, Connect(c)
      PROVE  UNCHANGED <<requests, Open, {p.id : p \in pushed}>>
  <2>1. \A d \in Conns : (OpenAt(d) <=> OpenAt(d)') /\ (OpenAt(d) => req'[d] = req[d])
    BY <1>2 DEF Connect, L!Accept, L!RefuseBusy
  <2>2. \A n : n \in Open' <=> \E d \in Conns : OpenAt(d)' /\ req'[d] = n
    BY DEF Open
  <2>3. Open' = Open
    <3>1. ASSUME NEW n PROVE n \in Open' <=> n \in Open
      <4>1. n \in Open <=> \E d \in Conns : OpenAt(d) /\ req[d] = n
        BY OpenRequests, Zenon
      <4>2. (\E d \in Conns : OpenAt(d)' /\ req'[d] = n)
              <=> \E d \in Conns : OpenAt(d) /\ req[d] = n
        BY <2>1, Zenon
      <4> QED
        BY <2>2, <4>1, <4>2, Zenon
    <3> QED
      BY <3>1
  <2> QED
    BY <1>2, <2>3 DEF Connect
<1>3. ASSUME NEW c \in Conns, NoRequest(c) \/ Dispatch(c) \/ Abort(c)
      PROVE  Gate!GateNext \/ UNCHANGED <<requests, Open, {p.id : p \in pushed}>>
  <2>1. UNCHANGED <<req, requests, pushed>>
    BY <1>3 DEF NoRequest, Dispatch, Abort
  <2>2. CASE NoRequest(c)
    BY <1>1, <2>1, <2>2 DEF NoRequest, L!GiveUpReading, L!Broken, L!Closed, L!Malformed
  <2>3. CASE Dispatch(c)
    BY <1>1, <2>1, <2>3 DEF Dispatch, L!Dispatch, RequestInv
  <2>4. CASE Abort(c)
    BY <1>1, <2>1, <2>4 DEF Abort, L!BudgetExpires, L!ClientGone
  <2> QED
    BY <1>3, <2>2, <2>3, <2>4
<1>4. ASSUME NEW c \in Conns, NEW result \in Results, Finish(c, result)
      PROVE  /\ \A d \in Conns : d # c => (OpenAt(d) <=> OpenAt(d)') \/ req' # req
             /\ ~OpenAt(c)'
  BY <1>4 DEF Finish, L!HandlerEnds
<1>5. ASSUME NEW c \in Conns, NEW result \in Results, Finish(c, result),
             UNCHANGED <<req, requests, pushed>>
      PROVE  Gate!GateNext \/ UNCHANGED <<requests, Open, {p.id : p \in pushed}>>
  BY <1>1, <1>4, <1>5
<1>6. ASSUME NEW c \in Conns, Render(c) PROVE Gate!GateNext
  <2>1. /\ requests' = Append(requests, Current) /\ Current \in Request
        /\ Len(requests') = Len(requests) + 1 /\ Len(requests) \in Nat
    BY <1>6 DEF Render, Current, Request
  <2>2. /\ req' = [req EXCEPT ![c] = Len(requests')] /\ req[c] = 0
        /\ UNCHANGED <<conn, answer, pushed>>
    BY <1>6 DEF Render, RequestInv
  <2>3. conn[c] = "handling" /\ answer[c] = "none"
    BY <1>6 DEF Render, HandlerInv, L!Active
  <2>4. \A n : n \in Open' <=> \E d \in Conns : OpenAt(d)' /\ req'[d] = n
    BY DEF Open
  <2>5. \A d \in Conns : d # c => (OpenAt(d) <=> OpenAt(d)') /\ req'[d] = req[d]
    BY <2>2
  <2>6. ~OpenAt(c) /\ OpenAt(c)' /\ req'[c] = Len(requests')
    BY <2>1, <2>2, <2>3
  <2>7. Open' = Open \cup {Len(requests')}
    <3>1. ASSUME NEW n PROVE n \in Open' <=> n \in Open \/ n = Len(requests')
      <4>1. n \in Open <=> \E d \in Conns : d # c /\ OpenAt(d) /\ req[d] = n
        BY <2>6, OpenRequests
      <4>2. n \in Open' <=> \/ \E d \in Conns : d # c /\ OpenAt(d)' /\ req'[d] = n
                            \/ n = Len(requests')
        BY <2>4, <2>6
      <4> QED
        BY <2>5, <4>1, <4>2
    <3> QED
      BY <3>1
  <2> QED
    BY <2>1, <2>2, <2>7 DEF Gate!Offer
<1>7. ASSUME NEW c \in Conns, Push(c), pushed' # pushed PROVE Gate!GateNext
  <2>1. PICK result \in {"published", "pr_failed"} : Finish(c, result)
    BY <1>7 DEF Push, GhPrCreate
  <2>2. /\ at[c] = "push" /\ UNCHANGED <<req, requests>>
        /\ pushed' = pushed \cup {[id |-> req[c], sha |-> View(c).sha]}
    BY <1>7 DEF Push, PushApprovedSha
  <2>3. OpenAt(c)
    BY <1>7, <2>2 DEF Push, HandlerInv, L!Active, RequestInv
  <2>4. req[c] \in Open /\ Open' = Open \ {req[c]}
    <3>1. result \in Results
      BY DEF Results
    <3>2. ~OpenAt(c)' /\ \A d \in Conns : d # c => (OpenAt(d) <=> OpenAt(d)')
      BY <1>4, <2>1, <2>2, <3>1
    <3> QED
      BY <2>2, <2>3, <3>2, ClosesOne
  <2>5. {p.id : p \in pushed'} = {p.id : p \in pushed} \cup {req[c]}
    <3> DEFINE new == [id |-> req[c], sha |-> View(c).sha]
    <3>1. new.id = req[c]
      OBVIOUS
    <3> HIDE DEF new
    <3>2. pushed' = pushed \cup {new}
      BY <2>2 DEF new
    <3> QED
      BY <3>1, <3>2, Zenon
  <2> QED
    BY <2>2, <2>4, <2>5 DEF Gate!Publish
<1>8. ASSUME NEW c \in Conns, OpenGate(c) \/ Approved(c) \/ Revalidate(c)
      PROVE  UNCHANGED <<requests, Open, {p.id : p \in pushed}>>
  BY <1>8 DEF OpenGate, Approved, Revalidate, Open
<1>9. ASSUME NEW c \in Conns, Continue(c)
      PROVE  Gate!GateNext \/ UNCHANGED <<requests, Open, {p.id : p \in pushed}>>
  BY <1>5, <1>6, <1>7, <1>8, <1>9
  DEF Continue, Refuse, Canceled, Declined, RefusePush, Revalidate, Push, GhPrCreate,
      Results
<1>10. CASE Human \/ Poll \/ World
  BY <1>10, HumansMove DEF Open
<1>11. CASE UNCHANGED vars
  BY <1>11 DEF vars, Open
<1> QED
  BY <1>2, <1>3, <1>8, <1>9, <1>10, <1>11 DEF Next

\* The broker keeps the promise of PublishGate: it publishes a request at most once, as
\* it was rendered, and never after it was closed.
THEOREM PromiseKept == Spec => KeepsThePromise
<1>1. Init => Gate!GateInit
  BY DEF Init, L!Init, Gate!GateInit, Open
<1> QED
  BY <1>1, GateStep, Invariance, PTL DEF Spec, KeepsThePromise, Gate!GateSpec
=============================================================================

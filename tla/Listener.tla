------------------------------ MODULE Listener ------------------------------
(***************************************************************************)
(* The UNIX socket listener in front of every daemon's handler: one        *)
(* request per connection, one connection at a time, a read timeout before *)
(* the request and a budget after it.  The broker, the worker daemon and   *)
(* the reviewer each hold a copy (broker/src/server.ts,                    *)
(* harness/src/workerd/server.ts, reviewer/src/server.ts).                 *)
(*                                                                         *)
(* A step is one callback of the event loop.  A connection is a slot that  *)
(* a later client reuses.                                                  *)
(*                                                                         *)
(* Auxiliary state, read by no guard: owner, rereleased.                   *)
(***************************************************************************)

CONSTANTS
  Conns,    \* the connections
  Results,  \* what a handler may answer
  None      \* nobody

ASSUME ListenerAssumption ==
  /\ None \notin Conns
  /\ Results \cap {"none", "busy", "failed", "lost"} = {}

VARIABLES
  conn,       \* conn[c]: where the server is with connection c
  busy,       \* the busy flag
  aborted,    \* aborted[c]: c's AbortController fired
  answer,     \* answer[c]: the one reply written to c; "lost": its peer is gone
  owner,      \* auxiliary: the connection that raised the flag, while it is up
  rereleased  \* auxiliary: a connection lowered the flag of another one

vars == <<conn, busy, aborted, answer, owner, rereleased>>

\* The first reply wins, and none reaches a peer that is gone.
Reply(c, value) ==
  answer' = IF answer[c] = "none" THEN [answer EXCEPT ![c] = value] ELSE answer

ReplyAgain(c, value) == answer' = [answer EXCEPT ![c] = value]

Release(c) ==
  /\ busy' = FALSE
  /\ owner' = None
  /\ rereleased' = (rereleased \/ owner \notin {c, None})

Goto(c, place) == conn' = [conn EXCEPT ![c] = place]

-----------------------------------------------------------------------------
AcceptThoughBusy(c) ==
  /\ conn[c] = "closed"
  /\ Goto(c, "reading")
  /\ busy' = TRUE
  /\ owner' = c
  /\ aborted' = [aborted EXCEPT ![c] = FALSE]
  /\ answer' = [answer EXCEPT ![c] = "none"]
  /\ UNCHANGED rereleased

Accept(c) ==
  /\ conn[c] = "closed"
  /\ ~busy
  /\ Goto(c, "reading")
  /\ busy' = TRUE
  /\ owner' = c
  /\ aborted' = [aborted EXCEPT ![c] = FALSE]
  /\ answer' = [answer EXCEPT ![c] = "none"]
  /\ UNCHANGED rereleased

RefuseBusy(c) ==
  /\ conn[c] = "closed"
  /\ busy
  /\ aborted' = [aborted EXCEPT ![c] = FALSE]
  /\ answer' = [answer EXCEPT ![c] = "busy"]
  /\ UNCHANGED <<conn, busy, owner, rereleased>>

\* The read timeout, or a request beyond the size limit: the socket is
\* destroyed, and its close event comes in a later phase of the event loop.
GiveUpReading(c) ==
  /\ conn[c] = "reading"
  /\ Goto(c, "dying")
  /\ Reply(c, "failed")
  /\ Release(c)
  /\ UNCHANGED aborted

\* The error event of a broken connection; its close event follows.
Broken(c) ==
  /\ conn[c] = "reading"
  /\ Goto(c, "dying")
  /\ aborted' = [aborted EXCEPT ![c] = TRUE]
  /\ Reply(c, "lost")
  /\ Release(c)

\* The close event of a connection that dispatched nothing: onGone releases,
\* also when the connection has released before.
Closed(c) ==
  /\ conn[c] \in {"reading", "dying"}
  /\ Goto(c, "closed")
  /\ aborted' = [aborted EXCEPT ![c] = TRUE]
  /\ Reply(c, "lost")
  /\ Release(c)

\* The request line is not JSON.
Malformed(c) ==
  /\ conn[c] = "reading"
  /\ Goto(c, "closed")
  /\ Reply(c, "failed")
  /\ Release(c)
  /\ UNCHANGED aborted

Dispatch(c) ==
  /\ conn[c] = "reading"
  /\ Goto(c, "handling")
  /\ UNCHANGED <<busy, aborted, answer, owner, rereleased>>

BudgetRepliesOnly(c) ==
  /\ conn[c] = "handling"
  /\ Reply(c, "failed")
  /\ UNCHANGED <<conn, busy, aborted, owner, rereleased>>

\* The budget's timer: the handler is aborted, and its client told so at once.
BudgetExpires(c) ==
  /\ conn[c] = "handling"
  /\ aborted' = [aborted EXCEPT ![c] = TRUE]
  /\ Reply(c, "failed")
  /\ UNCHANGED <<conn, busy, owner, rereleased>>

\* The peer of a dispatched request hangs up.
ClientGone(c) ==
  /\ conn[c] = "handling"
  /\ aborted' = [aborted EXCEPT ![c] = TRUE]
  /\ Reply(c, "lost")
  /\ UNCHANGED <<conn, busy, owner, rereleased>>

HandlerEndsReplyingAgain(c, result) ==
  /\ conn[c] = "handling"
  /\ Goto(c, "closed")
  /\ ReplyAgain(c, result)
  /\ Release(c)
  /\ UNCHANGED aborted

HandlerEndsUnreleased(c, result) ==
  /\ conn[c] = "handling"
  /\ Goto(c, "closed")
  /\ Reply(c, result)
  /\ IF aborted[c] THEN UNCHANGED <<busy, owner, rereleased>> ELSE Release(c)
  /\ UNCHANGED aborted

\* The handler returned or threw: its answer goes out unless one went before.
HandlerEnds(c, result) ==
  /\ conn[c] = "handling"
  /\ Goto(c, "closed")
  /\ Reply(c, result)
  /\ Release(c)
  /\ UNCHANGED aborted

-----------------------------------------------------------------------------
Init ==
  /\ conn = [c \in Conns |-> "closed"]
  /\ busy = FALSE
  /\ aborted = [c \in Conns |-> FALSE]
  /\ answer = [c \in Conns |-> "none"]
  /\ owner = None
  /\ rereleased = FALSE

Reading(c) == GiveUpReading(c) \/ Broken(c) \/ Closed(c) \/ Malformed(c) \/ Dispatch(c)

Handling(c) ==
  BudgetExpires(c) \/ ClientGone(c) \/ \E result \in Results : HandlerEnds(c, result)

Next == \E c \in Conns : Accept(c) \/ RefuseBusy(c) \/ Reading(c) \/ Handling(c)

Spec == Init /\ [][Next]_vars

\* The read timeout is armed on every connection, a destroyed socket closes,
\* the budget's timer fires, and a handler that is aborted settles.
Fairness ==
  \A c \in Conns :
    /\ WF_vars(Reading(c))
    /\ WF_vars(~aborted[c] /\ BudgetExpires(c))
    /\ WF_vars(aborted[c] /\ \E result \in Results : HandlerEnds(c, result))

FairSpec == Spec /\ Fairness

-----------------------------------------------------------------------------
(* Properties.                                                             *)

\* The values each variable takes.
TypeOK ==
  /\ conn \in [Conns -> {"closed", "reading", "dying", "handling"}]
  /\ busy \in BOOLEAN
  /\ aborted \in [Conns -> BOOLEAN]
  /\ answer \in [Conns -> {"none", "busy", "failed", "lost"} \cup Results]
  /\ owner \in Conns \cup {None}
  /\ rereleased \in BOOLEAN

Active(c) == conn[c] \in {"reading", "handling"}

\* server.ts: "SERIAL by construction".  One connection at a time is read or
\* handled, over timeouts, broken peers, budgets and reused slots, as long as
\* no destroyed socket's close event lowered the flag a second time, under
\* another connection.
SerialUnlessRereleased ==
  ~rereleased => \A c, d \in Conns : Active(c) /\ Active(d) => c = d

\* The flag never outlives its connection: no failure path of a request leaves
\* the daemon answering "busy" to everybody.
BusyIsOwned == busy => \E c \in Conns : Active(c)

\* A request that was given up (its budget expired, its peer left) is never
\* answered with the handler's late result: "the broker never gets a late,
\* contradictory response" (reviewer/src/server.ts).
NoLateResult == \A c \in Conns : aborted[c] => answer[c] \notin Results

\* Whatever a client or a handler does, the daemon becomes free again.
EventuallyFree == busy ~> ~busy

\* Every dispatched request ends.
RequestSettles == \A c \in Conns : (conn[c] = "handling") ~> (conn[c] = "closed")

-----------------------------------------------------------------------------
(* The inductive invariant behind them.                                    *)

OwnerInv ==
  /\ busy <=> owner # None
  /\ owner # None => Active(owner)

SoleInv == ~rereleased => \A c \in Conns : Active(c) => owner = c

AnswerInv ==
  \A c \in Conns :
    /\ conn[c] # "closed" => answer[c] \in {"none", "failed", "lost"}
    /\ Active(c) /\ answer[c] = "none" => ~aborted[c]

IInv == TypeOK /\ OwnerInv /\ SoleInv /\ AnswerInv /\ NoLateResult
=============================================================================

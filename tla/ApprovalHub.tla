----------------------------- MODULE ApprovalHub -----------------------------
(***************************************************************************)
(* What the broker's ApprovalHub (gate.ts) shows on the approval socket,   *)
(* whoever decides and however: at most one pending request, and the       *)
(* outcome of the last one.  Broker implements it; Serve is built on it.   *)
(***************************************************************************)
EXTENDS Integers

CONSTANTS
  Ids,   \* the requests
  None   \* no request, no outcome

AttemptsInit == 3  \* ATTEMPTS_INIT

VARIABLES
  pending,  \* the request at the gate, and the attempts it has left, or None
  last      \* the last outcome, or None

hubVars == <<pending, last>>

Decisions == {"approved", "declined", "canceled"}

\* decide() registers a request.
Register(id) ==
  /\ pending' = [id |-> id, left |-> AttemptsInit]
  /\ UNCHANGED last

\* submitApprove with another sha than the request's.
Mistyped ==
  /\ pending # None
  /\ pending.left > 1
  /\ pending' = [pending EXCEPT !.left = @ - 1]
  /\ UNCHANGED last

\* decide() resumes with an answer, or is aborted.
Decide(id, decision) ==
  /\ pending' = None
  /\ last' = [id |-> id, decision |-> decision, publish |-> "none"]

\* reportOutcome.
ReportOutcome(result) ==
  /\ last # None
  /\ last.decision = "approved"
  /\ last' = [last EXCEPT !.publish = result]
  /\ UNCHANGED pending

HubInit == pending = None /\ last = None

HubNext ==
  \/ \E id \in Ids : Register(id) \/ \E decision \in Decisions : Decide(id, decision)
  \/ Mistyped
  \/ \E result \in {"failed", "ok"} : ReportOutcome(result)

HubSpec == HubInit /\ [][HubNext]_hubVars
=============================================================================

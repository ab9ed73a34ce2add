---------------------------- MODULE PublishGate ----------------------------
(***************************************************************************)
(* What the broker promises, whoever asks and whoever decides: a request   *)
(* is offered once, as it was rendered; it is published at most once, and  *)
(* never after it was closed, that is, after its requester was answered,   *)
(* was told of a failure, or left.                                         *)
(***************************************************************************)
EXTENDS Naturals, Sequences

CONSTANT Offers  \* what can be offered

VARIABLES
  offers,    \* the requests offered so far
  open,      \* the requests not closed yet
  published  \* the requests published

gate == <<offers, open, published>>

GateInit ==
  /\ offers = <<>>
  /\ open = {}
  /\ published = {}

Offer ==
  /\ \E what \in Offers : offers' = Append(offers, what)
  /\ open' = open \cup {Len(offers')}
  /\ UNCHANGED published

Publish ==
  \E n \in open :
    /\ published' = published \cup {n}
    /\ open' = open \ {n}
    /\ UNCHANGED offers

Close ==
  \E n \in open :
    /\ open' = open \ {n}
    /\ UNCHANGED <<offers, published>>

GateNext == Offer \/ Publish \/ Close

GateSpec == GateInit /\ [][GateNext]_gate
=============================================================================

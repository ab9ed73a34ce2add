------------------------------ MODULE MCSpine ------------------------------
(***************************************************************************)
(* Spine on small instances, and a statement of its documentation that     *)
(* the code does not live up to.                                           *)
(***************************************************************************)
EXTENDS Spine

SendsIntent == pc # "publish" /\ pc' = "publish"

\* spined/tools.ts: request_publish "requires a green run_tests AND an
\* approving review_diff, BOTH recorded of the CURRENT head".  Here the current
\* head is the commit at HEAD when the intent is sent, which is what the broker
\* goes on to publish.
VerdictsAreOfTheCurrentHead ==
  [][SendsIntent => /\ entry[cur'].green.sha = head[cur']
                    /\ entry[cur'].approved.sha = head[cur']]_vars
=============================================================================

---------------------------- MODULE TicketRecord ----------------------------
(***************************************************************************)
(* What the record of a multi-repository ticket promises to whoever        *)
(* resumes it: repositories are published one at a time, a published one   *)
(* stays published, and all of them are published for one instruction,     *)
(* which can be corrected until the first of them is.                      *)
(***************************************************************************)
CONSTANTS
  Stories,       \* the instructions a ticket can have
  Participants,  \* the repositories it can span
  NoStory        \* there is no record yet

VARIABLES
  story,  \* the recorded instruction
  done    \* the repositories on record as published

ticket == <<story, done>>

TicketInit == story = NoStory /\ done = {}

\* The ticket begins, or its instruction is corrected.
Tell == done = {} /\ story' \in Stories /\ UNCHANGED done

Complete ==
  /\ story # NoStory
  /\ \E r \in Participants \ done : done' = done \cup {r}
  /\ UNCHANGED story

TicketSpec == TicketInit /\ [][Tell \/ Complete]_ticket
=============================================================================

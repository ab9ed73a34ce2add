------------------------------ MODULE MCDriver ------------------------------
(***************************************************************************)
(* Driver on small instances, and a statement of its comments that the     *)
(* code does not live up to.                                               *)
(***************************************************************************)
EXTENDS Driver

CONSTANTS r1, r2

\* No --repos, and --repos naming the second repository first, or alone.
MCSelections == {<<r1, r2>>, <<r2, r1>>, <<r2>>}

\* gitops.ts: the reviewed diff is the "diff of everything the pipeline produced:
\* <baseSha>..HEAD", whose base orchestrator.ts takes to be recorded "right before
\* the worktree's first commit gets made".
EverythingProducedIsReviewed == \A p \in shipped : p.from = 0
=============================================================================

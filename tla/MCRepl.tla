-------------------------------- MODULE MCRepl --------------------------------
(***************************************************************************)
(* Repl on a small instance.                                               *)
(***************************************************************************)
EXTENDS Repl, TLC
=============================================================================

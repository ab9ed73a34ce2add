------------------------------- MODULE MCServe -------------------------------
(***************************************************************************)
(* Serve on a small instance.                                              *)
(***************************************************************************)
EXTENDS Serve, TLC

MCIds == 1 .. 2
=============================================================================

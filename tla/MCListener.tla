----------------------------- MODULE MCListener -----------------------------
(***************************************************************************)
(* Listener on a small instance.                                           *)
(***************************************************************************)
EXTENDS Listener, TLC

Symmetry == Permutations(Conns)
=============================================================================

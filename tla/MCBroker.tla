------------------------------ MODULE MCBroker ------------------------------
(***************************************************************************)
(* Broker and PublishGate on small instances.                              *)
(***************************************************************************)
EXTENDS Broker, TLC

Symmetry == Permutations(Conns) \cup Permutations(Shas) \cup Permutations(Targets)
=============================================================================

---------------------------- MODULE MCSpinedLock ----------------------------
(***************************************************************************)
(* SpinedLock on a small instance.                                         *)
(***************************************************************************)
EXTENDS SpinedLock, TLC

Symmetry == Permutations(Procs)
=============================================================================

-------------------------- MODULE MCOperationLock --------------------------
(* Instances of OperationLock for TLC.                                     *)
EXTENDS OperationLock, TLC

Symmetry == Permutations(Process)
=============================================================================

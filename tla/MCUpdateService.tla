-------------------------- MODULE MCUpdateService --------------------------
(* The update service with a few script processes, all alike.               *)
EXTENDS UpdateService, TLC

Symmetry == Permutations(Worker)
=============================================================================

----------------------------- MODULE MCSession -----------------------------
(* The dialog box with a few windows and script processes, all alike.       *)
EXTENDS Session, TLC

Symmetry == Permutations(Worker) \cup Permutations(Window)
=============================================================================

------------------------------ MODULE MCDaemon ------------------------------
(* The event loop with a handful of peers. Peers are interchangeable.        *)
EXTENDS Daemon

Symmetry == Permutations(Peer)
=============================================================================

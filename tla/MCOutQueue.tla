---------------------------- MODULE MCOutQueue ----------------------------
(* OutQueue on small sizes, in the order of the real ones: a message may     *)
(* exceed the compaction threshold and the ceiling exceeds both.             *)
EXTENDS OutQueue
===========================================================================

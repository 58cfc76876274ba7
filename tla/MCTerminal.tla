----------------------------- MODULE MCTerminal -----------------------------
(* Two terminal windows and few process numbers, so that they come back.     *)
EXTENDS Terminal
=============================================================================

----------------------------- MODULE MCDesktop -----------------------------
(* The windows of the desktop, with few of them.                             *)
EXTENDS Desktop
=============================================================================

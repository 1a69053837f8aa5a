----------------------------- MODULE MCConsole -----------------------------
(* Console for TLC: one session to begin with, and one that may be created. *)
EXTENDS Console

CONSTANTS s1, s2
=============================================================================

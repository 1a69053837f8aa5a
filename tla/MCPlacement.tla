----------------------------- MODULE MCPlacement -----------------------------
(* Placement for TLC: every constant is given by the configuration.        *)
EXTENDS Placement
=============================================================================

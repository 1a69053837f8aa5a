--------------------------- MODULE MCSessionLease ---------------------------
(* SessionLease for TLC: every constant is given by the configurations.    *)
EXTENDS SessionLease
=============================================================================

--------------------------- MODULE MCEventReports ---------------------------
(* EventReports for TLC: every constant is given by the configurations.    *)
EXTENDS EventReports, TLC

\* The turns of a session are interchangeable.  Only for invariants.
TurnSymmetry == Permutations(Turn)
=============================================================================

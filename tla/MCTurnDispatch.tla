--------------------------- MODULE MCTurnDispatch ---------------------------
(* TurnDispatch for TLC.                                                   *)
EXTENDS TurnDispatch, TLC

TurnSymmetry ==
    Permutations(Worker) \cup Permutations(Turn) \cup Permutations(Key)
=============================================================================

--------------------------- MODULE MCTurnManager ---------------------------
(***************************************************************************)
(* TurnManager for TLC, on small sets of runs.  The runs are               *)
(* interchangeable: nothing orders them, so the safety runs are checked up *)
(* to their permutations.                                                  *)
(***************************************************************************)
EXTENDS TurnManager, TLC

RunSymmetry == Permutations(Runs)

=============================================================================

----------------------------- MODULE MCTuiLoop -----------------------------
(***************************************************************************)
(* Two messages; a batch of two calls, and then a batch of one call, which   *)
(* cannot be approved for the session.                                     *)
(***************************************************************************)
EXTENDS TuiLoop

CONSTANTS c1, c2, c3

MCBatches == <<<<c1, c2>>, <<c3>>>>
MCNever == {c1}
=============================================================================

-------------------------- MODULE MCStdioTransport --------------------------
(***************************************************************************)
(* StdioTransport for TLC.  The calls of Send are interchangeable.         *)
(***************************************************************************)
EXTENDS StdioTransport, TLC

SenderSymmetry == Permutations(Senders)

=============================================================================

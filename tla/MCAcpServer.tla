---------------------------- MODULE MCAcpServer ----------------------------
(***************************************************************************)
(* AcpServer for TLC.  Prompts, cancels and sessions are interchangeable.  *)
(***************************************************************************)
EXTENDS AcpServer, TLC

RequestSymmetry ==
  Permutations(Prompts) \cup Permutations(Cancels) \cup Permutations(Sessions)

=============================================================================

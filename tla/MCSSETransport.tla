--------------------------- MODULE MCSSETransport ---------------------------
(***************************************************************************)
(* SSETransport for TLC.  The calls after the handshake are                *)
(* interchangeable, and so are the calls of Close.                         *)
(***************************************************************************)
EXTENDS SSETransport, TLC

CallSymmetry ==
  Permutations(Senders \ {Handshake}) \cup Permutations(Closers)

=============================================================================

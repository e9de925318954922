--------------------------- MODULE MCConversation ---------------------------
(***************************************************************************)
(* Two sessions, one that is worked in and one that is made from it or     *)
(* imported; small limits, so that reads are cut off and summaries made.   *)
(***************************************************************************)
EXTENDS Conversation

CONSTANTS s1, s2

Symmetry == Permutations(Sessions)
=============================================================================

-------------------------- MODULE MCFallbackStream --------------------------
(***************************************************************************)
(* FallbackStream for TLC: a primary that sends text alone or text, a call *)
(* and the end in one event, and a fallback that sends the latter.         *)
(***************************************************************************)
EXTENDS FallbackStream

TextOnly == [text |-> TRUE, call |-> FALSE, end |-> "no"]
Whole    == [text |-> TRUE, call |-> TRUE, end |-> "finish"]

MCPayloads ==
  [c \in Clients |-> IF c = Primary THEN {TextOnly, Whole} ELSE {Whole}]

MCEvents == [c \in Clients |-> 1]

=============================================================================

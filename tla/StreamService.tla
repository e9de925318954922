---------------------------- MODULE StreamService ----------------------------
(***************************************************************************)
(* What the turn engine relies on when it reads the answer of a language   *)
(* model (internal/core/turn.go:818-903, pkg/api LLMClient.ChatStream): a  *)
(* stream is text and then one last chunk, "done" or "error", and it is    *)
(* closed after that chunk, or without it because the caller's context is  *)
(* done.  The engine takes a stream that closes without a last chunk, in a *)
(* live context, for a complete answer without tool calls.                 *)
(***************************************************************************)
EXTENDS Naturals, Sequences

VARIABLES life,    \* "none" until ChatStream returns, "open", "closed"
          chunks,  \* what has been put on the channel
          cut      \* whether the caller's context is done

vars == <<life, chunks, cut>>

IsLast(kind) == kind \in {"done", "error"}

Ended == chunks # <<>> /\ IsLast(chunks[Len(chunks)].kind)

Init == life = "none" /\ chunks = <<>> /\ cut = FALSE

\* A stream may be returned with chunks in it, and may have been closed.
Open ==
  /\ life = "none" /\ life' \in {"open", "closed"}
  /\ life' = "closed" => Ended' \/ cut
  /\ \A i \in 1 .. Len(chunks') - 1 : ~IsLast(chunks'[i].kind)
  /\ UNCHANGED cut

Put ==
  /\ life = "open" /\ ~Ended
  /\ Len(chunks') = Len(chunks) + 1 /\ SubSeq(chunks', 1, Len(chunks)) = chunks
  /\ UNCHANGED <<life, cut>>

Close ==
  /\ life = "open" /\ (Ended \/ cut)
  /\ life' = "closed"
  /\ UNCHANGED <<chunks, cut>>

Cut == cut' = TRUE /\ UNCHANGED <<life, chunks>>

Next == Open \/ Put \/ Close \/ Cut

Spec == Init /\ [][Next]_vars

=============================================================================

---------------------------- MODULE TurnService ----------------------------
(***************************************************************************)
(* What the turn engine promises its users, without saying how: one turn   *)
(* is in flight at a time, a call made meanwhile is refused, and tools run *)
(* only inside the turn in flight and, when the gate wants a decision,     *)
(* only after a user said yes to that call of that request.  TurnManager   *)
(* implements it.                                                          *)
(***************************************************************************)
EXTENDS Naturals

CONSTANTS Runs,   \* the calls of RunTurn*
          Calls   \* the tool calls of a response

VARIABLES phase,    \* of each run: "idle", "busy", "over" or "refused"
          granted,  \* the <<request, call>> pairs a user said yes to
          ran       \* the tool executions; req is 0 where the gate allowed it

vars == <<phase, granted, ran>>

Init ==
  /\ phase = [r \in Runs |-> "idle"]
  /\ granted = {} /\ ran = {}

Accept(r) ==
  /\ phase[r] = "idle" /\ \A q \in Runs : phase[q] # "busy"
  /\ phase' = [phase EXCEPT ![r] = "busy"]
  /\ UNCHANGED <<granted, ran>>

Refuse(r) ==
  /\ phase[r] = "idle" /\ \E q \in Runs : phase[q] = "busy"
  /\ phase' = [phase EXCEPT ![r] = "refused"]
  /\ UNCHANGED <<granted, ran>>

End(r) ==
  /\ phase[r] = "busy"
  /\ phase' = [phase EXCEPT ![r] = "over"]
  /\ UNCHANGED <<granted, ran>>

\* A user may say yes only while a turn is in flight.
Grant ==
  /\ \E r \in Runs : phase[r] = "busy"
  /\ granted \subseteq granted' /\ granted' \subseteq Nat \X Calls
  /\ UNCHANGED <<phase, ran>>

RunTool(r, call, req) ==
  /\ phase[r] = "busy"
  /\ req > 0 => <<req, call>> \in granted
  /\ ran' = ran \cup {[run |-> r, req |-> req, call |-> call]}
  /\ UNCHANGED <<phase, granted>>

Next ==
  \/ Grant
  \/ \E r \in Runs : Accept(r) \/ Refuse(r) \/ End(r)
  \/ \E x \in ran' : RunTool(x.run, x.call, x.req)

Spec == Init /\ [][Next]_vars

=============================================================================

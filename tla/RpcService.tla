----------------------------- MODULE RpcService -----------------------------
(***************************************************************************)
(* What an MCP transport promises its callers (the Transport interface of  *)
(* internal/mcp/transport.go): calls overlap freely; each one ends once,   *)
(* either with an answer the server gave to that very call or with an      *)
(* error; and once the transport is down it stays down and takes no more   *)
(* calls.  StdioTransport and SSETransport implement it.                   *)
(***************************************************************************)

CONSTANT Calls      \* the calls of Send

VARIABLES life,     \* "new" before Connect, then "up", at last "down"
          phase,    \* of each call
          replied   \* the calls the server has answered

vars == <<life, phase, replied>>

Init ==
  /\ life = "new" /\ phase = [c \in Calls |-> "idle"] /\ replied = {}

Connect == life = "new" /\ life' = "up" /\ UNCHANGED <<phase, replied>>

GoDown == life # "down" /\ life' = "down" /\ UNCHANGED <<phase, replied>>

Begin(c) ==
  /\ life = "up" /\ phase[c] = "idle"
  /\ phase' = [phase EXCEPT ![c] = "open"]
  /\ UNCHANGED <<life, replied>>

Refuse(c) ==
  /\ life # "up" /\ phase[c] = "idle"
  /\ phase' = [phase EXCEPT ![c] = "failed"]
  /\ UNCHANGED <<life, replied>>

\* The server may answer a call whose caller has given up.
Reply(c) ==
  /\ phase[c] # "idle" /\ c \notin replied
  /\ replied' = replied \cup {c}
  /\ UNCHANGED <<life, phase>>

Answer(c) ==
  /\ phase[c] = "open" /\ c \in replied
  /\ phase' = [phase EXCEPT ![c] = "answered"]
  /\ UNCHANGED <<life, replied>>

Fail(c) ==
  /\ phase[c] = "open"
  /\ phase' = [phase EXCEPT ![c] = "failed"]
  /\ UNCHANGED <<life, replied>>

Next ==
  \/ Connect \/ GoDown
  \/ \E c \in Calls : Begin(c) \/ Refuse(c) \/ Reply(c) \/ Answer(c) \/ Fail(c)

Spec == Init /\ [][Next]_vars

=============================================================================

----------------------------- MODULE AcpServer -----------------------------
(***************************************************************************)
(* The ACP server (internal/acp): one goroutine reads the requests of an   *)
(* external agent and handles all but session/prompt itself; a prompt gets *)
(* a goroutine of its own, which runs a turn, forwards its events and      *)
(* answers.  A critical section of s.mu is one step, and so is the writing *)
(* of a response; the deferred calls of handleSessionPrompt follow the     *)
(* response one by one.                                                    *)
(*                                                                         *)
(* The turn engine is what TurnManager shows it to be: one turn at a time, *)
(* whose channel is closed after its last event; a turn that is cancelled  *)
(* ends, with or without an error event; a turn that asks for approval     *)
(* waits, and over ACP nobody can answer.                                  *)
(***************************************************************************)
EXTENDS Naturals, Sequences, FiniteSets

CONSTANTS
  Prompts,    \* the session/prompt requests
  Cancels,    \* the session/cancel requests
  Sessions,
  EventCap,   \* capacity of a turn's event channel
  Polite,     \* whether the client waits for the response to a prompt
              \* before it sends the next
  None

Responses == {"no session", "invalid", "busy", "not started", "failed",
              "completed", "lost"}

ASSUME ConstantsAssumption ==
  /\ None \notin Prompts \cup Sessions \cup Responses
  /\ EventCap \in Nat \ {0} /\ Polite \in BOOLEAN

VARIABLES
  \* The server.
  run,         \* Run: reading, waiting for the prompts, or over
  runDone,     \* the context of Run is done
  session, promptInFlight, cancelFn,
  \* The prompts and cancels.
  pc,          \* where each prompt's goroutine is
  sid,         \* the session each prompt has captured
  reply,       \* the prompts that have read a done event
  response,    \* what each prompt was answered
  cancelled,   \* the prompts whose context a session/cancel has ended
  released,    \* the prompts whose context the deferred cancel has ended
  answer,      \* what each cancel was answered
  \* The turn engine.
  turnOf,      \* the turn of each prompt
  channel      \* its event channel

serverVars == <<run, runDone, session>>
slotVars   == <<promptInFlight, cancelFn>>
ctxVars    == <<cancelled, released>>
engineVars == <<turnOf, channel>>
acpVars == <<serverVars, slotVars, pc, sid, reply, response, ctxVars, answer,
             engineVars>>

AcpTypeOK ==
  /\ run \in {"reading", "draining", "over"} /\ runDone \in BOOLEAN
  /\ session \in Sessions \cup {None}
  /\ promptInFlight \in BOOLEAN /\ cancelFn \in Prompts \cup {None}
  /\ pc \in [Prompts -> {"unsent", "called", "prepared", "registered",
                         "starting", "reading", "ending", "unset", "release",
                         "done"}]
  /\ sid \in [Prompts -> Sessions \cup {None}]
  /\ \A p \in Prompts : pc[p] \in {"starting", "reading"} => sid[p] # None
  /\ reply \subseteq Prompts
  /\ response \in [Prompts -> Responses \cup {None}]
  /\ cancelled \subseteq Prompts /\ released \subseteq Prompts
  /\ answer \in [Cancels -> {"unsent", "yes", "no"}]
  /\ turnOf \in [Prompts -> {"none", "running", "asking", "settled", "over"}]
  /\ channel \in [Prompts -> Seq({"content", "approval", "done", "error"})]
  /\ \A p \in Prompts : Len(channel[p]) <= EventCap

Go(p, l) == pc' = [pc EXCEPT ![p] = l]

Step(p, from, to) == pc[p] = from /\ Go(p, to)

\* Nothing is written any more once the context of Run is done.
Respond(p, r) ==
  response' = [response EXCEPT ![p] = IF runDone THEN "lost" ELSE r]

CtxDone(p) == runDone \/ p \in cancelled \cup released

-----------------------------------------------------------------------------
(* The loop of Run. *)

HasResponse(p) == response[p] # None

\* A prompt is read and gets its goroutine.
ReadPrompt(p) ==
  /\ run = "reading" /\ Step(p, "unsent", "called")
  /\ Polite => \A q \in Prompts : pc[q] = "unsent" \/ HasResponse(q)
  /\ UNCHANGED <<serverVars, slotVars, sid, reply, response, ctxVars, answer,
                 engineVars>>

\* session/new or session/load has succeeded; one that fails leaves no trace.
SetSession(x) ==
  /\ run = "reading" /\ session # x
  /\ session' = x
  /\ UNCHANGED <<run, runDone, slotVars, pc, sid, reply, response, ctxVars,
                 answer, engineVars>>

\* cancelCurrent and the response.
ReadCancel(k) ==
  /\ run = "reading" /\ answer[k] = "unsent"
  /\ IF promptInFlight /\ cancelFn # None
     THEN /\ cancelled' = cancelled \cup {cancelFn}
          /\ cancelFn' = None
          /\ answer' = [answer EXCEPT ![k] = "yes"]
     ELSE /\ answer' = [answer EXCEPT ![k] = "no"]
          /\ UNCHANGED <<cancelled, cancelFn>>
  /\ UNCHANGED <<serverVars, promptInFlight, pc, sid, reply, response,
                 released, engineVars>>

\* End of input, or a response that cannot be written: the loop waits for
\* the prompts.
InputEnds ==
  /\ run = "reading" /\ run' = "draining"
  /\ UNCHANGED <<runDone, session, slotVars, pc, sid, reply, response,
                 ctxVars, answer, engineVars>>

Stop ==
  /\ run # "over" /\ ~runDone /\ runDone' = TRUE
  /\ UNCHANGED <<run, session, slotVars, pc, sid, reply, response, ctxVars,
                 answer, engineVars>>

\* The loop sees that its context is done.
StopSeen == runDone /\ InputEnds

\* wg.Wait is over: Run returns and closes the app.
RunReturns ==
  /\ run = "draining" /\ run' = "over"
  /\ \A p \in Prompts : pc[p] \in {"unsent", "done"}
  /\ UNCHANGED <<runDone, session, slotVars, pc, sid, reply, response,
                 ctxVars, answer, engineVars>>

-----------------------------------------------------------------------------
(* handleSessionPrompt. *)

InvalidPrompt(p) ==
  /\ Step(p, "called", "done") /\ Respond(p, "invalid")
  /\ UNCHANGED <<serverVars, slotVars, sid, reply, ctxVars, answer,
                 engineVars>>

NoSession(p) ==
  /\ Step(p, "called", "done") /\ session = None
  /\ Respond(p, "no session")
  /\ UNCHANGED <<serverVars, slotVars, sid, reply, ctxVars, answer,
                 engineVars>>

CurrentSession(p) ==
  /\ Step(p, "called", "prepared") /\ session # None
  /\ sid' = [sid EXCEPT ![p] = session]
  /\ UNCHANGED <<serverVars, slotVars, reply, response, ctxVars, answer,
                 engineVars>>

SetCancel(p) ==
  /\ Step(p, "prepared", "registered")
  /\ cancelFn' = p
  /\ UNCHANGED <<serverVars, promptInFlight, sid, reply, response, ctxVars,
                 answer, engineVars>>

\* Mutant: nobody looks at promptInFlight.
StartUnchecked(p) ==
  /\ Step(p, "registered", "starting")
  /\ promptInFlight' = TRUE
  /\ UNCHANGED <<serverVars, cancelFn, sid, reply, response, ctxVars, answer,
                 engineVars>>

StartPrompt(p) ==
  /\ Step(p, "registered", "starting") /\ ~promptInFlight
  /\ promptInFlight' = TRUE
  /\ UNCHANGED <<serverVars, cancelFn, sid, reply, response, ctxVars, answer,
                 engineVars>>

Rejected(p) ==
  /\ Step(p, "registered", "unset") /\ promptInFlight
  /\ Respond(p, "busy")
  /\ UNCHANGED <<serverVars, slotVars, sid, reply, ctxVars, answer,
                 engineVars>>

EngineBusy == \E q \in Prompts : turnOf[q] \in {"running", "asking", "settled"}

RunTurn(p) ==
  /\ Step(p, "starting", "reading") /\ ~EngineBusy /\ ~CtxDone(p)
  /\ turnOf' = [turnOf EXCEPT ![p] = "running"]
  /\ UNCHANGED <<serverVars, slotVars, sid, reply, response, ctxVars, answer,
                 channel>>

\* A turn is in progress, the context is done or the store fails.
RunTurnFails(p) ==
  /\ Step(p, "starting", "ending")
  /\ Respond(p, "not started")
  /\ UNCHANGED <<serverVars, slotVars, sid, reply, ctxVars, answer,
                 engineVars>>

Receive(p, e) ==
  /\ pc[p] = "reading" /\ channel[p] # <<>> /\ Head(channel[p]) = e
  /\ channel' = [channel EXCEPT ![p] = Tail(@)]

\* An event that is forwarded, unless nothing can be written any more.
Forward(p) ==
  /\ Receive(p, "content")
  /\ IF runDone THEN Go(p, "ending") /\ Respond(p, "failed")
                ELSE UNCHANGED <<pc, response>>
  /\ UNCHANGED <<serverVars, slotVars, sid, reply, ctxVars, answer, turnOf>>

ReadDone(p) ==
  /\ Receive(p, "done")
  /\ reply' = reply \cup {p}
  /\ UNCHANGED <<serverVars, slotVars, pc, sid, response, ctxVars, answer,
                 turnOf>>

\* Mutant: an approval request is an event like any other.
ForwardApproval(p) ==
  /\ \E e \in {"error", "approval"} :
       /\ Receive(p, e)
       /\ IF e = "error" THEN Go(p, "ending") /\ Respond(p, "failed")
                         ELSE UNCHANGED <<pc, response>>
  /\ UNCHANGED <<serverVars, slotVars, sid, reply, ctxVars, answer, turnOf>>

\* An error, or an approval request that nobody can answer: the prompt is
\* answered while its turn still runs.
TurnFails(p) ==
  /\ \E e \in {"error", "approval"} : Receive(p, e)
  /\ Go(p, "ending") /\ Respond(p, "failed")
  /\ UNCHANGED <<serverVars, slotVars, sid, reply, ctxVars, answer, turnOf>>

\* Mutant: the done event is taken for the end of the turn.
CompleteOnDone(p) ==
  /\ Step(p, "reading", "ending")
  /\ channel[p] = <<>> /\ (turnOf[p] = "over" \/ p \in reply)
  /\ Respond(p, "completed")
  /\ UNCHANGED <<serverVars, slotVars, sid, reply, ctxVars, answer,
                 engineVars>>

\* The channel is closed and empty.
Completed(p) ==
  /\ Step(p, "reading", "ending")
  /\ channel[p] = <<>> /\ turnOf[p] = "over"
  /\ Respond(p, "completed")
  /\ UNCHANGED <<serverVars, slotVars, sid, reply, ctxVars, answer,
                 engineVars>>

\* The deferred calls, in their order.
EndPrompt(p) ==
  /\ Step(p, "ending", "unset")
  /\ promptInFlight' = FALSE /\ cancelFn' = None
  /\ UNCHANGED <<serverVars, sid, reply, response, ctxVars, answer,
                 engineVars>>

UnsetCancel(p) ==
  /\ Step(p, "unset", "release")
  /\ cancelFn' = None
  /\ UNCHANGED <<serverVars, promptInFlight, sid, reply, response, ctxVars,
                 answer, engineVars>>

CancelContext(p) == released' = released \cup {p}

Release(p) ==
  /\ Step(p, "release", "done")
  /\ CancelContext(p)
  /\ UNCHANGED <<serverVars, slotVars, sid, reply, response, cancelled,
                 answer, engineVars>>

-----------------------------------------------------------------------------
(* The turn engine. *)

Emit(p, e) ==
  /\ Len(channel[p]) < EventCap
  /\ channel' = [channel EXCEPT ![p] = Append(@, e)]

Settle(p) == turnOf' = [turnOf EXCEPT ![p] = "settled"]

TurnSpeaks(p) ==
  /\ turnOf[p] = "running" /\ Emit(p, "content")
  /\ UNCHANGED <<serverVars, slotVars, pc, sid, reply, response, ctxVars,
                 answer, turnOf>>

TurnAsks(p) ==
  /\ turnOf[p] = "running" /\ Emit(p, "approval")
  /\ turnOf' = [turnOf EXCEPT ![p] = "asking"]
  /\ UNCHANGED <<serverVars, slotVars, pc, sid, reply, response, ctxVars,
                 answer>>

TurnSettles(p) ==
  /\ turnOf[p] = "running" /\ (Emit(p, "done") \/ Emit(p, "error"))
  /\ Settle(p)
  /\ UNCHANGED <<serverVars, slotVars, pc, sid, reply, response, ctxVars,
                 answer>>

\* The error event of a cancelled turn may be dropped.
TurnCancelled(p) ==
  /\ turnOf[p] \in {"running", "asking"} /\ CtxDone(p)
  /\ Emit(p, "error") \/ UNCHANGED channel
  /\ Settle(p)
  /\ UNCHANGED <<serverVars, slotVars, pc, sid, reply, response, ctxVars,
                 answer>>

\* The channel is closed and the engine is free.
TurnOver(p) ==
  /\ turnOf[p] = "settled" /\ turnOf' = [turnOf EXCEPT ![p] = "over"]
  /\ UNCHANGED <<serverVars, slotVars, pc, sid, reply, response, ctxVars,
                 answer, channel>>

-----------------------------------------------------------------------------
AcpInit ==
  /\ run = "reading" /\ runDone = FALSE
  /\ session = None /\ promptInFlight = FALSE /\ cancelFn = None
  /\ pc = [p \in Prompts |-> "unsent"]
  /\ sid = [p \in Prompts |-> None] /\ reply = {}
  /\ response = [p \in Prompts |-> None]
  /\ cancelled = {} /\ released = {}
  /\ answer = [k \in Cancels |-> "unsent"]
  /\ turnOf = [p \in Prompts |-> "none"]
  /\ channel = [p \in Prompts |-> <<>>]

Handle(p) ==
  \/ InvalidPrompt(p) \/ NoSession(p) \/ CurrentSession(p)
  \/ SetCancel(p) \/ StartPrompt(p) \/ Rejected(p)
  \/ RunTurn(p) \/ RunTurnFails(p)
  \/ Forward(p) \/ ReadDone(p) \/ TurnFails(p) \/ Completed(p)
  \/ EndPrompt(p) \/ UnsetCancel(p) \/ Release(p)

Loop ==
  \/ \E p \in Prompts : ReadPrompt(p)
  \/ \E x \in Sessions : SetSession(x)
  \/ \E k \in Cancels : ReadCancel(k)
  \/ InputEnds \/ StopSeen \/ RunReturns

Engine(p) ==
  \/ TurnSpeaks(p) \/ TurnAsks(p) \/ TurnSettles(p)
  \/ TurnCancelled(p) \/ TurnOver(p)

AcpNext == Loop \/ Stop \/ \E p \in Prompts : Handle(p) \/ Engine(p)

AcpSpec == AcpInit /\ [][AcpNext]_acpVars

-----------------------------------------------------------------------------
(* Fairness: of the goroutines, and of the engine once a turn is cancelled *)
(* or has sent its last event.  None of the client.                        *)
AcpFairSpec ==
  /\ AcpSpec
  /\ \A p \in Prompts : /\ WF_acpVars(Handle(p))
                        /\ WF_acpVars(TurnCancelled(p) \/ TurnOver(p))
  /\ WF_acpVars(StopSeen) /\ WF_acpVars(RunReturns)

-----------------------------------------------------------------------------
(* Properties. *)

InFlight(p) == pc[p] \in {"starting", "reading", "ending"}

\* promptInFlight says whether a prompt is in flight, and no two are
\* (server.go:303-322).
OnePromptInFlight ==
  /\ promptInFlight <=> \E p \in Prompts : InFlight(p)
  /\ \A p, q \in Prompts : InFlight(p) /\ InFlight(q) => p = q

\* "sessionPromptResult is returned once the turn finishes" (types.go:82),
\* and with the reply of the turn unless the prompt was cancelled: a prompt
\* that stops reading early, at a done event for instance, would hide that
\* the turn still runs (prompt.go:46-56).
CompletedMeansOver ==
  \A p \in Prompts : response[p] = "completed" =>
    turnOf[p] = "over" /\ (p \in reply \/ CtxDone(p))

\* session/cancel "cannot observe promptInFlight without a cancel"
\* (prompt.go:29-30).
InFlightHasCancel ==
  \A p \in Prompts : pc[p] \in {"starting", "reading"} =>
    cancelFn = p \/ CtxDone(p)

\* cancelCurrent "returns true if a prompt was actually cancelled"
\* (server.go:330-331): the prompt in flight.
CancelIsTrue ==
  [][\A k \in Cancels : answer[k] = "unsent" /\ answer'[k] = "yes" =>
       \E p \in Prompts : InFlight(p) /\ p \in cancelled']_acpVars

\* "a prompt is already running" (prompt.go:37) is the answer to a client
\* that has a prompt running, not to one that has the answers to all it sent.
BusyMeansUnanswered ==
  [][\A p \in Prompts : response[p] = None /\ response'[p] = "busy" =>
       \E q \in Prompts \ {p} : pc[q] # "unsent" /\ ~HasResponse(q)]_acpVars

\* Every prompt whose provider's stream ends is answered, although the turn
\* may ask for an approval that nobody can give (prompt.go:74-77).
PromptsAnswered ==
  \A p \in Prompts :
    SF_acpVars(TurnAsks(p) \/ TurnSettles(p)) =>
      (pc[p] = "called" ~> response[p] # None)

=============================================================================

---------------------------- MODULE TurnManager ----------------------------
(***************************************************************************)
(* The turn engine of kimi-lite (internal/core/turn.go): one TurnManager,  *)
(* the goroutines that run its turns, the callers that start, steer,       *)
(* approve and cancel them, and the rows and messages they leave in the    *)
(* session store.                                                          *)
(*                                                                         *)
(* A "run" is one call of runTurnInternal and, when it succeeds, the       *)
(* goroutine run() it starts.  Every run has its own context, its own      *)
(* event channel and its own local variables; everything else is a field   *)
(* of the TurnManager and shared.  One action is one step between two      *)
(* accesses to shared state, so that the calls of other goroutines fall    *)
(* between any two of them.                                                *)
(***************************************************************************)
EXTENDS Naturals, Sequences, FiniteSets

CONSTANTS
  Runs,           \* the calls of RunTurn* made on the manager
  Sessions,       \* the session ids the callers use
  PlanModes,      \* the values of planMode callers pass, a subset of BOOLEAN
  Verdicts,       \* what the approval gate answers: "allow", "deny", "ask"
  MaxCalls,       \* bound: tool calls in one LLM response
  MaxToolRounds,  \* Behavior.MaxToolRounds
  MaxTurns,       \* Behavior.MaxTurns, 0 for no limit
  MaxHistory,     \* Session.MaxHistory, the limit of GetMessages
  MaxSteers,      \* bound: calls of Steer that pass its checks
  EventCap,       \* capacity of a run's event channel (16 in the code)
  MayCancel,      \* whether callers cancel contexts and call CancelAll
  StoreMayFail,   \* whether a store call fails although its context is live
  None            \* nil

ASSUME ConstantsAssumption ==
  /\ None \notin Runs /\ None \notin Sessions
  /\ PlanModes \subseteq BOOLEAN
  /\ Verdicts \subseteq {"allow", "deny", "ask"}
  /\ MaxCalls \in Nat /\ MaxToolRounds \in Nat /\ MaxTurns \in Nat
  /\ MaxHistory \in Nat \ {0} /\ MaxSteers \in Nat /\ EventCap \in Nat \ {0}
  /\ MayCancel \in BOOLEAN /\ StoreMayFail \in BOOLEAN

VARIABLES
  pc,             \* where each run is
  \* The parameters and the local variables of each run.
  session,        \* sessionID
  planned,        \* planMode
  plan,           \* planModeActive
  partial,        \* whether the response has text
  calls,          \* how many tool calls the response has
  steerOf,        \* the run a steering input it has read was meant for
  idx,            \* the loop index over the calls, from 1
  round,          \* round
  results,        \* results, by call
  pend,           \* pending, the calls that wait for a decision
  dec,            \* payload.decisions
  \* The fields of the TurnManager.
  running,        \* the atomic flag
  activeCancel,   \* the run whose context activeCancel cancels
  cancelled,      \* the runs whose context is done
  turn,           \* the run whose turn tm.turn points to
  turnState,      \* turn.State of each run's turn
  pending,        \* pendingCalls
  requestID,
  approvalCh,     \* capacity 1
  planPending,
  planSession,    \* planSessionID
  planCh,         \* planApprovalCh, capacity 1
  steerCh,        \* capacity 1: the run the input was meant for
  steering,       \* the run a call of Steer has checked and not yet sent to
  steers,         \* how many calls of Steer have passed its checks
  \* What others see.
  eventCh,        \* the event channel of each run
  outcome,        \* history: the terminal events each run has sent
  row,            \* the state column of each run's turn in the store
  log,            \* the messages of each session in the store
  granted,        \* history: <<request, call>> pairs a user said yes to
  ran,            \* history: the tool executions
  planYes         \* history: the runs during which, past the drain of what
                  \* earlier turns left, a user said yes to a plan

callVars   == <<session, planned>>
streamVars == <<plan, partial, calls, steerOf>>
roundVars  == <<idx, round, results, pend, dec>>
localVars  == <<callVars, streamVars, roundVars>>
lockVars   == <<running, activeCancel, cancelled>>
turnVars   == <<turn, turnState>>
apprVars   == <<pending, requestID, approvalCh>>
planVars   == <<planPending, planSession, planCh>>
steerVars  == <<steerCh, steering, steers>>
chanVars   == <<apprVars, planVars, steerVars>>
sharedVars == <<lockVars, turnVars, chanVars>>
evVars     == <<eventCh, outcome>>
storeVars  == <<row, log>>
histVars   == <<granted, ran, planYes>>
effectVars == <<evVars, storeVars, histVars>>
vars       == <<pc, localVars, sharedVars, effectVars>>

-----------------------------------------------------------------------------
(* Types.  Tool calls are numbered within a response: a provider may reuse  *)
(* an id in a later response and the code does not rename them.             *)

Calls     == 1..MaxCalls
Decisions == {"yes", "no", "diff"}
Events    == {"content", "done", "error", "ask", "result", "diff", "status",
              "plan", "steered"}
States    == {"none", "idle", "streaming", "tool_calls", "waiting_approval",
              "waiting_plan", "error"}
Results   == {"none", "ok", "denied", "stale", "cancelled"}
Answers   == UNION {[D -> Decisions] : D \in SUBSET Calls}
Payloads  == [id : Nat, dec : Answers]
Messages  == [role : {"user", "steer", "assistant", "tool", "system"},
              run : Runs, calls : 0..MaxCalls, call : 0..MaxCalls]

StartPcs == {"claimed", "starting", "begin", "seq", "saving", "user", "open"}
AskPcs   == {"ask", "await", "diff", "decide", "execAsked", "clear"}
RunPcs   == {"stream", "streamed", "abort", "drain", "steer", "steerAppend",
             "steerEvent", "steerOpen", "planEvent", "planWait", "planAppend",
             "planContinue", "planOpen", "round", "call", "execute", "emit",
             "appendCalls", "appendResult", "chat", "finish", "final", "save",
             "errEvent", "release"} \cup AskPcs
EndPcs   == {"startFailed", "failing", "failed", "rejected", "stop",
             "closing", "done"}
Pcs      == {"idle"} \cup StartPcs \cup RunPcs \cup EndPcs

\* The runs that hold tm.running: between the compare-and-swap of
\* runTurnInternal and the Store(false) of its error path or of run().
HoldPcs == StartPcs \cup RunPcs \cup {"startFailed", "stop"}

HoldsRunning(r) == pc[r] \in HoldPcs

CallTypes ==
  session \in [Runs -> Sessions \cup {None}] /\ planned \in [Runs -> BOOLEAN]

StreamTypes ==
  /\ plan \in [Runs -> BOOLEAN] /\ partial \in [Runs -> BOOLEAN]
  /\ calls \in [Runs -> 0..MaxCalls] /\ steerOf \in [Runs -> Runs \cup {None}]

RoundTypes ==
  /\ idx \in [Runs -> 1..(MaxCalls + 1)] /\ round \in [Runs -> Nat]
  /\ results \in [Runs -> [Calls -> Results]]
  /\ pend \in [Runs -> SUBSET Calls] /\ dec \in [Runs -> Answers]

LockTypes ==
  /\ running \in BOOLEAN /\ activeCancel \in Runs \cup {None}
  /\ cancelled \subseteq Runs

TurnTypes == turn \in Runs \cup {None} /\ turnState \in [Runs -> States]

ApprTypes ==
  /\ pending \subseteq Calls /\ requestID \in Nat
  /\ approvalCh \in Payloads \cup {None}

PlanTypes ==
  /\ planPending \in BOOLEAN /\ planSession \in Sessions \cup {None}
  /\ planCh \in {"yes", "no", None}

SteerTypes ==
  /\ steerCh \in Runs \cup {None} /\ steering \in Runs \cup {None}
  /\ steers \in 0..MaxSteers

EvTypes ==
  /\ eventCh \in [Runs -> Seq(Events)]
  /\ outcome \in [Runs -> SUBSET {"done", "error"}]

StoreTypes == row \in [Runs -> States] /\ log \in [Sessions -> Seq(Messages)]

HistTypes ==
  /\ granted \subseteq Nat \X Calls
  /\ ran \subseteq [run : Runs, req : Nat, call : Calls]
  /\ planYes \subseteq Runs

TypeOK ==
  /\ pc \in [Runs -> Pcs]
  /\ CallTypes /\ StreamTypes /\ RoundTypes
  /\ LockTypes /\ TurnTypes /\ ApprTypes /\ PlanTypes /\ SteerTypes
  /\ EvTypes /\ StoreTypes /\ HistTypes

-----------------------------------------------------------------------------
(* Helpers. *)

Go(r, p) == pc' = [pc EXCEPT ![r] = p]

At(r, i) == idx' = [idx EXCEPT ![r] = i]

Step(r, from, to) == pc[r] = from /\ Go(r, to)

\* eventCh <- e, blocking while the channel is full.
Push(r, e) ==
  /\ Len(eventCh[r]) < EventCap
  /\ eventCh' = [eventCh EXCEPT ![r] = Append(@, e)]
  /\ outcome' = [outcome EXCEPT ![r] = @ \cup ({e} \cap {"done", "error"})]

\* Mutant: the send does not give up when the context is done.
OfferBlocking(r, e) == Push(r, e)

\* select { case eventCh <- e: case <-ctx.Done(): }
Offer(r, e) == Push(r, e) \/ (r \in cancelled /\ UNCHANGED evVars)

\* A store call made with the run's context.
StoreOk(r)  == r \notin cancelled
StoreBad(r) == r \in cancelled \/ StoreMayFail

\* store.SaveTurn whose error is only logged.
SaveRow(r, s) ==
  \/ StoreOk(r) /\ row' = [row EXCEPT ![r] = s]
  \/ StoreBad(r) /\ UNCHANGED row

Msg(r, role, n, c) == [role |-> role, run |-> r, calls |-> n, call |-> c]

AddMsg(r, m) == log' = [log EXCEPT ![session[r]] = Append(@, m)]

\* persistPartialResponse and the final reply: an assistant message unless
\* it is empty; a failure is only logged.
PersistReply(r) ==
  \/ partial[r] /\ StoreOk(r) /\ AddMsg(r, Msg(r, "assistant", 0, 0))
  \/ (~partial[r] \/ StoreBad(r)) /\ UNCHANGED log

\* setError withdraws the pending calls and the pending plan.
Withdraw == pending' = {} /\ planPending' = FALSE

\* setError: the turn fails, whatever was pending is withdrawn, the row is
\* saved; the error event, if there is a channel for it, is the next step.
SetError(r, next) ==
  /\ turnState' = [turnState EXCEPT ![r] = "error"]
  /\ turn' = r
  /\ Withdraw
  /\ SaveRow(r, "error")
  /\ Go(r, next)
  /\ UNCHANGED <<localVars, lockVars, requestID, approvalCh, planSession,
                 steerVars, histVars>>

Fail(r) == SetError(r, "errEvent") /\ UNCHANGED <<planCh, evVars>>

\* store.AppendMessage, then on to pc p with loop index i; a failure fails
\* the turn.
AppendThen(r, m, p, i) ==
  \/ /\ StoreOk(r)
     /\ AddMsg(r, m) /\ At(r, i) /\ Go(r, p)
     /\ UNCHANGED <<callVars, streamVars, round, results, pend, dec,
                    sharedVars, evVars, row, histVars>>
  \/ StoreBad(r) /\ Fail(r) /\ UNCHANGED log

\* An event, then on to pc p with loop index i; where the context is done
\* instead, the turn fails with ctx.Err().
OfferThen(r, e, p, i) ==
  \/ /\ Push(r, e) /\ At(r, i) /\ Go(r, p)
     /\ UNCHANGED <<callVars, streamVars, round, results, pend, dec,
                    sharedVars, storeVars, histVars>>
  \/ r \in cancelled /\ Fail(r) /\ UNCHANGED log

\* store.GetMessages, what a chat request consists of: the oldest messages of
\* the session, as many as the limit allows.
Request(s) ==
  SubSeq(log[s], 1, IF Len(log[s]) < MaxHistory THEN Len(log[s])
                    ELSE MaxHistory)

\* GetMessages and ChatStream for round n, with Request(session[r]): either
\* the next stream is open or the turn fails, because its context is done or
\* the provider refuses.
OpenThen(r, n) ==
  \/ /\ StoreOk(r)
     /\ plan' = [plan EXCEPT ![r] = FALSE]
     /\ partial' = [partial EXCEPT ![r] = FALSE]
     /\ steerOf' = [steerOf EXCEPT ![r] = None]
     /\ round' = [round EXCEPT ![r] = n]
     /\ Go(r, "stream")
     /\ UNCHANGED <<callVars, calls, idx, results, pend, dec, sharedVars,
                    effectVars>>
  \/ Fail(r) /\ UNCHANGED log

-----------------------------------------------------------------------------
(* runTurnInternal and startTurn, in the caller's goroutine. *)

\* The compare-and-swap on tm.running succeeds.
Claim(r, s, p) ==
  /\ Step(r, "idle", "claimed") /\ ~running
  /\ running' = TRUE
  /\ session' = [session EXCEPT ![r] = s]
  /\ planned' = [planned EXCEPT ![r] = p]
  /\ plan' = [plan EXCEPT ![r] = p]
  /\ UNCHANGED <<partial, calls, steerOf, roundVars, activeCancel, cancelled,
                 turnVars, chanVars, effectVars>>

\* "turn already in progress".
Reject(r) ==
  /\ Step(r, "idle", "rejected") /\ running
  /\ UNCHANGED <<localVars, sharedVars, effectVars>>

SetCancel(r) ==
  /\ Step(r, "claimed", "starting")
  /\ activeCancel' = r
  /\ UNCHANGED <<localVars, running, cancelled, turnVars, chanVars,
                 effectVars>>

\* store.CountTurns(sessionID, TurnIdle)
IdleTurns(s) == Cardinality({r \in Runs : session[r] = s /\ row[r] = "idle"})

AtTurnLimit(s) == MaxTurns > 0 /\ IdleTurns(s) >= MaxTurns

\* Mutant: the answer to an earlier turn's plan stays in its channel.
DrainNoPlan(r) ==
  /\ Step(r, "starting", "begin")
  /\ MaxTurns > 0 => StoreOk(r)
  /\ ~AtTurnLimit(session[r])
  /\ approvalCh' = None /\ pending' = {} /\ steerCh' = None
  /\ UNCHANGED <<localVars, lockVars, turnVars, requestID, planVars, steering,
                 steers, effectVars>>

\* The MaxTurns check, then what earlier turns left in the three channels is
\* thrown away.
DrainStale(r) ==
  /\ Step(r, "starting", "begin")
  /\ MaxTurns > 0 => StoreOk(r)
  /\ ~AtTurnLimit(session[r])
  /\ approvalCh' = None /\ pending' = {} /\ planCh' = None /\ steerCh' = None
  /\ UNCHANGED <<localVars, lockVars, turnVars, requestID, planPending,
                 planSession, steering, steers, effectVars>>

\* A start that fails before the turn exists or after it was saved leaves
\* what it has set as it is.
StartFails(r) ==
  /\ \/ /\ pc[r] = "starting"
        /\ (MaxTurns > 0 /\ StoreBad(r)) \/ AtTurnLimit(session[r])
     \/ pc[r] \in {"saving", "user", "open"} /\ StoreBad(r)
  /\ Go(r, "startFailed")
  /\ UNCHANGED <<localVars, sharedVars, effectVars>>

\* The plan fields, under planMu: from here on an answer is accepted for this
\* session, before there is a turn and before there is a plan.
BeginPlan(r) ==
  /\ Step(r, "begin", "seq")
  /\ planPending' = plan[r]
  /\ planSession' = session[r]
  /\ UNCHANGED <<localVars, lockVars, turnVars, apprVars, planCh, steerVars,
                 effectVars>>

\* NextTurnSeq, then tm.turn.
BeginTurn(r) ==
  /\ pc[r] = "seq"
  /\ \/ /\ StoreOk(r)
        /\ turn' = r
        /\ turnState' = [turnState EXCEPT ![r] = "streaming"]
        /\ Go(r, "saving")
     \/ StoreBad(r) /\ Go(r, "startFailed") /\ UNCHANGED turnVars
  /\ UNCHANGED <<localVars, lockVars, chanVars, effectVars>>

SaveNewTurn(r) ==
  /\ Step(r, "saving", "user") /\ StoreOk(r)
  /\ row' = [row EXCEPT ![r] = "streaming"]
  /\ UNCHANGED <<localVars, sharedVars, evVars, log, histVars>>

AppendUser(r) ==
  /\ Step(r, "user", "open") /\ StoreOk(r)
  /\ AddMsg(r, Msg(r, "user", 0, 0))
  /\ UNCHANGED <<localVars, sharedVars, evVars, row, histVars>>

\* GetMessages and the first ChatStream, with Request(session[r]); from here
\* on run() is a goroutine.
OpenFirst(r) ==
  /\ Step(r, "open", "stream") /\ StoreOk(r)
  /\ UNCHANGED <<localVars, sharedVars, effectVars>>

\* The first ChatStream is refused: setError with no event channel.
RefuseFirst(r) ==
  /\ pc[r] = "open"
  /\ SetError(r, "startFailed")
  /\ UNCHANGED <<planCh, evVars, log>>

\* The error path of runTurnInternal: running is reset first ...
FreeRunning(r) ==
  /\ Step(r, "startFailed", "failing")
  /\ running' = FALSE
  /\ cancelled' = cancelled \cup {r}
  /\ UNCHANGED <<localVars, activeCancel, turnVars, chanVars, effectVars>>

\* ... and the cancel function afterwards.
ClearFailedCancel(r) ==
  /\ Step(r, "failing", "failed")
  /\ activeCancel' = None
  /\ UNCHANGED <<localVars, running, cancelled, turnVars, chanVars, effectVars>>

-----------------------------------------------------------------------------
(* consumeStream. *)

\* The first content chunk; the later ones change nothing but the channel.
Chunk(r) ==
  /\ pc[r] = "stream" /\ ~partial[r]
  /\ Push(r, "content")
  /\ partial' = [partial EXCEPT ![r] = TRUE]
  /\ UNCHANGED <<pc, callVars, plan, calls, steerOf, roundVars, sharedVars,
                 storeVars, histVars>>

\* The final chunk, with n tool calls.
StreamDone(r, n) ==
  /\ Step(r, "stream", "streamed") /\ r \notin cancelled
  /\ calls' = [calls EXCEPT ![r] = n]
  /\ UNCHANGED <<callVars, plan, partial, steerOf, roundVars, sharedVars,
                 effectVars>>

\* A chunk carries an error, the response is too large or the context is
\* done: an error event, if it can be sent, and the turn fails.
StreamFails(r) ==
  /\ Step(r, "stream", "abort")
  /\ Offer(r, "error")
  /\ UNCHANGED <<localVars, sharedVars, storeVars, histVars>>

\* persistPartialResponse and setError.
Abort(r) == pc[r] = "abort" /\ PersistReply(r) /\ Fail(r)

\* A steering input is there: consumeStream stops forwarding and reads the
\* rest of the stream to its end ...
TakeSteer(r) ==
  /\ Step(r, "stream", "drain") /\ steerCh # None
  /\ steerCh' = None
  /\ steerOf' = [steerOf EXCEPT ![r] = steerCh]
  /\ UNCHANGED <<callVars, plan, partial, calls, roundVars, lockVars, turnVars,
                 apprVars, planVars, steering, steers, effectVars>>

\* ... and only then run() leaves plan mode.
Drained(r) ==
  /\ Step(r, "drain", "steer")
  /\ plan' = [plan EXCEPT ![r] = FALSE]
  /\ planPending' = (planPending /\ ~plan[r])
  /\ UNCHANGED <<callVars, partial, calls, steerOf, roundVars, lockVars,
                 turnVars, apprVars, planSession, planCh, steerVars,
                 effectVars>>

-----------------------------------------------------------------------------
(* applySteer. *)

\* persistPartialResponse; its error is only logged.
SteerPartial(r) ==
  /\ Step(r, "steer", "steerAppend")
  /\ PersistReply(r)
  /\ UNCHANGED <<localVars, sharedVars, evVars, row, histVars>>

SteerAppend(r) ==
  /\ pc[r] = "steerAppend"
  /\ AppendThen(r, Msg(r, "steer", 0, 0), "steerEvent", 1)

SteerEvent(r) ==
  pc[r] = "steerEvent" /\ OfferThen(r, "steered", "steerOpen", 1)

SteerOpen(r) == pc[r] = "steerOpen" /\ OpenThen(r, round[r])

-----------------------------------------------------------------------------
(* run(): the plan, presented and waited for. *)

\* Plan mode does not allow tool calls in the plan itself.
PlanWithCalls(r) ==
  /\ Step(r, "streamed", "abort") /\ plan[r] /\ calls[r] > 0
  /\ UNCHANGED <<localVars, sharedVars, effectVars>>

\* Mutant: the plan is no longer pending once it is there.
PlanReadyClosed(r) ==
  /\ Step(r, "streamed", "planEvent") /\ plan[r] /\ calls[r] = 0
  /\ turnState' = [turnState EXCEPT ![r] = "waiting_plan"]
  /\ SaveRow(r, "waiting_plan")
  /\ planPending' = FALSE
  /\ UNCHANGED <<localVars, lockVars, turn, apprVars, planSession, planCh,
                 steerVars, evVars, log, histVars>>

PlanReady(r) ==
  /\ Step(r, "streamed", "planEvent") /\ plan[r] /\ calls[r] = 0
  /\ turnState' = [turnState EXCEPT ![r] = "waiting_plan"]
  /\ SaveRow(r, "waiting_plan")
  /\ UNCHANGED <<localVars, lockVars, turn, chanVars, evVars, log, histVars>>

PlanEvent(r) == pc[r] = "planEvent" /\ OfferThen(r, "plan", "planWait", 1)

PlanApproved(r) ==
  /\ Step(r, "planWait", "planAppend") /\ planCh = "yes"
  /\ planCh' = None
  /\ planPending' = FALSE
  /\ UNCHANGED <<localVars, lockVars, turnVars, apprVars, planSession,
                 steerVars, effectVars>>

\* "plan rejected by user": setError, having received the answer.
PlanRejected(r) ==
  /\ pc[r] = "planWait" /\ planCh = "no"
  /\ planCh' = None
  /\ SetError(r, "errEvent")
  /\ UNCHANGED <<evVars, log>>

PlanAppend(r) ==
  /\ pc[r] = "planAppend"
  /\ AppendThen(r, Msg(r, "assistant", 0, 0), "planContinue", 1)

PlanContinue(r) ==
  /\ pc[r] = "planContinue"
  /\ AppendThen(r, Msg(r, "system", 0, 0), "planOpen", 1)

PlanOpen(r) == pc[r] = "planOpen" /\ OpenThen(r, round[r])

\* Where the goroutine waits for a user, a done context fails the turn.
WaitCancelled(r) ==
  /\ pc[r] \in {"planWait", "await"} /\ r \in cancelled
  /\ Fail(r)
  /\ UNCHANGED log

-----------------------------------------------------------------------------
(* run(): the tool rounds. *)

\* The response is complete.  Before the first round the turn's state is set
\* in any case and saved, later it is set only when there are tool calls.
Settle(r) ==
  /\ pc[r] = "streamed" /\ ~plan[r]
  /\ turnState' = [turnState EXCEPT ![r] =
                     IF calls[r] > 0 THEN "tool_calls"
                     ELSE IF round[r] = 0 THEN "streaming" ELSE @]
  /\ IF round[r] = 0 THEN SaveRow(r, turnState'[r]) ELSE UNCHANGED row
  /\ Go(r, IF calls[r] > 0 THEN "round" ELSE "finish")
  /\ UNCHANGED <<localVars, lockVars, turn, chanVars, evVars, log, histVars>>

\* executeToolCalls starts with no results and nothing pending.
RoundStart(r) ==
  /\ Step(r, "round", "call") /\ round[r] < MaxToolRounds
  /\ At(r, 1)
  /\ pend' = [pend EXCEPT ![r] = {}]
  /\ results' = [results EXCEPT ![r] = [c \in Calls |-> "none"]]
  /\ UNCHANGED <<callVars, streamVars, round, dec, sharedVars, effectVars>>

RoundLimit(r) ==
  /\ pc[r] = "round" /\ round[r] >= MaxToolRounds
  /\ Fail(r)
  /\ UNCHANGED log

\* The result of the call at idx, and on to the next one.
Result(r, kind) ==
  /\ results' = [results EXCEPT ![r] = [@ EXCEPT ![idx[r]] = kind]]
  /\ At(r, idx[r] + 1)
  /\ UNCHANGED <<callVars, streamVars, round, pend, dec, sharedVars>>

\* executeToolCall for the call at idx, reached under request req (0 when
\* the gate allowed the call): a status event, then the tool itself.
Execute(r, req, next) ==
  /\ idx[r] <= calls[r]
  /\ Offer(r, "status") \/ UNCHANGED evVars
  /\ Result(r, "ok")
  /\ ran' = ran \cup {[run |-> r, req |-> req, call |-> idx[r]]}
  /\ Go(r, next)
  /\ UNCHANGED <<storeVars, granted, planYes>>

\* executeToolCalls, for the call at idx, with the gate's verdict: a call
\* that is allowed is executed next, one that must be asked about is set
\* aside, the others have their result.
CallTool(r, verdict) ==
  /\ pc[r] = "call" /\ idx[r] <= calls[r]
  /\ \/ r \in cancelled /\ Result(r, "cancelled") /\ UNCHANGED pc
     \/ r \notin cancelled /\ verdict = "deny" /\ Result(r, "denied")
        /\ UNCHANGED pc
     \/ r \notin cancelled /\ verdict = "allow" /\ Go(r, "execute")
          /\ UNCHANGED <<localVars, sharedVars>>
     \/ /\ r \notin cancelled /\ verdict = "ask"
        /\ pend' = [pend EXCEPT ![r] = @ \cup {idx[r]}]
        /\ At(r, idx[r] + 1)
        /\ UNCHANGED <<pc, callVars, streamVars, round, results, dec,
                       sharedVars>>
  /\ UNCHANGED effectVars

ExecuteAllowed(r) == pc[r] = "execute" /\ Execute(r, 0, "call")

\* No call is left to wait for.
NothingPending(r) ==
  /\ Step(r, "call", "emit") /\ idx[r] > calls[r] /\ pend[r] = {}
  /\ At(r, 1)
  /\ UNCHANGED <<callVars, streamVars, round, results, pend, dec, sharedVars,
                 effectVars>>

\* The calls that need a decision are published under a new request id.
Publish(r) ==
  /\ Step(r, "call", "ask") /\ idx[r] > calls[r] /\ pend[r] # {}
  /\ turnState' = [turnState EXCEPT ![r] = "waiting_approval"]
  /\ SaveRow(r, "waiting_approval")
  /\ pending' = pend[r]
  /\ requestID' = requestID + 1
  /\ UNCHANGED <<localVars, lockVars, turn, approvalCh, planVars, steerVars,
                 evVars, log, histVars>>

Ask(r) == pc[r] = "ask" /\ OfferThen(r, "ask", "await", 1)

\* Every decision asks for a diff.
DiffOnly(d) == DOMAIN d # {} /\ \A c \in DOMAIN d : d[c] = "diff"

IsCurrent(payload) == payload.id = requestID

\* The payload is not for the current request: every pending call is denied.
TakeStale(r) ==
  /\ Step(r, "await", "clear") /\ approvalCh # None
  /\ ~IsCurrent(approvalCh)
  /\ approvalCh' = None
  /\ results' = [results EXCEPT ![r] =
                   [c \in Calls |-> IF c \in pend[r] THEN "stale" ELSE @[c]]]
  /\ UNCHANGED <<callVars, streamVars, idx, round, pend, dec, lockVars,
                 turnVars, pending, requestID, planVars, steerVars, effectVars>>

TakePayload(r) ==
  /\ pc[r] = "await" /\ approvalCh # None
  /\ IsCurrent(approvalCh)
  /\ approvalCh' = None
  /\ dec' = [dec EXCEPT ![r] = approvalCh.dec]
  /\ At(r, 1)
  /\ Go(r, IF DiffOnly(approvalCh.dec) THEN "diff" ELSE "decide")
  /\ UNCHANGED <<callVars, streamVars, round, results, pend, lockVars,
                 turnVars, pending, requestID, planVars, steerVars, effectVars>>

\* Mutant: the preview ends the wait.
DiffEndsRound(r) == pc[r] = "diff" /\ OfferThen(r, "diff", "clear", 1)

\* The diff preview of the one call asked about; the round stays pending.
Diff(r) == pc[r] = "diff" /\ OfferThen(r, "diff", "await", 1)

\* Mutant: a call the payload does not name is taken as approved.
DecisionOrYes(d, i) == IF i \in DOMAIN d THEN d[i] ELSE "yes"

\* A call the payload does not name is denied.
DecisionFor(d, i) == IF i \in DOMAIN d THEN d[i] ELSE "no"

\* The user's decision on the call at idx, in the order of the calls.
Decide(r) ==
  LET no == DecisionFor(dec[r], idx[r]) = "no" IN
  /\ pc[r] = "decide" /\ idx[r] <= calls[r]
  /\ \/ /\ idx[r] \notin pend[r]
        /\ At(r, idx[r] + 1)
        /\ UNCHANGED <<pc, callVars, streamVars, round, results, pend, dec,
                       sharedVars>>
     \/ /\ idx[r] \in pend[r] /\ r \in cancelled
        /\ Result(r, "cancelled") /\ UNCHANGED pc
     \/ /\ idx[r] \in pend[r] /\ r \notin cancelled /\ no
        /\ Result(r, "denied")
        /\ UNCHANGED pc
     \/ /\ idx[r] \in pend[r] /\ r \notin cancelled /\ ~no
        /\ Go(r, "execAsked") /\ UNCHANGED <<localVars, sharedVars>>
  /\ UNCHANGED effectVars

ExecuteApproved(r) == pc[r] = "execAsked" /\ Execute(r, requestID, "decide")

Decided(r) ==
  /\ Step(r, "decide", "clear") /\ idx[r] > calls[r]
  /\ UNCHANGED <<localVars, sharedVars, effectVars>>

ClearPending(r) ==
  /\ Step(r, "clear", "emit")
  /\ pending' = {}
  /\ At(r, 1)
  /\ UNCHANGED <<callVars, streamVars, round, results, pend, dec, lockVars,
                 turnVars, requestID, approvalCh, planVars, steerVars,
                 effectVars>>

\* The results as events, in call order.
Emit(r) ==
  /\ pc[r] = "emit" /\ idx[r] <= calls[r]
  /\ OfferThen(r, "result", "emit", idx[r] + 1)

\* Mutant: the results are not saved.
AppendNoResults(r) ==
  /\ pc[r] = "emit" /\ idx[r] > calls[r]
  /\ AppendThen(r, Msg(r, "assistant", calls[r], 0), "chat", 1)

\* The assistant message with its calls, then one message per result.
AppendCalls(r) ==
  /\ pc[r] = "emit" /\ idx[r] > calls[r]
  /\ AppendThen(r, Msg(r, "assistant", calls[r], 0), "appendResult", 1)

AppendResult(r) ==
  /\ pc[r] = "appendResult" /\ idx[r] <= calls[r]
  /\ AppendThen(r, Msg(r, "tool", 0, idx[r]),
                IF idx[r] = calls[r] THEN "chat" ELSE "appendResult",
               idx[r] + 1)

\* GetMessages and ChatStream for the next response.
ChatNext(r) == pc[r] = "chat" /\ OpenThen(r, round[r] + 1)

-----------------------------------------------------------------------------
(* run(): the end of the turn and the deferred calls. *)

Finish(r) ==
  /\ Step(r, "finish", "final")
  /\ Offer(r, "done")
  /\ UNCHANGED <<localVars, sharedVars, storeVars, histVars>>

\* The reply, unless it is empty; a failure is only logged.
AppendFinal(r) ==
  /\ Step(r, "final", "save")
  /\ PersistReply(r)
  /\ UNCHANGED <<localVars, sharedVars, evVars, row, histVars>>

SaveIdle(r) ==
  /\ Step(r, "save", "release")
  /\ turnState' = [turnState EXCEPT ![r] = "idle"]
  /\ turn' = r
  /\ SaveRow(r, "idle")
  /\ UNCHANGED <<localVars, lockVars, chanVars, evVars, log, histVars>>

\* Mutant: the error event is dropped when the channel is full.
ErrorEventDropped(r) ==
  /\ Step(r, "errEvent", "release")
  /\ Offer(r, "error") \/ (Len(eventCh[r]) = EventCap /\ UNCHANGED evVars)
  /\ UNCHANGED <<localVars, sharedVars, storeVars, histVars>>

\* The error event of setError.
ErrorEvent(r) ==
  /\ Step(r, "errEvent", "release")
  /\ Offer(r, "error")
  /\ UNCHANGED <<localVars, sharedVars, storeVars, histVars>>

\* run() returns: its local variables are gone.
Return(r) ==
  /\ plan' = [plan EXCEPT ![r] = FALSE]
  /\ partial' = [partial EXCEPT ![r] = FALSE]
  /\ calls' = [calls EXCEPT ![r] = 0]
  /\ steerOf' = [steerOf EXCEPT ![r] = None]
  /\ idx' = [idx EXCEPT ![r] = 1]
  /\ round' = [round EXCEPT ![r] = 0]
  /\ results' = [results EXCEPT ![r] = [c \in Calls |-> "none"]]
  /\ pend' = [pend EXCEPT ![r] = {}]
  /\ dec' = [dec EXCEPT ![r] = [c \in {} |-> "no"]]

\* Mutant: running is reset together with the cancel function.
ReleaseEarly(r) ==
  /\ Step(r, "release", "stop")
  /\ planPending' = FALSE
  /\ activeCancel' = None
  /\ running' = FALSE
  /\ Return(r)
  /\ UNCHANGED <<callVars, cancelled, turnVars, apprVars, planSession,
                 planCh, steerVars, effectVars>>

\* The deferred calls in their order: first the plan flag and the cancel
\* function; running and the channel are steps of their own.
Release(r) ==
  /\ Step(r, "release", "stop")
  /\ planPending' = FALSE
  /\ activeCancel' = None
  /\ Return(r)
  /\ UNCHANGED <<callVars, running, cancelled, turnVars, apprVars,
                 planSession, planCh, steerVars, effectVars>>

\* runCancel() and running.Store(false),
StopRunning(r) ==
  /\ Step(r, "stop", "closing")
  /\ cancelled' = cancelled \cup {r}
  /\ running' = FALSE
  /\ UNCHANGED <<localVars, activeCancel, turnVars, chanVars, effectVars>>

\* close(eventCh) and wg.Done().
CloseEvents(r) ==
  /\ Step(r, "closing", "done")
  /\ UNCHANGED <<localVars, sharedVars, effectVars>>

-----------------------------------------------------------------------------
(* The callers. *)

\* What a user interface sends: decisions on some of the pending calls, or
\* the request for the diff of one.
AnswersTo(cs) ==
  (UNION {[D -> {"yes", "no"}] : D \in SUBSET cs})
    \cup (UNION {[{c} -> {"diff"}] : c \in cs})

\* ResumeWithApproval, when it returns no error.  A call with another
\* request or session id, or while the channel is full, changes nothing.
ResumeWithApproval(s, d) ==
  /\ turn # None /\ session[turn] = s
  /\ pending # {} /\ d \in AnswersTo(pending)
  /\ approvalCh = None
  /\ approvalCh' = [id |-> requestID, dec |-> d]
  /\ granted' = granted \cup
       {<<requestID, c>> : c \in {x \in DOMAIN d : d[x] = "yes"}}
  /\ UNCHANGED <<pc, localVars, lockVars, turnVars, pending, requestID,
                 planVars, steerVars, evVars, storeVars, ran, planYes>>

\* ResumeWithPlan, when it returns no error.
ResumeWithPlan(s, answer) ==
  /\ planPending /\ planSession = s
  /\ planCh = None
  /\ planCh' = answer
  /\ planYes' = planYes \cup
       {r \in Runs : /\ answer = "yes" /\ HoldsRunning(r)
                     /\ pc[r] \notin {"claimed", "starting"}}
  /\ UNCHANGED <<pc, localVars, lockVars, turnVars, apprVars, planPending,
                 planSession, steerVars, evVars, storeVars, granted, ran>>

\* Steer reads the turn and its state ...
SteerCheck(s) ==
  /\ steering = None /\ steers < MaxSteers
  /\ turn # None /\ session[turn] = s
  /\ turnState[turn] = "streaming"
  /\ steering' = turn
  /\ steers' = steers + 1
  /\ UNCHANGED <<pc, localVars, lockVars, turnVars, apprVars, planVars,
                 steerCh, effectVars>>

\* ... and then sends, holding no lock; a full channel is an error.
SteerSend ==
  /\ steering # None
  /\ steerCh' = IF steerCh = None THEN steering ELSE steerCh
  /\ steering' = None
  /\ UNCHANGED <<pc, localVars, lockVars, turnVars, apprVars, planVars,
                 steers, effectVars>>

CancelAll ==
  /\ MayCancel /\ activeCancel # None
  /\ cancelled' = cancelled \cup {activeCancel}
  /\ UNCHANGED <<pc, localVars, running, activeCancel, turnVars, chanVars,
                 effectVars>>

\* The caller cancels the context it gave to RunTurn.
CallerCancel(r) ==
  /\ MayCancel /\ pc[r] \notin {"idle", "rejected"} /\ r \notin cancelled
  /\ cancelled' = cancelled \cup {r}
  /\ UNCHANGED <<pc, localVars, running, activeCancel, turnVars, chanVars,
                 effectVars>>

\* The caller takes an event from its channel.
Read(r) ==
  /\ eventCh[r] # <<>>
  /\ eventCh' = [eventCh EXCEPT ![r] = Tail(@)]
  /\ UNCHANGED <<pc, localVars, sharedVars, outcome, storeVars, histVars>>

-----------------------------------------------------------------------------
Init ==
  /\ pc = [r \in Runs |-> "idle"]
  /\ session = [r \in Runs |-> None]
  /\ planned = [r \in Runs |-> FALSE]
  /\ plan = [r \in Runs |-> FALSE]
  /\ partial = [r \in Runs |-> FALSE]
  /\ calls = [r \in Runs |-> 0]
  /\ steerOf = [r \in Runs |-> None]
  /\ idx = [r \in Runs |-> 1]
  /\ round = [r \in Runs |-> 0]
  /\ results = [r \in Runs |-> [c \in Calls |-> "none"]]
  /\ pend = [r \in Runs |-> {}]
  /\ dec = [r \in Runs |-> [c \in {} |-> "no"]]
  /\ running = FALSE /\ activeCancel = None /\ cancelled = {}
  /\ turn = None /\ turnState = [r \in Runs |-> "none"]
  /\ pending = {} /\ requestID = 0 /\ approvalCh = None
  /\ planPending = FALSE /\ planSession = None /\ planCh = None
  /\ steerCh = None /\ steering = None /\ steers = 0
  /\ eventCh = [r \in Runs |-> <<>>]
  /\ outcome = [r \in Runs |-> {}]
  /\ row = [r \in Runs |-> "none"]
  /\ log = [s \in Sessions |-> <<>>]
  /\ granted = {} /\ ran = {} /\ planYes = {}

Start(r) == (\E s \in Sessions, p \in PlanModes : Claim(r, s, p)) \/ Reject(r)

\* The steps of runTurnInternal and startTurn after the compare-and-swap.
Starting(r) ==
  \/ SetCancel(r) \/ DrainStale(r) \/ StartFails(r) \/ BeginPlan(r)
  \/ BeginTurn(r) \/ SaveNewTurn(r) \/ AppendUser(r) \/ OpenFirst(r)
  \/ RefuseFirst(r) \/ FreeRunning(r) \/ ClearFailedCancel(r)

\* The steps of the goroutine run().
Streaming(r) ==
  \/ Chunk(r) \/ (\E n \in 0..MaxCalls : StreamDone(r, n)) \/ StreamFails(r)
  \/ Abort(r) \/ TakeSteer(r) \/ Drained(r) \/ SteerPartial(r)
  \/ SteerAppend(r) \/ SteerEvent(r) \/ SteerOpen(r)

Planning(r) ==
  \/ PlanWithCalls(r) \/ PlanReady(r) \/ PlanEvent(r) \/ PlanApproved(r)
  \/ PlanRejected(r) \/ PlanAppend(r) \/ PlanContinue(r) \/ PlanOpen(r)
  \/ WaitCancelled(r)

CallingTools(r) ==
  \/ Settle(r) \/ RoundStart(r) \/ RoundLimit(r)
  \/ (\E v \in Verdicts : CallTool(r, v)) \/ ExecuteAllowed(r)
  \/ NothingPending(r) \/ Publish(r) \/ Ask(r) \/ TakeStale(r)
  \/ TakePayload(r) \/ Diff(r) \/ Decide(r) \/ ExecuteApproved(r)
  \/ Decided(r) \/ ClearPending(r) \/ Emit(r) \/ AppendCalls(r)
  \/ AppendResult(r) \/ ChatNext(r)

Ending(r) ==
  \/ Finish(r) \/ AppendFinal(r) \/ SaveIdle(r) \/ ErrorEvent(r)
  \/ Release(r) \/ StopRunning(r) \/ CloseEvents(r)

Running(r) == Streaming(r) \/ Planning(r) \/ CallingTools(r) \/ Ending(r)

Callers ==
  \/ \E s \in Sessions :
       \/ \E d \in AnswersTo(pending) : ResumeWithApproval(s, d)
       \/ \E a \in {"yes", "no"} : ResumeWithPlan(s, a)
       \/ SteerCheck(s)
  \/ SteerSend \/ CancelAll
  \/ \E r \in Runs : CallerCancel(r) \/ Read(r)

Next == (\E r \in Runs : Start(r) \/ Starting(r) \/ Running(r)) \/ Callers

Spec == Init /\ [][Next]_vars

-----------------------------------------------------------------------------
(* Fairness.  A goroutine that can take a step of its own takes one; a      *)
(* select that keeps finding ctx.Done() ready takes it sooner or later,      *)
(* since Go picks among the ready cases at random.  Where it waits for a     *)
(* provider or a tool nothing is assumed.                                    *)

\* In ChatStream, or reading a stream, to its end where it is given up.
ProviderPcs == {"open", "stream", "drain", "abort", "steerOpen", "planOpen",
                "chat"}

\* In tools.Execute.
ToolPcs == {"execute", "execAsked"}

RunStep(r) == Starting(r) \/ Running(r)

GoroutineFairness ==
  \A r \in Runs :
    /\ WF_vars(pc[r] \notin ProviderPcs \cup ToolPcs /\ RunStep(r))
    /\ SF_vars(WaitCancelled(r))

FairSpec == Spec /\ GoroutineFairness

\* Providers that answer every request and end every stream, and tools that
\* return.
WorkersReturn ==
  \A r \in Runs : /\ WF_vars(pc[r] \in ProviderPcs /\ RunStep(r))
                  /\ WF_vars(pc[r] \in ToolPcs /\ RunStep(r))

\* Providers and tools that return once their context is done.
WorkersYield ==
  \A r \in Runs :
    WF_vars(r \in cancelled /\ pc[r] \in ProviderPcs \cup ToolPcs /\ RunStep(r))

\* A user who decides on every pending call.
DecideAll(s) ==
  \E d \in [pending -> {"yes", "no"}] : ResumeWithApproval(s, d)

\* A user interface that reads the events and a user who answers what is
\* asked.
AttentiveUser ==
  /\ \A r \in Runs : WF_vars(Read(r))
  /\ \A s \in Sessions :
       /\ SF_vars(DecideAll(s))
       /\ WF_vars(\E a \in {"yes", "no"} : ResumeWithPlan(s, a))

-----------------------------------------------------------------------------
(* Safety. *)

\* "Returns an error if a turn is already in progress" (turn.go:276): from
\* the compare-and-swap until running is reset, no other call gets past it,
\* although the flag is reset in two places and by two goroutines.
OneRunAtATime ==
  \A r, q \in Runs : HoldsRunning(r) /\ HoldsRunning(q) => r = q

\* CancelAll never reaches for the context of a turn that is over: the
\* cancel function is withdrawn before running is reset, except on the error
\* path of a start, which withdraws it next (turn.go:302-308, 415-430).
CancelTargetsLiveRun ==
  activeCancel # None =>
    pc[activeCancel] \in StartPcs \cup RunPcs \cup {"startFailed", "failing"}

\* Calls are pending only while the one run that asked about them is between
\* publishing and clearing them, and they are the calls it waits for: no
\* error path leaves calls behind that a later answer could reach
\* (turn.go:563-681, 1048-1062).
ApprovalWindow ==
  pending # {} =>
    \E r \in Runs : pc[r] \in AskPcs /\ pending = pend[r] /\ turn = r

\* A tool the approval gate did not allow runs only if a user said yes to
\* that call in answer to the request it was listed under, whatever answers
\* are late, partial, repeated or still in the channel (turn.go:574-674).
OnlyApprovedToolsRun ==
  \A x \in ran : x.req > 0 => <<x.req, x.call>> \in granted

\* Within a round every call is answered once: none runs that has a result
\* already, although the wait is re-entered after a diff preview, and none is
\* without a result when the results go out (turn.go:574-736, 937-996).
CallsAnsweredOnce ==
  \A r \in Runs :
    /\ pc[r] \in {"execute", "execAsked"} => results[r][idx[r]] = "none"
    /\ pc[r] = "emit" => \A c \in 1..calls[r] : results[r][c] # "none"

\* Whether run r has been taken out of plan mode by a steering input.
Steered(r) ==
  \E i \in DOMAIN log[session[r]] : log[session[r]][i] = Msg(r, "steer", 0, 0)

\* "Drain any stale plan approval from previous plan-mode turns"
\* (turn.go:339): a turn started in plan mode runs a tool only if it was
\* steered, or if a user said yes while this very turn was past that drain.
\* No answer left over from an earlier turn lets it run one, although the
\* flag and the session of an earlier plan outlive a start that failed.
PlanGate ==
  \A x \in ran : planned[x.run] => x.run \in planYes \/ Steered(x.run)

\* A run that closes its channel without having been cancelled has told its
\* reader how it ended, and never in two ways (turn.go:778-781, 1064-1069).
OutcomeReported ==
  \A r \in Runs :
    /\ outcome[r] # {"done", "error"}
    /\ pc[r] = "release" /\ r \notin cancelled => outcome[r] # {}

\* The messages of conversation q with calls that are not followed by their
\* results.
Dangling(q) ==
  {i \in DOMAIN q : \E k \in 1..q[i].calls :
     i + k \notin DOMAIN q \/ q[i + k] # Msg(q[i].run, "tool", 0, k)}

\* "validate message sequence: every assistant message with ToolCalls must
\* have corresponding tool results"
\* (docs/adr/2026-06-15-kimi-code-0.15.0-parity.md:113): the model is sent a
\* call without its result only where the results are beyond the limit of
\* GetMessages, or where an earlier turn failed while it stored them; no turn
\* that goes on or ended well leaves one behind (turn.go:700-748).
RequestsAreClosed ==
  \A r \in Runs : pc[r] = "stream" =>
    LET all == log[session[r]] IN
    \A i \in Dangling(Request(session[r])) :
      \/ i \notin Dangling(all) /\ i + all[i].calls > MaxHistory
      \/ turnState[all[i].run] = "error"

-----------------------------------------------------------------------------
(* Refinement. *)

PhaseOf(p) == CASE p = "idle"     -> "idle"
                [] p = "rejected" -> "refused"
                [] p \in HoldPcs  -> "busy"
                [] OTHER          -> "over"

Service == INSTANCE TurnService WITH phase <- [r \in Runs |-> PhaseOf(pc[r])]

\* All the goroutines, channels and flags together do what TurnService says:
\* a call is refused exactly when another turn is in flight, and a tool runs
\* only inside the turn in flight and with the consent it needs.
ImplementsService == Service!Spec

-----------------------------------------------------------------------------
(* Liveness. *)

\* A turn whose context is cancelled winds down and frees the manager, if the
\* provider and the tool it waits for give way to the context, even when
\* nobody reads its events or answers its questions (turn.go:251-267).
CancelEndsRun ==
  WorkersYield =>
    \A r \in Runs :
      r \in cancelled /\ HoldsRunning(r) ~> pc[r] \in {"done", "failed"}

\* With a reader, a user who answers, and providers and tools that return,
\* every accepted turn ends: neither a diff preview, a plan nor a full event
\* channel leaves run() waiting.
TurnEnds ==
  AttentiveUser /\ WorkersReturn =>
    \A r \in Runs : HoldsRunning(r) ~> pc[r] \in {"done", "failed"}

-----------------------------------------------------------------------------
(* What comments say and the code does not do; see the README. *)

\* "The assistant first produces a plan, then waits for approval before
\* executing it" (turn.go:287): no answer is accepted, let alone followed, for
\* a plan that does not exist yet.
PlanBeforeAnswer ==
  planCh = None \/ \E r \in Runs : turnState[r] = "waiting_plan"

\* The sentence of docs/adr/2026-06-15-kimi-code-0.15.0-parity.md:113 without
\* the exceptions of RequestsAreClosed.
EveryRequestClosed ==
  \A r \in Runs : pc[r] = "stream" => Dangling(Request(session[r])) = {}

\* "CancelAll cancels the currently in-flight turn, if any" (turn.go:251).
InFlightTurnCancellable ==
  \A r \in Runs : pc[r] \in RunPcs => activeCancel = r

\* "Ignore stale approval payloads whose requestID does not match the
\* current pending set" (turn.go:583): ignored, one denies nothing.
StaleAnswerIgnored ==
  \A r \in Runs : \A c \in Calls : results[r][c] # "stale"

\* "Drain any stale steer input from previous turns" (turn.go:344): a turn
\* takes no input that was meant for another one.
SteerReachesItsTurn ==
  \A r \in Runs : steerOf[r] \in {None, r}

\* "Steer sends a mid-stream follow-up instruction to the active turn"
\* (turn.go:211): a turn does not complete with an accepted one unread.
AcceptedSteerApplied ==
  \A r \in Runs : turnState[r] = "idle" => steerCh # r

=============================================================================

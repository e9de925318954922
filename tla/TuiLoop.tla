------------------------------- MODULE TuiLoop -------------------------------
(***************************************************************************)
(* The terminal interface's update loop (src/internal/tui).                *)
(*                                                                         *)
(* Update handles one message at a time.  What a handler starts - a call   *)
(* of the turn engine, a read of the event stream - is a command: it runs  *)
(* on a goroutine of its own and its result is a later message.  `work` is *)
(* the bag of the commands that run and the messages that wait; the order  *)
(* between them is free.                                                   *)
(*                                                                         *)
(* A turn is known here by the generation of the send that started it.     *)
(* The engine (src/internal/core/turn.go, module TurnManager) is reduced   *)
(* to what the interface can tell apart: when a turn is admitted, what it  *)
(* sends, what it waits for, and when it is over.                          *)
(***************************************************************************)
EXTENDS Integers, Sequences, FiniteSets, Bags

CONSTANTS
    Calls,      \* the tool calls of the model
    Batches,    \* the batches of calls the engine asks about, in this order
    Never,      \* calls that cannot be approved for the session
    Chat,       \* the other events it may send, of Told and Tools
    Failing,    \* whether a turn may fail on its own
    MaxTyped,   \* bound: messages the user types
    MaxTurns,   \* bound: sends, those of queued messages included
    MaxKeys,    \* bound: keys the user presses in a dialog
    MaxAside,   \* bound: turns cancelled, slash commands and steers
    MaxChat,    \* bound: events of Chat
    MaxExtra,   \* bound: all of keys, Aside and Chat together
    MaxWork     \* bound: commands and messages about when the user acts

Turns == 1..MaxTurns
Messages == 1..MaxTyped
Sessions == 1..2
Requests == DOMAIN Batches
None == 0

\* What the model says, and what is sent about its calls while they run.
Told == {"content", "result"}
Tools == {"status", "progress"}

\* A batch has a call, and a provider gives every call an id of its own.
ASSUME ConstantsAssumption ==
    /\ MaxTyped \in Nat /\ MaxTurns \in Nat
    /\ Chat \subseteq Told \cup Tools
    /\ Batches \in Seq(Seq(Calls) \ {<<>>})
    /\ \A r, q \in Requests :
         \A i \in DOMAIN Batches[r], j \in DOMAIN Batches[q] :
            Batches[r][i] = Batches[q][j] => r = q /\ i = j

VARIABLES
    state,    \* the state the interface shows
    gen,      \* streamGen: sends so far
    holds,    \* the turn whose cancel function is in streamCancel
    ch,       \* the turn whose events are read: streamCh
    stopped,  \* streamCanceled
    queue,    \* messages drafted during a turn
    appr,     \* the approval controller
    plan,     \* a plan waits for an answer: planPending
    session,  \* the session that is open; a command may open another
    work,     \* bag of running commands and undelivered messages
    eng,      \* the engine's turn
    evs,      \* per turn, the events in its channel
    ended,    \* turns whose channel is closed
    done,     \* turns whose context is cancelled
    pressed,  \* history: keys the user pressed in an approval dialog
    taken,    \* history: per message, how often a turn was started for it
    quiet,    \* history: an event of this stream came whose handler does
              \* not read on
    used      \* counters for the bounds

uiVars == <<state, gen, holds, ch, stopped, queue, appr, plan, session>>
engVars == <<eng, evs, ended>>
history == <<pressed, taken>>
vars == <<uiVars, work, engVars, done, history, quiet, used>>
-----------------------------------------------------------------------------
(* The approval controller. *)
NoRequest == [req |-> None, calls |-> <<>>, index |-> 1, dec |-> <<>>]
Decisions == {"yes", "no", "always", "diff"}

Request(calls, req) ==
    [req |-> req, calls |-> calls, index |-> 1, dec |-> <<>>]

Active(a) == a.index <= Len(a.calls)

Current(a) == a.calls[a.index]

CallsOf(a) == {a.calls[i] : i \in DOMAIN a.calls}

\* Mutant: handleResponse takes a decision whatever call it names.
AnyCall(a, call) == Active(a)

Matches(a, call) == Active(a) /\ Current(a) = call

Cleared(a) == NoRequest

Built(a) ==
    [c \in CallsOf(a) |-> IF c \in DOMAIN a.dec THEN a.dec[c] ELSE "no"]

Recorded(a, call, d) ==
    [a EXCEPT !.index = @ + 1,
              !.dec = [c \in DOMAIN @ \cup {call} |->
                         IF c = call THEN d ELSE @[c]]]

Complete(a) == a.index > Len(a.calls)

Always(a) == [c \in CallsOf(a) |-> "yes"]

\* handleResponse: the controller afterwards, whether the batch is answered,
\* and with what.  A decision is taken only for the call now shown; once no
\* request is active, only "always" still has an effect.
Response(a, call, d) ==
    LET after == Recorded(a, call, d)
        open == [ctl |-> a, final |-> FALSE, dec |-> <<>>]
    IN  IF d = "diff" \/ (Active(a) /\ ~Matches(a, call)) THEN open
        ELSE IF d = "always"
             THEN [ctl |-> a, final |-> TRUE, dec |-> Always(a)]
        ELSE IF ~Active(a) THEN open
        ELSE [ctl |-> after, final |-> Complete(after), dec |-> Built(after)]
-----------------------------------------------------------------------------
(* Commands and messages.  One field per kind keeps them apart. *)
SendMsg(n) == [send |-> n]
RunCmd(g, n, p, s) == [run |-> g, of |-> n, planned |-> p, ses |-> s]
RanMsg(g, ok) == [ran |-> g, ok |-> ok]
ReadCmd(g) == [read |-> g]
Reading(g) == [reading |-> g]
EventMsg(e) == [event |-> e]
ResponseMsg(call, d) == [respond |-> d, call |-> call]
ResumeCmd(req, dec) == [resume |-> req, dec |-> dec, ses |-> session]
PlanMsg(b) == [answer |-> b]
PlanCmd(b, s) == [resumePlan |-> b, ses |-> s]
SlashCmd == [slash |-> TRUE]
SteerCmd(s) == [steer |-> TRUE, ses |-> s]
StateMsg(s) == [show |-> s]

Event(k) == [kind |-> k, req |-> None, calls |-> <<>>]
AskEvent(req, calls) == [kind |-> "ask", req |-> req, calls |-> calls]

Queued(w) == w \in DOMAIN work
Becomes(w, new) == work' = (work (-) SetToBag({w})) (+) SetToBag(new)
Also(w) == work' = work (+) SetToBag({w})

Off == [at |-> "off", turn |-> None, plan |-> FALSE, calls |-> <<>>,
        req |-> 0, box |-> <<>>, planBox |-> <<>>, ses |-> 1,
        steer |-> FALSE]

Init ==
    /\ state = "idle" /\ gen = 0 /\ holds = None /\ ch = None
    /\ stopped = FALSE /\ queue = <<>> /\ appr = NoRequest /\ plan = FALSE
    /\ session = 1
    /\ work = EmptyBag
    /\ eng = Off /\ evs = [g \in Turns |-> <<>>] /\ ended = {} /\ done = {}
    /\ pressed = {} /\ taken = [n \in Messages |-> 0]
    /\ quiet = FALSE
    /\ used = [typed |-> 0, keys |-> 0, esc |-> 0, chat |-> 0,
               slash |-> 0]

Spend(c) ==
    /\ c # "typed" =>
         used.keys + used.esc + used.slash + used.chat < MaxExtra
    /\ used' = [used EXCEPT ![c] = @ + 1]
-----------------------------------------------------------------------------
(* The user. *)
Room == BagCardinality(work) < MaxWork
Aside == used.esc + used.slash < MaxAside

\* Enter in the input: the message leaves the input whatever becomes of it.
Type ==
    /\ used.typed < MaxTyped /\ ~plan /\ Room
    /\ Spend("typed") /\ Also(SendMsg(used.typed + 1))
    /\ UNCHANGED <<uiVars, engVars, done, history, quiet>>

\* A key in the approval dialog: a response that names the call shown now.
Key(d) ==
    /\ state = "approval" /\ ~plan /\ Active(appr)
    /\ d = "always" => Current(appr) \notin Never
    /\ used.keys < MaxKeys /\ Spend("keys")
    /\ BagCardinality(work) <= MaxWork
    /\ pressed' = pressed \cup {<<appr.req, Current(appr), d>>}
    /\ Also(ResponseMsg(Current(appr), d))
    /\ UNCHANGED <<uiVars, engVars, done, taken, quiet>>

PlanKey(b) ==
    /\ plan /\ used.keys < MaxKeys /\ Spend("keys") /\ Room
    /\ Also(PlanMsg(b))
    /\ UNCHANGED <<uiVars, engVars, done, history, quiet>>

\* A slash command is taken in any state; its result comes later.
Slash ==
    /\ ~plan /\ Aside /\ Room /\ Spend("slash")
    /\ Also(SlashCmd)
    /\ UNCHANGED <<uiVars, engVars, done, history, quiet>>

\* A message for the turn that runs, from the steering overlay.
Steer ==
    /\ state \in {"thinking", "streaming"} /\ ~plan
    /\ Aside /\ Room /\ Spend("slash")
    /\ Also(SteerCmd(session))
    /\ UNCHANGED <<uiVars, engVars, done, history, quiet>>

\* Ctrl+C or Esc while a turn is shown; the queue is kept.
Cancel ==
    /\ state \in {"thinking", "streaming"} /\ ~plan
    /\ Aside /\ Spend("esc")
    /\ done' = done \cup ({holds} \ {None})
    /\ ch' = None /\ holds' = None /\ stopped' = TRUE /\ state' = "idle"
    /\ UNCHANGED <<gen, queue, appr, plan, session>>
    /\ UNCHANGED <<work, engVars, history, quiet>>
-----------------------------------------------------------------------------
(* Update: one action per message. *)

Busy == state \in {"thinking", "streaming"}
Blocked == state \in {"approval", "plan"}

HandleSendQueues(n) ==
    /\ Queued(SendMsg(n)) /\ Busy
    /\ queue' = Append(queue, n)
    /\ Becomes(SendMsg(n), {})
    /\ UNCHANGED <<state, gen, holds, ch, stopped, appr, plan, session>>
    /\ UNCHANGED <<engVars, done, history, quiet, used>>

HandleSendDrops(n) ==
    /\ Queued(SendMsg(n)) /\ Blocked
    /\ Becomes(SendMsg(n), {})
    /\ UNCHANGED <<uiVars, engVars, done, history, quiet, used>>

HandleSendStarts(n, planned) ==
    /\ Queued(SendMsg(n)) /\ ~Busy /\ ~Blocked /\ gen < MaxTurns
    /\ state' = "thinking" /\ gen' = gen + 1
    /\ holds' = gen' /\ ch' = None /\ stopped' = FALSE
    /\ Becomes(SendMsg(n), {RunCmd(gen', n, planned, session)})
    /\ UNCHANGED <<queue, appr, plan, session>>
    /\ UNCHANGED <<engVars, done, history, quiet, used>>

\* Mutant: The generation is not compared.
AnyTurn(g) == holds # None

IsCurrent(g) == holds # None /\ gen = g

\* handleRunTurnResult: a result that no longer counts is cancelled.
HandleStale(g, ok) ==
    /\ Queued(RanMsg(g, ok)) /\ ~IsCurrent(g)
    /\ done' = done \cup {g}
    /\ Becomes(RanMsg(g, ok), {})
    /\ UNCHANGED <<uiVars, engVars, history, quiet, used>>

HandleRefused(g) ==
    /\ Queued(RanMsg(g, FALSE)) /\ IsCurrent(g)
    /\ done' = done \cup {g}
    /\ holds' = None /\ ch' = None /\ stopped' = TRUE /\ state' = "error"
    /\ Becomes(RanMsg(g, FALSE), {})
    /\ UNCHANGED <<gen, queue, appr, plan, session>>
    /\ UNCHANGED <<engVars, history, quiet, used>>

HandleStarted(g) ==
    /\ Queued(RanMsg(g, TRUE)) /\ IsCurrent(g)
    /\ ch' = g /\ quiet' = FALSE
    /\ Becomes(RanMsg(g, TRUE), {ReadCmd(g)})
    /\ UNCHANGED <<state, gen, holds, stopped, queue, appr, plan, session>>
    /\ UNCHANGED <<engVars, done, history, used>>

\* The handlers that read on, and those that do not.
\* Mutant: handleToolResult does not read on.
RearmsNoResult == {"content", "ask"}

Rearms == {"content", "result", "ask"}

HandleContent ==
    LET e == EventMsg(Event("content"))
        stale == ch = None /\ stopped
    IN  /\ Queued(e)
        /\ state' = IF stale THEN state ELSE "streaming"
        /\ Becomes(e, IF stale \/ "content" \notin Rearms
                      THEN {} ELSE {ReadCmd(ch)})
        /\ UNCHANGED <<gen, holds, ch, stopped, queue, appr, plan, session>>
        /\ UNCHANGED <<engVars, done, history, quiet, used>>

HandleResult ==
    LET e == EventMsg(Event("result"))
    IN  /\ Queued(e)
        /\ Becomes(e, IF "result" \in Rearms THEN {ReadCmd(ch)} ELSE {})
        /\ UNCHANGED <<uiVars, engVars, done, history, quiet, used>>

\* A status line, the output of a running tool and a diff preview do not read
\* on; the diff was asked for by a handler that did.
HandleStatus ==
    LET e == EventMsg(Event("status"))
    IN  /\ Queued(e) /\ Becomes(e, {})
        /\ quiet' = TRUE
        /\ UNCHANGED <<uiVars, engVars, done, history, used>>

HandleProgress ==
    LET e == EventMsg(Event("progress"))
    IN  /\ Queued(e) /\ Becomes(e, {})
        /\ quiet' = TRUE
        /\ UNCHANGED <<uiVars, engVars, done, history, used>>

HandleDiff ==
    LET e == EventMsg(Event("diff"))
    IN  /\ Queued(e) /\ Becomes(e, {})
        /\ state' = "approval"
        /\ UNCHANGED <<gen, holds, ch, stopped, queue, appr, plan, session>>
        /\ UNCHANGED <<engVars, done, history, quiet, used>>

HandleAsk(req, calls) ==
    LET e == EventMsg(AskEvent(req, calls))
    IN  /\ Queued(e) /\ Becomes(e, {ReadCmd(ch)})
        /\ appr' = Request(calls, req) /\ state' = "approval"
        /\ UNCHANGED <<gen, holds, ch, stopped, queue, plan, session>>
        /\ UNCHANGED <<engVars, done, history, quiet, used>>

HandlePlanRequest ==
    LET e == EventMsg(Event("plan"))
    IN  /\ Queued(e) /\ Becomes(e, {})
        /\ plan' = TRUE /\ state' = "plan" /\ quiet' = TRUE
        /\ UNCHANGED <<gen, holds, ch, stopped, queue, appr, session>>
        /\ UNCHANGED <<engVars, done, history, used>>

HandleError ==
    LET e == EventMsg(Event("error"))
    IN  /\ Queued(e) /\ Becomes(e, {})
        /\ state' = "error" /\ quiet' = TRUE
        /\ UNCHANGED <<gen, holds, ch, stopped, queue, appr, plan, session>>
        /\ UNCHANGED <<engVars, done, history, used>>

\* sendNextQueuedCmd takes the message off the queue when it is created.
\* Mutant: The message stays in the queue.
NotDequeued(q) == q

Dequeued(q) == IF q = <<>> THEN q ELSE Tail(q)

HandleDone ==
    LET e == EventMsg(Event("done"))
    IN  /\ Queued(e)
        /\ state' = IF state = "error" THEN state ELSE "idle"
        /\ done' = done \cup ({holds} \ {None})
        /\ holds' = None /\ ch' = None /\ stopped' = FALSE
        /\ queue' = Dequeued(queue)
        /\ Becomes(e, IF queue = <<>> THEN {} ELSE {SendMsg(Head(queue))})
        /\ UNCHANGED <<gen, appr, plan, session>>
        /\ UNCHANGED <<engVars, history, quiet, used>>

HandleState(s) ==
    /\ Queued(StateMsg(s)) /\ Becomes(StateMsg(s), {})
    /\ state' = s
    /\ UNCHANGED <<gen, holds, ch, stopped, queue, appr, plan, session>>
    /\ UNCHANGED <<engVars, done, history, quiet, used>>

\* The result of a slash command sets the state, whatever it was; a fork,
\* an import and a choice in the session list also open a session.
HandleSlash ==
    /\ Queued(SlashCmd) /\ Becomes(SlashCmd, {})
    /\ state' \in {"idle", "error"}
    /\ session' \in (IF state' = "idle" THEN Sessions ELSE {session})
    /\ UNCHANGED <<gen, holds, ch, stopped, queue, appr, plan>>
    /\ UNCHANGED <<engVars, done, history, quiet, used>>

\* handleApprovalResponse.
HandleMoreToDecide(call, d) ==
    LET r == Response(appr, call, d)
    IN  /\ Queued(ResponseMsg(call, d)) /\ d # "diff" /\ ~r.final
        /\ appr' = r.ctl
        /\ Becomes(ResponseMsg(call, d), {})
        /\ UNCHANGED <<state, gen, holds, ch, stopped, queue, plan, session>>
        /\ UNCHANGED <<engVars, done, history, quiet, used>>

HandleDecided(call, d) ==
    LET r == Response(appr, call, d)
    IN  /\ Queued(ResponseMsg(call, d)) /\ r.final
        /\ appr' = Cleared(r.ctl) /\ state' = "thinking"
        /\ Becomes(ResponseMsg(call, d),
                   {ResumeCmd(appr.req, r.dec), ReadCmd(ch)})
        /\ UNCHANGED <<gen, holds, ch, stopped, queue, plan, session>>
        /\ UNCHANGED <<engVars, done, history, quiet, used>>

HandleDiffKey(call) ==
    LET w == ResponseMsg(call, "diff")
        look == [c \in {call} |-> "diff"]
    IN  /\ Queued(w)
        /\ Becomes(w, {ResumeCmd(appr.req, look), ReadCmd(ch)})
        /\ UNCHANGED <<uiVars, engVars, done, history, quiet, used>>

HandlePlanAnswer(b) ==
    /\ Queued(PlanMsg(b)) /\ Becomes(PlanMsg(b), {PlanCmd(b, session)})
    /\ plan' = FALSE
    /\ UNCHANGED <<state, gen, holds, ch, stopped, queue, appr, session>>
    /\ UNCHANGED <<engVars, done, history, quiet, used>>
-----------------------------------------------------------------------------
(* Commands. *)

\* readStreamChunk looks at the model once, then blocks on the channel it
\* was made for.  Without a channel it reports the end of a stream.
BeginRead(g) ==
    /\ Queued(ReadCmd(g))
    /\ \/ /\ g = None /\ Becomes(ReadCmd(g), {EventMsg(Event("done"))})
       \/ /\ g # None /\ (g # ch \/ stopped) /\ Becomes(ReadCmd(g), {})
       \/ /\ g # None /\ g = ch /\ ~stopped
          /\ Becomes(ReadCmd(g), {Reading(g)})
    /\ UNCHANGED <<uiVars, engVars, done, history, quiet, used>>

ReadEvent(g) ==
    /\ Queued(Reading(g))
    /\ \/ /\ evs[g] # <<>>
          /\ Becomes(Reading(g), {EventMsg(Head(evs[g]))})
          /\ evs' = [evs EXCEPT ![g] = Tail(@)]
       \/ /\ evs[g] = <<>> /\ g \in ended
          /\ Becomes(Reading(g), {EventMsg(Event("done"))})
          /\ UNCHANGED evs
    /\ UNCHANGED <<uiVars, eng, ended, done, history, quiet, used>>

\* RunTurn: one turn at a time; a cancelled context fails the store's reads.
RunRefused(g, n, p, s) ==
    /\ Queued(RunCmd(g, n, p, s)) /\ (eng.at # "off" \/ g \in done)
    /\ Becomes(RunCmd(g, n, p, s), {RanMsg(g, FALSE)})
    /\ UNCHANGED <<uiVars, engVars, done, history, quiet, used>>

RunStarts(g, n, p, s) ==
    /\ Queued(RunCmd(g, n, p, s)) /\ eng.at = "off" /\ g \notin done
    /\ Becomes(RunCmd(g, n, p, s), {RanMsg(g, TRUE)})
    /\ eng' = [Off EXCEPT !.at = "model", !.turn = g, !.plan = p,
                          !.req = eng.req, !.ses = s]
    /\ taken' = [taken EXCEPT ![n] = @ + 1]
    /\ UNCHANGED <<uiVars, evs, ended, done, pressed, quiet, used>>

\* ResumeWithApproval, and the message its command returns.
ResumeApproval(w) ==
    LET req == w.resume
        dec == w.dec
        fits == /\ eng.calls # <<>> /\ eng.ses = w.ses
                /\ eng.req = req /\ eng.box = <<>>
        diff == \E c \in DOMAIN dec : dec[c] = "diff"
    IN  /\ Queued(w)
        /\ \/ /\ fits
              /\ eng' = [eng EXCEPT !.box = <<req, dec>>]
              /\ Becomes(w, {StateMsg(IF diff THEN "approval"
                                              ELSE "thinking")})
           \/ /\ ~fits /\ UNCHANGED eng
              /\ Becomes(w, {EventMsg(Event("error"))})
        /\ UNCHANGED <<uiVars, evs, ended, done, history, quiet, used>>

\* ResumeWithPlan: a plan is pending from the turn's start.
ResumePlan(b, s) ==
    LET fits == eng.plan /\ eng.ses = s /\ eng.planBox = <<>>
    IN
    /\ Queued(PlanCmd(b, s))
    /\ \/ /\ fits
          /\ eng' = [eng EXCEPT !.planBox = <<b>>]
          /\ Becomes(PlanCmd(b, s), {StateMsg("thinking")})
       \/ /\ ~fits /\ UNCHANGED eng
          /\ Becomes(PlanCmd(b, s), {EventMsg(Event("error"))})
    /\ UNCHANGED <<uiVars, evs, ended, done, history, quiet, used>>
\* Steer: only a turn that hears the model can be steered.
SteerRuns(s) ==
    LET fits == eng.at = "model" /\ eng.ses = s /\ ~eng.steer
    IN  /\ Queued(SteerCmd(s))
        /\ eng' = [eng EXCEPT !.steer = @ \/ fits]
        /\ Becomes(SteerCmd(s), {IF fits THEN StateMsg("thinking")
                                  ELSE EventMsg(Event("error"))})
        /\ UNCHANGED <<uiVars, evs, ended, done, history, quiet, used>>
-----------------------------------------------------------------------------
(* The engine's turn. *)
Emit(es) == evs' = [evs EXCEPT ![eng.turn] = @ \o es]
Live == eng.turn \notin done
EngineFrame == UNCHANGED <<uiVars, work, ended, done, pressed, taken, quiet>>

\* Calls that need no answer run while it hears the model; then, or after an
\* answer, a tool sends its status line and, unless the channel is full, its
\* output.
Chats(k) ==
    /\ eng.at = "model" \/ (eng.at = "running" /\ k \in Tools)
    /\ Live /\ used.chat < MaxChat /\ Spend("chat")
    /\ Emit(<<Event(k)>>)
    /\ EngineFrame /\ UNCHANGED eng

Asks(r) ==
    /\ eng.at = "model" /\ ~eng.plan /\ Live /\ r = eng.req + 1
    /\ eng' = [eng EXCEPT !.at = "asked", !.req = r, !.calls = Batches[r]]
    /\ Emit(<<AskEvent(r, Batches[r])>>)
    /\ EngineFrame /\ UNCHANGED used

DiffOnly(dec) == dec # <<>> /\ \A c \in DOMAIN dec : dec[c] = "diff"
Asked == {eng.calls[i] : i \in DOMAIN eng.calls}

ShowsDiff ==
    /\ eng.at = "asked" /\ Live /\ eng.box # <<>>
    /\ eng.box[1] = eng.req /\ DiffOnly(eng.box[2])
    /\ eng' = [eng EXCEPT !.box = <<>>]
    /\ Emit([i \in 1..Cardinality(DOMAIN eng.box[2] \cap Asked) |->
               Event("diff")])
    /\ EngineFrame /\ UNCHANGED used

\* The calls run, or are denied; an answer to an older request denies all.
Decides ==
    /\ eng.at = "asked" /\ Live /\ eng.box # <<>>
    /\ ~(eng.box[1] = eng.req /\ DiffOnly(eng.box[2]))
    /\ eng' = [eng EXCEPT !.at = "running", !.box = <<>>]
    /\ EngineFrame /\ UNCHANGED <<evs, used>>

Reports ==
    /\ eng.at = "running" /\ Live
    /\ eng' = [eng EXCEPT !.at = "model", !.calls = <<>>]
    /\ Emit([i \in DOMAIN eng.calls |-> Event("result")])
    /\ EngineFrame /\ UNCHANGED used

Plans ==
    /\ eng.at = "model" /\ eng.plan /\ Live
    /\ eng' = [eng EXCEPT !.at = "planned"]
    /\ Emit(<<Event("plan")>>)
    /\ EngineFrame /\ UNCHANGED used

\* A steer ends plan mode and is shown by an event like a status line.
Steered ==
    /\ eng.at = "model" /\ eng.steer /\ Live
    /\ eng' = [eng EXCEPT !.steer = FALSE, !.plan = FALSE]
    /\ Emit(<<Event("status")>>)
    /\ EngineFrame /\ UNCHANGED used

PlanApproved ==
    /\ eng.at = "planned" /\ Live /\ eng.planBox = <<TRUE>>
    /\ eng' = [eng EXCEPT !.at = "model", !.plan = FALSE, !.planBox = <<>>]
    /\ EngineFrame /\ UNCHANGED <<evs, used>>

\* setError: on a cancelled context the event may not be sent.
Fails ==
    /\ eng.at \notin {"off", "over"}
    /\ \/ ~Live
       \/ Failing /\ eng.at = "model"
       \/ eng.at = "planned" /\ eng.planBox = <<FALSE>>
    /\ eng' = [eng EXCEPT !.at = "over", !.calls = <<>>, !.plan = FALSE]
    /\ \/ Emit(<<Event("error")>>)
       \/ ~Live /\ UNCHANGED evs
    /\ EngineFrame /\ UNCHANGED used

Finishes ==
    /\ eng.at = "model" /\ ~eng.plan /\ Live
    /\ eng' = [eng EXCEPT !.at = "over"]
    /\ Emit(<<Event("done")>>)
    /\ EngineFrame /\ UNCHANGED used

\* The engine is free only after the last saves; the channel closes with it.
Frees ==
    /\ eng.at = "over"
    /\ eng' = [Off EXCEPT !.req = eng.req]
    /\ ended' = ended \cup {eng.turn}
    /\ UNCHANGED <<uiVars, work, evs, done, history, quiet, used>>
-----------------------------------------------------------------------------
UserNext ==
    \/ Type
    \/ \E d \in Decisions : Key(d)
    \/ \E b \in BOOLEAN : PlanKey(b)
    \/ Slash
    \/ Steer
    \/ Cancel

SendNext ==
    \E n \in Messages :
        \/ HandleSendQueues(n)
        \/ HandleSendDrops(n)
        \/ \E planned \in BOOLEAN : HandleSendStarts(n, planned)

RunNext ==
    \E g \in Turns :
        \/ \E ok \in BOOLEAN : HandleStale(g, ok)
        \/ HandleRefused(g)
        \/ HandleStarted(g)
        \/ \E n \in Messages, p \in BOOLEAN, s \in Sessions :
              RunRefused(g, n, p, s) \/ RunStarts(g, n, p, s)

ReadNext ==
    \/ \E g \in {None} \cup Turns : BeginRead(g)
    \/ \E g \in Turns : ReadEvent(g)
    \/ HandleContent
    \/ HandleResult
    \/ HandleStatus
    \/ HandleProgress
    \/ HandleDiff
    \/ HandlePlanRequest
    \/ HandleError
    \/ HandleDone

AnswerNext ==
    \/ \E r \in Requests : HandleAsk(r, Batches[r])
    \/ \E c \in Calls, d \in Decisions :
          HandleMoreToDecide(c, d) \/ HandleDecided(c, d)
    \/ \E c \in Calls : HandleDiffKey(c)
    \/ \E w \in {x \in DOMAIN work : "resume" \in DOMAIN x} :
          ResumeApproval(w)
    \/ \E b \in BOOLEAN : HandlePlanAnswer(b)
    \/ \E b \in BOOLEAN, s \in Sessions : ResumePlan(b, s)
    \/ \E s \in Sessions : SteerRuns(s)
    \/ HandleSlash
    \/ \E s \in {"thinking", "approval"} : HandleState(s)

EngineNext ==
    \/ \E k \in Chat : Chats(k)
    \/ \E r \in Requests : Asks(r)
    \/ ShowsDiff
    \/ Decides
    \/ Reports
    \/ Plans
    \/ PlanApproved
    \/ Steered
    \/ Fails
    \/ Finishes
    \/ Frees

Next == UserNext \/ SendNext \/ RunNext \/ ReadNext \/ AnswerNext
        \/ EngineNext

Spec == Init /\ [][Next]_vars
-----------------------------------------------------------------------------
(* Properties. *)

\* The type invariant: the controller's index points into its batch or just
\* past its end, and is at the start when there is no batch.
TypeOK ==
    /\ state \in {"idle", "thinking", "streaming", "approval", "plan",
                  "error"}
    /\ gen \in 0..MaxTurns /\ {holds, ch} \subseteq {None} \cup Turns
    /\ stopped \in BOOLEAN /\ plan \in BOOLEAN /\ queue \in Seq(Messages)
    /\ appr.calls \in Seq(Calls)
    /\ appr.index \in 1..(Len(appr.calls) + 1)
    /\ DOMAIN appr.dec \subseteq CallsOf(appr)
    /\ IsABag(work)
    /\ eng.at \in {"off", "model", "asked", "running", "planned", "over"}
    /\ eng.turn \in {None} \cup Turns /\ eng.req \in 0..Len(Batches)
    /\ ended \subseteq Turns /\ done \subseteq Turns

\* What is on the screen belongs to the last send: an answer of the engine
\* that arrives after the user cancelled that turn, or sent again, attaches
\* no stream and no cancel function (handleRunTurnResult).
LatestStream == {holds, ch} \subseteq {None, gen}

\* What the controller hands to the engine is what the user chose while that
\* call was the one shown, however fast the keys come: with no "always" in
\* the batch, every decision it sends was pressed for its call.
AnswersChosen ==
    \A w \in DOMAIN work :
        "resume" \in DOMAIN w =>
            \/ \E c \in Calls : <<w.resume, c, "always">> \in pressed
            \/ \A c \in DOMAIN w.dec :
                  w.dec[c] # "diff" => <<w.resume, c, w.dec[c]>> \in pressed

\* A drafted message starts at most one turn, through queueing, automatic
\* sending, refusal and cancelling.
SentOnce == \A n \in Messages : taken[n] <= 1

\* While a turn is shown, somebody reads its events, before and after the
\* approval dialog, however many previews the user asks for.  The exceptions
\* are the events whose handlers do not read on: a tool's status line or
\* output, a steer, a plan and an error (model.go:596-598, 641-647, 795-799
\* and 807-813).
Reader(w) ==
    \/ w \in {ReadCmd(ch), Reading(ch)}
    \/ "event" \in DOMAIN w
Attended ==
    (ch # None /\ ~stopped /\ ~quiet) => \E w \in DOMAIN work : Reader(w)

\* What a comment says of the events that those handlers take ("shell output
\* is streamed as TurnEventToolProgress events", turn.go:1000-1001), without
\* those exceptions: the rest of the stream is read.
AlwaysAttended ==
    (ch # None /\ ~stopped) => \E w \in DOMAIN work : Reader(w)

\* What a comment says of the stream's guard: an event of an old stream does
\* nothing to a new one.  A turn's context is cancelled only by the user, by
\* its own end, or when the engine refused it.
NewTurnKept ==
    [][\A g \in done' \ done :
         \/ used'.esc # used.esc
         \/ g # eng.turn \/ eng.at \in {"off", "over"}
         \/ g # gen]_vars

\* What a comment says of "always": it approves the batch only from the
\* first call, so a call the user has rejected stays rejected.
RejectedStays ==
    [][\A w \in DOMAIN work' \ DOMAIN work :
         "resume" \in DOMAIN w =>
             \A c \in DOMAIN w.dec \cap DOMAIN appr.dec :
                 appr.dec[c] = "no" => w.dec[c] # "yes"]_vars
=============================================================================

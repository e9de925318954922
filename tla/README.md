# kimi-lite in TLA+

kimi-lite is a terminal coding agent: a user types a message, a language model
answers with text and tool calls, the tools run on the user's machine (after
the user's approval where the policy wants one), their results go back to the
model, and so on until it answers without tool calls. This directory holds TLA+
models of its core logic, the TLC configurations that check them, and proofs of
the properties that matter most.

    tlc -config TurnManager_rounds.cfg MCTurnManager.tla     # one run
    tlapm TurnManagerProofs.tla                        # the proofs

`PROJECT.json` lists the runs with their configurations and maps each
definition to the source lines it stands for.

## 1. Inventory

Paths are relative to `src/`.

| Component | Files | State | Operations | Correct when |
|---|---|---|---|---|
| Turn engine | `internal/core/turn.go` | running flag, cancel function, current turn, pending calls and request id, plan flags, three one-slot channels, one event channel per turn | RunTurn*, ResumeWithApproval, ResumeWithPlan, Steer, CancelAll; the goroutine `run` | one turn at a time; no tool without consent; every call answered; every turn ends and says how |
| Approval gate | `internal/core/approval.go`, `risk.go` | mode, rules, read-only hints | Decide, SetMode, AddAutoApprove | what runs unasked is allowed by the mode, the rules and the risk of that moment |
| Tools | `internal/core/tools.go`, `composite_tools.go`, `procgroup/` | sandbox root, files, child processes | Execute per tool | a file is never half written; a command ends, at its timeout at the latest |
| Subagents and hooks | `internal/core/subagents/`, `internal/core/hooks/` | one loop per subagent; configured commands | Run; Run per event | rounds bounded; a hook cannot hold up the turn |
| Session manager, compaction | `internal/core/session.go`, `compressor.go` | none of their own: the store's rows | Create, Load (recovery), Fork, Clear; Compact | recovery leaves a conversation a provider accepts; compaction loses nothing it does not summarise |
| Store | `internal/store/sqlite.go` | schema version, sessions, turns, messages | opening and migrations, Save*, Append*, Get*, Replace*, startup cleanup | whoever has opened it finds the whole schema; a kill can be followed by another start |
| LLM client | `internal/llm/client.go`, `streaming.go`, `fallback.go` | one HTTP response per stream | Chat, ChatStream, retries, fallback | a stream ends with one final chunk or an error; what it gives is what one server sent |
| MCP client | `internal/mcp/*.go` | pending calls by id, child process or HTTP session, routes by tool | Call, Notify, Close, ListTools | every call is answered once, also when the server dies or is closed; a name leads to the tool it was given to |
| Terminal interface | `internal/tui/*.go` | state, generation of the turn, stream, cancel function, approval controller, queue, shell overlay | Update per message, key handlers | a late answer attaches nothing to a newer turn; what the user decides is what is sent; a message starts one turn |
| ACP server | `internal/acp/*.go` | current session, in-flight flag, cancel function | initialize, session/*, prompt, cancel | one prompt at a time; cancel reaches it |
| Application | `internal/app/app.go`, `cmd/kimi-lite/` | the components and their life time | New, Run, RunPrompt, Close | shutdown stops turns before it closes what they use, and ends |
| Config, git, observability, netutil, idgen, presentation | the other packages | - | - | pure or input/output only |

**How they interact.** The interface calls `RunTurn` and reads the event
channel it returns; from another goroutine it answers (`ResumeWithApproval`,
`ResumeWithPlan`), steers and cancels. The turn's goroutine calls the store,
the LLM client, the gate and the tools, and writes events. The gate asks the
executors whether a tool is read-only; the composite executor tries the
built-in tools and then the MCP servers; `dispatch_subagent` runs a second
model loop over the same executors. The ACP server is a second interface with
the calls of the first. `App.Close` cancels and waits for turns, then closes
MCP, the sandbox root and the store.

**What is hard.** Every field of the turn engine is shared by the goroutine of
the turn, the goroutine that starts the next one and the callers, under four
different locks and an atomic flag, with windows between them; the three input
channels outlive the turn they were meant for; every blocking send or receive
must give way to cancellation; the conversation in the store is written message
by message by a turn that may be cancelled at any of them, while compaction or
a fork has read it and is about to write. In the interface each command runs on
a goroutine of its own, so that its result may meet a newer turn. The same kind
of question comes back in each client: which answer belongs to which call once
calls overlap, time out or are cancelled. `PROJECT.json` lists the hazards, each
with its line and the properties that are about it.

## 2. What is modelled

| Component | Modules | Run | Proved in |
|---|---|---|---|
| Turn engine | `TurnManager` implements `TurnService` | `rounds`, `runs`, `ends` | `TurnManagerProofs` |
| MCP over stdio | `StdioTransport` implements `RpcService` | `stdio` | `StdioTransportProofs` |
| MCP over SSE | `SSETransport` implements `RpcService` | `sse` | `SSETransportProofs` |
| ACP server | `AcpServer` | `acp` | `ApplicationProofs` |
| LLM client | `ChatStream`, and over two of them `FallbackStream`, which implements `StreamService` | `llm` | `FallbackStreamProofs` |
| Terminal interface | `TuiLoop` | `tui` | `TuiLoopProofs` |
| Application, store opening, file tools | `AppLifecycle` over `StoreOpening` and `FileTools` | `app` | `ApplicationProofs` |
| Gate, tool lookup, subagents | `ToolGate` over `ApprovalGate` and `ToolRouting` | `gate` | `ToolGateProofs` |
| Shell tool, hooks, shell overlay | `ShellOverlay` over `CommandRun` | `shell` | - |
| Session manager, store, compaction | `Conversation` | `conversation` | `ConversationProofs` |

A module `MC...` extends a specification for TLC and gives its constants and
the symmetry of its requests. A definition under a comment that begins with
"Mutant" is a wrong variant of the one that follows it; no specification uses
it, it shows which mistake in the code a property catches.

A process of the system (a call of `RunTurn`, of `Send`, a prompt) is an element
of a constant set; `pc` says where it is in its function. An action is what a
goroutine does between two points at which another goroutine can see or change
what it uses: a critical section, a channel operation, a call of the store or
the network. A deferred call is an action of its own when others can come
between it and the next one. Text, ids and payloads are left out unless a
property tells them apart: a message is its role, the turn it belongs to and the
call it makes or answers; a JSON-RPC frame is its kind and the call whose id it
carries; a context is a set of the calls whose context is done.

### TurnManager (`internal/core/turn.go`)

A *run* is one call of `runTurnInternal` (turn.go:293-311) and the goroutine
`run()` it starts.

| State | Code |
|---|---|
| `running`, `activeCancel`, `turn`, `pending`, `requestID`, `planPending`, `planSession` | the fields of the same names (turn.go:29-66) |
| `approvalCh`, `planCh`, `steerCh` | the channels of capacity 1 that outlive a turn |
| `cancelled` | the runs whose context is done |
| `plan`, `partial`, `calls`, `idx`, `round`, `results`, `pend`, `dec` | the locals of `run()` and `executeToolCalls` |
| `eventCh`, `turnState`, `row`, `log` | the event channel, `turn.State`, the turn's row and the session's messages in the store |
| `granted`, `ran`, `planYes`, `outcome` | history only: no guard reads them |

| Actions | Code |
|---|---|
| `Claim`, `Reject`, `SetCancel`, `DrainStale`, `BeginPlan`, `BeginTurn`, `SaveNewTurn`, `AppendUser`, `OpenFirst`; `StartFails`, `RefuseFirst`, `FreeRunning`, `ClearFailedCancel` | `runTurnInternal`, `startTurn` and their error path |
| `Chunk`, `StreamDone`, `StreamFails`, `Abort`, `TakeSteer`, `Drained`, `Steer*` | `consumeStream`, `applySteer` |
| `Plan*`, `WaitCancelled` | the plan mode of `run()` |
| `RoundStart`, `RoundLimit`, `CallTool`, `Execute*`, `NothingPending`, `Publish`, `Ask`, `TakeStale`, `TakePayload`, `Diff`, `Decide`, `ClearPending`, `Emit`, `AppendCalls`, `AppendResult`, `ChatNext` | one tool round |
| `Finish`, `AppendFinal`, `SaveIdle`, `ErrorEvent`, `Release`, `StopRunning`, `CloseEvents` | the end of `run()` and its deferred calls |
| `ResumeWithApproval`, `ResumeWithPlan`, `SteerCheck`, `SteerSend`, `CancelAll`, `CallerCancel`, `Read` | the callers |

`BeginPlan` and `BeginTurn` are the two critical sections of `startTurn`
(turn.go:349-354 and 369-372): between them an answer to the plan is accepted
although `tm.turn` is still the last turn. `Request` is what `GetMessages`
returns, the first `MaxHistory` messages of the session.
`Offer` is the `select` of an event send against `ctx.Done()`, `SaveRow` and
`AppendThen` are the store calls with the turn's context, `SetError` is
`setError`. `Return` forgets the locals of `run()` where it returns, before its
deferred calls. The approval gate is an oracle (`Verdicts`), the provider a stream
that yields a chunk, ends with any number of calls, fails or stays silent. A
payload that asks for a diff and decides in one is never sent by the callers
(approval_controller.go:72-139) and is not modelled.

`TurnService` knows a run only as idle, in flight, over or refused: a run is
accepted exactly when no other is in flight, and a tool runs inside the run in
flight and, when the gate asked, after a yes to that call of that request.

### StdioTransport (`internal/mcp/transport.go`)

`pending` and `ch` are the table of calls and the channel of each; `writeMu`,
`writer` and `pipeClosed` the writing side; `reader` and `held` the read loop
and the frame it has matched; `proc`, `waited` and `killArmed` the child process
and the end of `Close`; `received`, `replied` and `out` the server and its
stdout. `Send` is `Refused`/`Register`, `SendWrites`, the writer's end or the
context's, and `waiting`; `Close` is its critical section, `CloseStdin`, the
wait for the writers, the process and the read loop. The operating system and
the server are the external part: the pipe takes a write, is full or broken; the
server reads, answers in any order, asks, writes garbage, dies or does nothing.

### SSETransport (`internal/mcp/transport_sse.go`)

The same table, with a POST per call and one stream for the answers. `Connector`
is `Connect` followed by the handshake of `Client.Connect` (client.go) and what
`app.New` does with its context (app.go); `Enders` are those who can run
`Close`: a caller, a failed `Connect`, and the read loop. The channels of
pending calls are *closed* by `Sweep`, so an answer sent in the same moment
would panic.

`RpcService` is what both transports promise: a call ends once, with an answer
the server gave to that very call or with an error, and a transport that is down
stays down and takes no more calls.

### AcpServer (`internal/acp/server.go`, `prompt.go`, `session.go`)

`run` is the loop of `Run`, `pc` where the goroutine of each prompt is, in the
order of `handleSessionPrompt`: read, session captured, cancel function stored,
marked in flight, turn started, events forwarded, response written, and then
each deferred call (`EndPrompt`, `UnsetCancel`, `CancelContext`, `Release`). The
engine under it is what `TurnManager` shows it to be: it refuses a second turn,
closes the channel after the last event, ends a turn that is cancelled, and
waits for a decision that over ACP nobody can give.

### ChatStream and FallbackStream (`internal/llm/client.go`, `streaming.go`, `fallback.go`)

`ChatStream` is one call of `Client.ChatStream` per client: `attempt` and
`failure` belong to `doRequestWithRetry`; `body`, `reader`, `readCh`, `calls`,
`todo` and `ch` to the three goroutines a response starts. The read loop turns
the body into events, the stream goroutine (`pc`) accumulates tool-call
fragments and sends chunks, each of which gives way to the context, and the
watcher closes the body when the context is done. An event is what
`readRawChunk` returns: text or not, a fragment or not, the end or not; the
server chooses it when it is read (`Read`). The loop holds one event more than
`readCh` in the code; a server that is one event behind behaves the same. The
deferred calls of the stream goroutine are one action, since nobody sees more
than one of their effects. Errors are of two classes, "client" (4xx, and the 429
that is left after the last attempt) and "other", which is what `isClientError`
tells apart.

`FallbackStream` adds `FallbackClient.ChatStream`: `fpc` is the call (the
primary, the peek, the fallback) and then the goroutine that relays the primary.
There always is a fallback (provider.go:42-45). `CallerCancels` ends the turn's
context at any moment.

`StreamService` is what `consumeStream` (turn.go:818-901) relies on. It takes a
channel that closes without a last chunk, in a live context, for a complete
answer without tool calls: so that must not happen.

### TuiLoop (`internal/tui/model*.go`, `approval_controller.go`, `commands.go`)

| State | Code |
|---|---|
| `state`, `gen`, `holds`, `ch`, `stopped`, `queue`, `plan`, `session` | `state`, `streamGen`, the turn whose function is in `streamCancel`, the turn of `streamCh`, `streamCanceled`, the queue of `model_queue.go`, `planPending`, `sessionID` |
| `appr` | the approval controller: request, calls, index, decisions |
| `work` | a bag: the commands that run and the messages that wait for `Update` |
| `eng`, `evs`, `ended`, `done` | the engine's turn, what is in each event channel, the closed ones, the cancelled contexts |
| `pressed`, `taken`, `quiet` | history only |

`HandleX` is the case of `Update` for the message X, `BeginRead`/`ReadEvent` the
two halves of `readStreamChunk`, `Key`, `Type`, `Cancel`, `Steer`, `Slash` the
keys. The engine is reduced to what the interface can tell apart. A command and
its result have no order against others, as in Bubble Tea. `Batches` says what
the engine asks about, one batch after the other; each call has an id of its
own, as providers give them (section 8 says what happens otherwise).

### ToolGate, ApprovalGate, ToolRouting (`core/approval.go`, `risk.go`, `composite_tools.go`, `mcp/multiclient.go`, `tool_executor.go`)

`ApprovalGate` has the decision as operators: the rules by scope and order
(`EvaluateRules`), the risk rules, the modes. `ToolRouting` has what one turn of
the loop of `ListTools` makes of the tools of one more server: the inner loop over
its tools is a function `ks` from their places to how often the server's key is
put in front of each, the least number that makes the name free among the tools
before it (`FinalNames`). There is one such function for every answer.
`ToolGate` has the state: `mode`, `rules` and the change to a mode that waits for
the gate's lock; `srv`, `routes`, `cached` for the servers, the table of the last
listing and the definitions the executor shows; `asked`, `answered`, `listing`
for listings of the turn and of the user that overlap; `pc`, `call`, `how`,
`ran`, `stale`, `sub` for the call at hand and the stack of subagents. `Decide`
may have to list the tools to learn whether one is read-only, under the gate's
read lock; the call itself looks the tool up again.

### ShellOverlay and CommandRun (`tui/shell/shell.go`, `core/tools.go`, `core/hooks/exec.go`)

`CommandRun` is one call of the shell tool: the processes of its hooks and of
the command one after the other (`step`), each with its leader, its descendant,
its pipe, the watcher that kills the group and `Wait`. `ShellOverlay` adds the
overlay, the update loop's part of it, the goroutine of each command and the
bounded channel between them.

### AppLifecycle, StoreOpening, FileTools (`app/app.go`, `app/prompt.go`, `store/sqlite.go`, `core/tools.go`)

`main` follows the main goroutine through configuration, `New`, the session, the
interface, single prompt or file command, and `Close`; every step of `New` may
fail and undoes what was built. `StoreOpening` is `NewSQLite` in several
processes over any database there may be: `db` is `user_version` and the parts
of the schema, a migration is a transaction, what it is decided on was read
before it. `FileTools` is `atomicWriteFileRoot`: the target, the temporary file
of each call, the mode that was found.

### Conversation (`store/sqlite.go`, `core/session.go`, `core/compressor.go`)

`rows`, `turns`, `made` are the tables; `run` the turn that appends, `op` the
operation (open, compact, fork, import) that has read a session and has not yet
written. `Listing` is the order of `GetMessages` - time, then random id - and
`Get` its limit. A crash can come between any two steps. `loose` collects the
calls whose result the code may let come apart from the message that has them:
where that message was stored while an operation had its session in hand, or was
not returned by such a read although its result is; where a clear or a system
message came while the turn had results to store; and where a recovery or a fork
puts a message of the same time between the two.

## 3. What the runs check

Every property has a comment above it that says which code it is about.

| Run | Instance | What it shows |
|---|---|---|
| `rounds` | one planned turn, a round of up to two calls, denied or asked about, one steering input, cancellation | a tool runs only with a yes to its own call; a call is answered exactly once, also over diff previews; the reader learns how a turn ended |
| `runs` | two planned turns, at once or one after the other, `MaxTurns` 1, one call, a store that fails, requests of four messages, cancellation | refinement of `TurnService`; a planned turn runs a tool only after a yes given while it was past its drain; a request has a call without its result only where it was cut or an earlier turn failed |
| `ends` | one turn, planned or not, two rounds of one call that is asked about, so that an answer to the first can meet the second | a cancelled turn ends although nobody reads or answers, if the provider and the tools yield to their context; with a reader, a user, and providers and tools that return every turn ends |
| `stdio` | one call, one notification, one Close, a server with requests of its own | refinement of `RpcService`; with deadlines every call returns |
| `sse` | handshake, two calls, one Close, the context and the timeout end | no waiting call forgotten; refinement of `RpcService` |
| `acp` | two prompts that overlap, one cancel, stop at any moment | one prompt in flight; "completed" means the turn is over and has replied or was cancelled; prompts are answered |
| `llm` | a primary that sends text, or text, a call and the end in one event; a fallback that sends the latter; two attempts; cancellation at any moment | text comes from one client only; "done" means that all the text and all the calls were given, in order; refinement of `StreamService`; nothing runs on behind a stream that was given up; a stream that is read ends |
| `tui` | two messages, a batch of two calls and then one of one, a plan, any two of: a key, a cancel, a slash command, a steer, an event of the turn (text, a tool's status line or its output) | a late result attaches nothing to a newer turn; only what the user chose for the call shown is sent; no message starts two turns; the events of a turn keep being read, until one comes whose handler does not read on |
| `gate` | two servers with a common tool name, two calls, a change of a server, of the mode and a listing by the user, subagents two deep | no tool hides behind another; a call approved as read-only reaches a read-only tool; nothing is approved unasked under a mode that does not allow it; "always" holds |
| `shell` | two commands without hooks or one with three, descendants that hold the pipe or leave the group | every command ends; a result that was not cancelled is shown |
| `app` | two turns, one file whose `Stat` may fail, one server, another process, every database | whoever has opened the database has the schema; it can be opened again; a file is whole or as it was, with its mode unless its `Stat` failed; nothing is closed under a turn that was counted before the timeout; a prompt that succeeds was answered; the program exits |
| `conversation` | two sessions, six messages besides the four of an imported file, two turns, two operations or crashes | no accepted message is lost but in the three cases the code has; a result keeps its call; opening a session stores a result of every call, up to the order of messages of one time; a summary goes where it belongs |

**Deadlock** is not checked: every one of these systems may stop for good (all
calls made, all turns over, the server dead). That nobody waits for ever is what
the liveness properties say.

**Bounds, and why they are enough.**

- *Two turns, two calls, two prompts.* The races here are between one process
  that ends and one that starts: two of them show every order of their steps.
  Where more would be needed - a rejected prompt that frees the slot of the
  running one, a third caller of the transport - a theorem covers any number.
  Two calls in a round are what partial answers and the order of results need.
- *`stdio`* has one call next to the notification and the Close, because its
  liveness properties make larger instances too slow; that an answer goes to the
  call it is for is shown for any number of calls by `Refinement`.
- *`llm`.* Each server sends one event before the end of its body, which is
  chosen freely: an end without text, an end that comes twice and an end with
  text and a call in it are all among them. `ChunkCap` 1 stands for 64, and two
  attempts for the code's default, so that one retry is made and the bound is
  reached.
- *`runs`.* Two planned turns are what an answer left over from the first one
  needs, a store that may fail at any call what stored calls without results
  need. `MaxHistory` 4 stands for the configured limit or 1000: a turn in plan
  mode stores six messages, so requests are cut within the first turn already.
  In `rounds` and `ends` nothing is cut.
- *Rounds.* `MaxToolRounds` is the code's own limit, so the last round runs into
  it. Answers that cross from one round to the next are covered by the proof of
  `OnlyApproved`.
- *Channels.* `EventCap` 1 stands for the 16 of the code, `Cap` 1 for the 64 of
  the shell overlay: a full channel is what matters, and it is reached sooner.
  `OutCap` bounds what the server has written and nobody has read; with two
  calls both frames can still be under way, one of them in `held`.
- *`tui`.* Two messages show a send during a turn, its queueing and its automatic
  sending; the three sends of `MaxTurns` leave room for a wrong third one. Two
  keys answer the first batch or come twice for one call. `MaxWork` bounds how
  many commands are under way when the user acts, `MaxExtra` how many of the
  optional events happen in one behaviour. Status lines and output of tools
  are among the two events (`MaxChat`), sent while the model is heard or while
  the tools run.
- *`conversation`.* `Limit` 4 stands for the 1000 rows `GetMessages` returns
  without a limit, so that reads are cut off; `Keep` 1 for the messages a
  compaction keeps.
  Two operations are not enough for a conversation to be imported, forked,
  recovered and then compacted, where copies with equal times go apart: the
  theorem covers it, and TLC with `CallNos` {1}, `Limit` 3, `MaxId` 9,
  `MaxTurns` 1 and `MaxOps` 4.
- *`Connect`* of the stdio transport is called once and not while Close runs, as
  `MultiClient` and `app.New` do.

## 4. Fairness

`FairSpec` of a module lets the goroutines of the program run: weak fairness
for every step that stays possible. Strong fairness stands where a goroutine
competes: for `writeMu`, which Go hands over to the one that waits longest, and
for a `select` with several ready cases, which Go decides at random
(`WaitCancelled`). Nothing is assumed of servers, providers, tools, users or
readers; what a property needs of them it says itself. In `TurnManager` the
points where a turn waits for the provider or for a tool (`ProviderPcs`,
`ToolPcs`) have no fairness in `GoroutineFairness`: `CancelEndsRun` has
`WorkersYield` as its hypothesis (once the turn is cancelled, the stream and the
tool end) and `TurnEnds` has `WorkersReturn` (they end) and `AttentiveUser`
(events are read, questions are answered). `StreamEnds` assumes that the
chunks are read (`AttentiveCaller`), `CallsReturn` that every call has a
deadline, which `MultiClient` gives it, and `PromptsAnswered` that the provider's
stream of that prompt ends. `StdioTransport` also relies on the operating
system: a write to a closed pipe fails, a killed process dies and is reaped, an
armed timer fires. `ChatStream` relies on its timers in the same way: the idle
timer fires if the goroutine goes on waiting. Its request has no such fairness,
because the code gives it none: `ChatStream` sets no deadline (`withTimeout` is
used by `Chat` only), the timer of `FallbackClient` starts after the response,
and a server that sends no headers keeps the call waiting until it is cancelled.
`StreamEnds` therefore speaks of a stream once returned. `ShellOverlay` has one
weak fairness for all that the program does: each of its steps uses up something
that only other kinds of steps replace, so that fairness for all of them is
fairness for each; commands need not end and the user need not do anything.
`AppLifecycle` lets the main goroutine go on, the timer of `Close` fire, and a
turn go on that was told to stop or is ending (`MustGoOn`); the user need not
quit, nor a tool return, nor the provider go on. `TuiLoop`, `ToolGate`,
`SSETransport` and `Conversation` are checked for safety only and state none.

## 5. What is proved

TLAPS checks the proofs for every value of the constants that satisfies the
assumptions of the module: any number of turns, calls, rounds, callers, any
capacity. What a module assumes is what its `ASSUME` says - sets are disjoint,
bounds are natural numbers - and TLC evaluates it in the runs.

*Turn engine.* `TypeCorrect` first, one lemma per helper and per group of
actions. For the rest every action is summarised by what it does to the lock
(`LockStep`), to the approval window (`WindowStep`), to the approval exchange
(`ConsentStep`) and to the progress of its run (`ProgressStep`), and four
invariants are proved from the summaries, each with the help of those before it:

- `Mutex`: the flag is set exactly while some run is between the
  compare-and-swap and the reset, and there is one such run. `OneRunAtATime`
  alone is not inductive: the flag is what keeps the second run out. It gives
  `OneRun`; with a lemma on where the cancel function is set and withdrawn,
  `CancelTargets`.
- `Window`: `tm.turn` is the turn of the run that has begun one, and the pending
  calls are those of a run that is asking. It needs `Mutex` (nobody else sets
  `tm.turn` meanwhile) and gives `ApprovalsInWindow`.
- `Consent`: every yes in the channel was said to the request the payload names,
  and every yes a run is acting on was said to the request that is current. It
  needs `Mutex` too: nobody draws a new request id while a run decides. It gives
  `OnlyApproved`, however late or often an answer comes.
- `ProgressInvariant`: at each point of a round the calls before the index have
  a result or wait for the user, exactly the waiting ones have none
  (`RoundOK`), and the outcome a run has sent is the one its place in the
  function allows (`OutcomeOK`). It gives `AnsweredOnce`, that no round is left
  with a call unanswered or answered twice, and `Reported`, that a run that was
  not cancelled is over only after its reader was told how it ended.

`Refinement` then shows that every step is one of `TurnService` or a stutter.

*Stdio transport.* `Inv` adds to `SendsNeverBlock` and `NoneStranded` that a
call that has not begun has left no trace (`Fresh`), that one that has begun is
in the table, has its reply or is about to get it (`Served`), and how the end of
the read loop shows in `readErr`; it gives `NeverBlock` and `AllHear`. `Origin`
follows an answer from the server to the caller: an answer in the stream, in the
hands of the read loop or in a channel is one the server sent with that call's
id. With both, `Refinement` shows that the transport implements `RpcService`,
whatever the server sends: a request of its own that carries the id of a call
counts as what it sent to that call (section 8).

*SSE transport.* `Inv` adds to `ChannelsOwned` that what the read loop holds has
left the table (`HeldIsOut`): that is why neither a sweep nor an answer can meet
it at a channel. `Fresh` is as above, `ReaderStarted` says that calls are made
once the read loop runs and that it ends with a read error or a Close, and
`Served` that a registered call will hear, which gives `NoneStranded`. `Origin`
and `Refinement` follow the stdio transport.

*ACP server.* `OnePromptInFlight` is inductive once `TypeOK` is known; `TypeOK`
needs `Targeted`, that a prompt past `currentSession` has a session. For
`CompletedMeansOver` the invariant `Ended` adds that the turn of a prompt that
still reads has a reply, was cancelled, or has its last event in the channel,
once it is settled; and that a prompt which has reported success has only its
deferred calls left.

*LLM client.* `FailoverInv` says where the call can be: until the relay starts
no text of the primary has been taken (`NoTextYet`), the fallback is asked by
the call and never by the relay (`FallbackUnasked`), and the primary is past its
request when its stream is read (`PrimaryAsked`), so that an error there is not
a client error. It gives `AtMostOnce` and `ClientErrorReturned`. `AnswerInv`
follows the answer of each client through its three goroutines: what was sent is
what is in `body`, then with the reader, then in `readCh` (`ReadInv`), the
fragments taken so far are those of the calls being assembled (`SumInv`), the
last chunk comes only after everything else (`OrderInv`), and what the relay has
passed on is a prefix of what it took (`RelayInv`). None of the four is inductive
alone. `AnswerComplete` is `DoneIsComplete` for any number of events, chunks and
attempts, and `Refinement` shows that `FallbackStream` implements
`StreamService`.

*Terminal interface.* `BecomesFacts` and `AlsoFacts` say what a step does to the
bag `work`; most steps then are `Plainly`, they move neither a drafted message
nor a decision. `MessageInv` says that a message which has started no turn is in
one place at most - one copy of one element of the bag, or once in the queue -
and one that has is in none, which gives `AtMostOneTurn`. `ApprovalInv` says that
the calls before the controller's index are decided by keys pressed for them,
and that every response on its way was pressed for a call of some request; as
no call is in two batches, a response that names the call now shown was pressed
for the request now shown (`SameRequest`), and `UserChose` follows however late
keys arrive. `ScreenInv` gives `LastSendOnly`, and with `EngineInv` `TypeCorrect`.

`AlwaysRead` counts, until an event comes whose handler does not read on and
brings none back (a tool's status line or output, a steer, a plan, an error).
The handler of a diff preview does not read on either, so every
preview takes a reader of the stream away; that readers never run out is not
inductive without the previews that are still to come. `AttendInv` says that
while the stream is shown there is a reader more than the previews that wait in
its channel and the answers that may still bring one - those on their way to the
batch the engine asks about, and the one in its box (`Served`). It rests on
what makes an answer bring one preview at most (`Modest`), on the requests named
anywhere being ones the engine has made (`NamesInv`, `NotesInv`), and on a turn
the interface has not yet been told of having no reader, no preview and no answer
(`UnseenInv`), since its start is in one element of the bag (`StartInv`). The
bag's elements are counted one copy at a time (`Tokens`, `Tally`); each step is
then an account of what goes and what comes (`Balanced`).

*Application.* `StoreInv`: each opener that is past a migration finds it
applied, and the version never runs ahead of the schema unless two first starts
race (`Racing`, section 8); it gives `Complete` and `Reopens`. `FileInv`: a
temporary file is whole from the moment it may be renamed and has the mode its
call found, which is the file's, or 0600 where `Stat` failed or such a call has
replaced the file; and it exists only between its creation and the end of its
call. It gives `AllOrNothing`. `LifeInv` relates where `main` is to what is open
and to the turns: a turn that is alive when the parts are closed was given up by
the timer, or was not counted when there was nothing left to wait for, and then
it is one of the terminal interface, because a single prompt reads nothing before
its turn is counted (`TurnInv`). It gives `ClosedLast`. `PromptInv` follows
the events of the single prompt and gives `Answered`.

*Gate and tool lookup.* The loops are defined by what they find, and facts about
them follow from the least place where something else would be found
(`LeastExists`, from well-foundedness of the natural numbers): an answer gets
one list of final names (`FinalNamesOne`), and servers that do not change one
listing (`ListingOne`). `RoutesInv` says of the listings in progress and of the
published one that names are distinct and every tool on offer has a route, which
gives `NoneHidden`. `FreshInv` says that while no server has changed since the
decision every listing, the turn's or the user's, is the one listing of these
servers up to the place it has reached; the hint found before the approval is
then the hint of the tool found after it (`ReadOnlyReached`), also when the
listing for the hint failed and the old definitions answered. `Looked`, the lock
a decision holds, gives `ModeObeyed`; `RulesInv`, that a tool approved for the
session has its rule and no other of the session for it, gives `AlwaysObeyed`.
That an answer has final names at all - that prefixing ends within `Times` - is
an induction over its tools and is left to TLC.

*Conversation.* The model orders messages, calls and groups by one operator,
`Sorted`; that it lists each element once and in order is proved by counting
what is below (`SortedOrders`), and every listing of the store, of the results of
a message and of the groups of a recovery rests on it. Over it,
`RecoveredHolds` shows that a recovery leaves out none of the messages it read,
and `RecoveredNear` that in what it makes of them every call has a result which,
by time and id, comes with nothing but results and messages of the call's own
time between them, whatever ids the results made up are given; `CompactedShape` and
`CompactedGood` that what a compaction writes keeps its order when it is read
back by time and id, because every message kept is moved behind the summary and
behind the one before it.

The invariant `IInv` says of the store that ids and calls are used once and are
among those given out (`StoreOK`) and that a session that is not made holds
nothing (`MadeOK`); of the operation in hand, that what it has read is such a
set too, in the order of the store for a compaction and a fork, with a result
near every call for an open (`OpOK`, `AllNear`), and that every accepted message of its session has been read,
came after the reading or lies beyond the limit (`ReadOK`); and of the turn,
where it is and what it still has to answer (`TurnOK`). `NothingLost` is not
inductive without `ReadOK`: a replacement keeps only what was read. It gives
`NothingIsLost`, `RecoveryIsStored` and `SummaryStays`, for any number of
sessions, turns and operations, any limit and any number of messages kept.

`PairsKept` is not inductive because a compaction looks at neighbours in one
order - the boundary it cuts at is a message that is no result and has no calls -
while the store orders by time and random id. `PairsOK` is about that order: but
for the calls in `loose`, each result has the message with its call, and nothing
that is neither a result nor has calls lies between the two by time and id
(`StorePairs`); a result that a turn has still to store would have the same, as
the message with its call is there and nothing of that kind has come after it
(`RunPairs`); and both hold of what an operation has read and will write
(`OpPairs`). No boundary then lies between a message with a call and its result,
so that both are summarised or both are kept (`CompactedPairs`), the limit of a
read cuts off no message of an earlier result unless it is in `loose`
(`ReadPairs`), and a recovery, a fork and an import write what again has this
shape.
`PairsStayTogether` holds for any number of sessions, turns and operations. The
last exception came from the proof: equal times refute what only smaller
instances had shown, that a recovery and a fork always keep the two together.

Only model-checked: all liveness, since fairness and `ENABLED` are beyond the
prover, and with it everything of `ShellOverlay`; `PlanGate` and
`RequestsAreClosed`, of two turns and a store that may fail. What a
recursive definition computes for every input needs induction over data, which
the prover cannot do; the models therefore define what they prove about without
recursion.

## 6. Not modelled, and why

- *Turn engine:* hooks, switching the workspace, mentions and image inlining
  (input preparation before the turn starts or calls whose result is only text),
  and in `TurnManager` the status and progress events of a running tool, which
  `TuiLoop` has.
- *HTTP transport of MCP:* one request, one response, no shared state.
- *Stdio and SSE:* how frames are split and parsed; a frame is well formed or
  garbage. Grandchildren of the server that keep its pipes open.
- *ACP:* `initialize`, framing, and the errors of malformed requests other than
  an invalid prompt.
- *LLM client:* `Chat`, which is one request without a stream; how long a back-off
  lasts (`Retry` comes at any time after it); building the request; how lines of
  the body become events.
- *Gate:* globs and the analysis of a shell command that gives it its risk; a
  rule is a set of calls and the risk of a call a constant.
- *Tools:* those that read, search or fetch and keep nothing; the text of diffs.
- *Conversation:* the turns of an import, messages appended by a steer or a plan,
  two operations at once (but for /clear), the contents of a request.
- *Interface:* the other overlays, widgets, layout; what a slash command does
  beyond the state it sets and the session it may open.
- *Configuration, git, command line, support packages:* parsing and input/output
  without behaviour over time, but for the creation of the first configuration.

## 7. Plan

An abstract specification of the conversation (an append-only log with
summaries) that `Conversation` implements, composed with `TurnManager`.

## 8. Where the code does otherwise than it says

Each of these properties is defined in its module, with the comment it comes
from, and TLC finds it violated in the constants of the run named, with the
changes given. They are no part of the runs, whose properties all hold.

| Property | Run, changes | What happens |
|---|---|---|
| `InFlightTurnCancellable` | `runs` | a start that fails resets `running` (turn.go:303) before it sets `activeCancel` to nil (305-307); a turn that starts in between loses its cancel function, and `CancelAll`, which "cancels the currently in-flight turn, if any", does not reach it |
| `StaleAnswerIgnored` | `ends` | "Ignore stale approval payloads" (turn.go:583): a stale payload is not ignored, it denies every call of the current request |
| `SteerReachesItsTurn` | `runs`, `MaxSteers` 1 | `Steer` checks under the lock and sends after it; the input can reach the next turn although that one has drained the channel (turn.go:344) |
| `AcceptedSteerApplied` | `rounds` | an input accepted after the last chunk of the stream is never read |
| `PlanBeforeAnswer` | `runs` | "first produces a plan, then waits for approval" (turn.go:287): an answer names the session only and is taken as soon as a turn has set its plan flag (turn.go:349-354), or while that of an earlier turn stands; it approves a plan nobody has seen |
| `EveryRequestClosed` | `runs` | "every assistant message with ToolCalls must have corresponding tool results" (docs/adr/2026-06-15-kimi-code-0.15.0-parity.md:113): a turn cancelled, or failed by the store, between the message with its calls and their results leaves a conversation that the next turn sends as it is; and `MaxHistory` cuts a request off after the message with the calls |
| `AnswersMatch` | `stdio` | a request of the server that carries the id of a call is returned as the answer to it |
| `NoWriterAfterClose` | `stdio` | a `Send` that has passed the closed check starts its writer after Close has waited for the writers |
| `StaysConnected` | `sse`, also with one of `ContextEnds` and `ClientTimeout` FALSE | the GET of the stream is made with Connect's context (transport_sse.go:80), which `app.New` cancels when Connect has returned (app.go:237); and the timeout of the HTTP client (netutil.go:160) covers the body |
| `InFlightHasCancel` | `acp` | the deferred `setCancel(nil)` of a prompt removes the cancel function of the next one |
| `CancelIsTrue` | `acp` | a prompt about to be rejected has replaced the cancel function: `session/cancel` answers true and cancels nothing in flight |
| `BusyMeansUnanswered` | `acp`, also with `Polite` TRUE | the response is written before the slot is free, so a client that waits for it can be refused its next prompt |
| `PrimaryAnswerKept` | `llm` | an answer of the primary with tool calls and no text passes the peek like an empty chunk (fallback.go:121); the answer is lost and the fallback is asked, although the primary did not fail |
| `ModeKept` | `app` | "existing files preserve their original mode" (tools.go:1220): whenever `Stat` fails, for any reason, the mode is 0600 and the rename over the existing file goes on (tools.go:1277-1279) |
| `AllTurnsWaited` | `app` | "Wait for in-flight turns with timeout" (app.go:645): a turn is counted at the end of its start (turn.go:409); one that is still asking the store, the servers or the provider is not waited for, and they are closed under it |
| `VersionRises` | `app` | two processes that open a new database at once: the second reads version 0, and its migrations set `user_version` back behind those the first has applied ("applies any migration whose version is greater", sqlite.go:67-70); then the next start fails on a column that exists |
| `AlwaysAttended` | `tui` | "shell output is streamed as TurnEventToolProgress events" (turn.go:1000-1001): the handlers of a tool's status line and output (model.go:596-598, 646-647) do not read on; with the reader gone the rest of the stream waits until a key of a dialog brings one |
| `NewTurnKept` | `tui` | "Guard against stale events after cancellation or a new stream starting" (model_send.go:159): a reader that has passed the guard may deliver the end of the old stream, which cancels the new one |
| `RejectedStays` | `tui` | "true only when the user chose always for the first call" (approval_controller.go:66-68): chosen at a later call, it approves also the calls the user has rejected |
| `RecoveryValid` | `conversation` | recovery keeps a history that "remains valid for the LLM" (session.go:336-340): a result made up has the time of the message with its call (session.go:388) and a random id, so a turn may read it back before its call; the next recovery misses it where it looks and makes up another |
| `PairsUnsplit` | `conversation` | "compaction never splits such a pair" (compressor.go:140): `/goal` during a round of calls (model.go:697-722) stores a system message between a call and its result; a compaction that cuts before that message keeps the result without its call |

What a property has to allow for is stated in it. `OpensAgain` leaves out two
first starts at once, and `OpenedComplete` the column `seq` in the table of
turns of an older program, which a migration recreates without it
(sqlite.go:215-251). `ConstantsAssumption` of `TuiLoop` has each call in one
batch only: were a provider to repeat a call id, a key that comes late would
decide the later call of the same id. `NothingLost` names three ways in which a
stored message goes: it was stored while an operation had its session's messages
in hand (`raced`), it is beyond the limit of that read (`beyond`), or it is older
than the summary's token budget reaches (`selectWithinBudget`, `dropped`).
`PairsKept` leaves out the calls in `loose` (section 2).
`AlwaysHeld` leaves out a glob of the session and a rule for the turn, which come
before the user's "always".

Other differences met while modelling, which the models have and no property
states:

- *Turn.* Once a session has as many messages as `MaxHistory`, the request for
  the next answer no longer has the new input, as `Request` is cut off at its
  end (sqlite.go:629). "GetMessages returns all messages" (sqlite.go:620) up
  to 1000.
- *Application.* `New` keeps the MCP client and the sandbox root in locals until
  its end (app.go:326-336), so that a later failure leaks what the comment at
  app.go:82-83 says is cleaned up. A single prompt waits for a hung tool also
  after a signal. A call of a file tool that outlives the 10 seconds of `Close`
  leaves its temporary file. Between the read and the rename of an edit another
  edit is lost.
- *Shell.* A command that the overlay has cancelled may stay "running" there,
  because its result is dropped on a full channel; a command that starts under a
  context that is over has no output to read, and the caller dereferences it
  (tools.go:1903-1915). Descendants that left the group survive the comment at
  tools.go:1900-1902.
- *Gate.* A name approved as read-only may by the time of the call lead to
  another server (`ReadOnlyHeld` says when it cannot). "must never be
  auto-approved, regardless of configuration" (approval.go:107-108) does not hold
  in yolo mode. A subagent's loop executes any built-in tool the model names and
  asks no gate.
- *Interface.* A queued message sent at the end of a turn is lost when the engine
  still refuses it; one typed while an approval waits is dropped. A slash command
  sets the interface idle during a turn, and the next message then replaces the
  cancel function of the turn that goes on. Two readers of one stream after an
  approval may deliver its events out of order.

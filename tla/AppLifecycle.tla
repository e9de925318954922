----------------------------- MODULE AppLifecycle -----------------------------
(***************************************************************************)
(* The life of the program: the configuration, New, the session, the       *)
(* terminal interface, a single prompt or an export or import              *)
(* (cmd/kimi-lite/main.go), and Close                                      *)
(* (src/internal/app/app.go), with the opening of the database             *)
(* (StoreOpening), the turns that run while that happens and the files     *)
(* their tools write (FileTools).                                          *)
(*                                                                         *)
(* Of a turn this module keeps what the shutdown can tell apart: it is     *)
(* being started and not counted yet, it streams, runs a tool, waits for   *)
(* an approval, or is over; TurnManager has the turn itself.               *)
(***************************************************************************)
EXTENDS FileTools, StoreOpening, Sequences

CONSTANTS
    Turns,    \* bound: the turns of a life; a turn makes one file call
    Servers,  \* the enabled MCP servers
    Others    \* the other processes that open the database

ASSUME AppAssumption ==
    /\ Turns = Ops /\ 1 \in Turns
    /\ "self" \notin Others /\ Procs = Others \cup {"self"}

VARIABLES
    way,       \* the command line: the terminal interface, one prompt, or
               \* the export or import of a session
    main,      \* where the main goroutine is
    result,    \* what the command returns: "none", "ok" or "error"
    store,     \* "none", "open" or "closed"
    server,    \* each MCP client: "none", "up" or "closed"
    built,     \* New has handed the parts over to the App
    signalled, \* the context of the command is over
    timedOut,  \* Close has stopped waiting for the turns
    turn,      \* where each turn is
    how,       \* how it ends: "done" or "error"
    stopped,   \* its context is over
    late,      \* history: it was not counted yet when Close had waited
    events     \* what a single prompt reads of its turn

appVars == <<way, main, result, store, server, built, signalled, timedOut>>
turnVars == <<turn, how, stopped, late, events>>
restVars == <<fileVars, storeVars>>
vars == <<appVars, turnVars, root, restVars>>

Ways == {"tui", "prompt", "file"}
NewSteps == {"store", "client", "tools", "mcp", "rest"}
CloseSteps == {"cancel", "wait", "closemcp", "closeroot", "closestore"}
Runs == {"stream", "tool", "hang", "ask", "ending"}
Starts == {"starting", "opening"}

(* RunTurn has been called and the turn is not over; it is counted         *)
(* (tm.wg) only from the end of startTurn on.                              *)
Alive(t) == turn[t] \in Starts \cup Runs
Counted(t) == turn[t] \in Runs

TypeOK ==
    /\ FileTypeOK /\ StoreTypeOK
    /\ way \in Ways
    /\ main \in NewSteps \cup CloseSteps \cup Ways
                 \cup {"config", "session", "exit"}
    /\ result \in {"none", "ok", "error"}
    /\ store \in {"none", "open", "closed"}
    /\ server \in [Servers -> {"none", "up", "closed"}]
    /\ built \in BOOLEAN /\ signalled \in BOOLEAN /\ timedOut \in BOOLEAN
    /\ turn \in [Turns -> Starts \cup Runs \cup {"none", "refused", "over"}]
    /\ how \in [Turns -> {"none", "done", "error"}]
    /\ stopped \in [Turns -> BOOLEAN] /\ late \in [Turns -> BOOLEAN]
    /\ events \in Seq({"ask", "error", "done"})

Init ==
    /\ FileInit /\ StoreInit
    /\ way \in Ways
    /\ main = "config" /\ result = "none" /\ store = "none"
    /\ server = [s \in Servers |-> "none"]
    /\ built = FALSE /\ signalled = FALSE /\ timedOut = FALSE
    /\ turn = [t \in Turns |-> "none"] /\ how = [t \in Turns |-> "none"]
    /\ stopped = [t \in Turns |-> FALSE] /\ late = [t \in Turns |-> FALSE]
    /\ events = <<>>

GoesTo(step) ==
    /\ main' = step
    /\ UNCHANGED <<way, built, signalled, timedOut, turnVars, restVars>>

-----------------------------------------------------------------------------
(* The configuration.  Nothing is open yet that an error would close.      *)

(* A file that is there is read and checked.                               *)
Loads(file) == file # "broken"

(* A broken file ends the program if the command names it; otherwise the   *)
(* defaults take its place.                                                *)
MayGoOn(file, named) == Loads(file) \/ ~named

LoadConfig ==
    /\ main = "config" /\ UNCHANGED <<store, server, root>>
    /\ \E file \in {"none", "good", "broken"}, named \in BOOLEAN :
          IF MayGoOn(file, named)
          THEN GoesTo("store") /\ UNCHANGED result
          ELSE GoesTo("exit") /\ result' = "error"

(* An export or import does not need the key of a provider.                *)
NoKey ==
    /\ main = "config" /\ way # "file"
    /\ GoesTo("exit") /\ result' = "error"
    /\ UNCHANGED <<store, server, root>>

-----------------------------------------------------------------------------
(* New.  Only the store is known to the App before the last step: what     *)
(* fails earlier closes the store and nothing else.  It begins with the    *)
(* steps of NewSQLite.                                                     *)

OnlyStore == UNCHANGED <<appVars, turnVars, root, fileVars>>

OpenOwn == main = "store" /\ OpenStep("self") /\ OnlyStore

(* Bound: what other processes do is of interest, and a start is killed,   *)
(* only while this one opens the database.                                 *)
OthersOpen ==
    /\ main = "store" /\ OnlyStore
    /\ \E p \in Others : OpenStep(p)

Killed == main = "store" /\ (\E p \in Procs : Kill(p)) /\ OnlyStore

(* Bound: turns are looked at in a life that began with a current database *)
(* and was not disturbed while opening it.                                 *)
Undisturbed ==
    found = DbOf(Last) /\ killed = {} /\ \A p \in Others : ~Begun(p)

GiveUp ==
    /\ GoesTo("cancel")
    /\ result' = "error"
    /\ UNCHANGED <<store, server, root>>

NewFails ==
    /\ main \in NewSteps \ {"mcp"} /\ GiveUp
    /\ main = "store" => OpenerAt("self", "failed")

OpenStore ==
    /\ main = "store" /\ OpenerAt("self", "open")
    /\ GoesTo("client")
    /\ store' = "open"
    /\ UNCHANGED <<result, server, root>>

(* The LLM client, the directories, the searcher and the skills.           *)
MakeClient ==
    /\ main = "client" /\ GoesTo("tools")
    /\ UNCHANGED <<result, store, server, root>>

OpenRoot ==
    /\ main = "tools" /\ GoesTo("mcp")
    /\ root' = "open"
    /\ UNCHANGED <<result, store, server>>

(* What becomes of the handshake with a server: it does not answer in its  *)
(* startup timeout or with an error, names no version or one newer than    *)
(* ours, does not take the notification, or is connected.                  *)
Handshakes == {"error", "unversioned", "newer", "not notified", "connected"}

(* A server that does not connect is closed again and left out.            *)
ConnectServers ==
    /\ main = "mcp" /\ GoesTo("rest")
    /\ \E with \in [Servers -> Handshakes] :
          server' = [s \in Servers |->
                       IF with[s] = "connected" THEN "up" ELSE "none"]
    /\ UNCHANGED <<result, store, root>>

(* The turn manager and the compressor; then the App takes over.           *)
HandOver ==
    /\ main = "rest"
    /\ main' = IF way = "file" THEN "file" ELSE "session"
    /\ built' = TRUE
    /\ UNCHANGED <<way, signalled, timedOut, turnVars, restVars, result,
                   store, server, root>>

New ==
    \/ OpenOwn \/ NewFails \/ OpenStore \/ MakeClient \/ OpenRoot
    \/ ConnectServers \/ HandOver

-----------------------------------------------------------------------------
(* run and runPrompt of the command.                                       *)

OpenSession ==
    /\ main = "session" /\ ~signalled
    /\ GoesTo(way)
    /\ UNCHANGED <<result, store, server, root>>

SessionFails == main = "session" /\ GiveUp

Leave(outcome) ==
    /\ main' = "cancel" /\ result' = outcome
    /\ UNCHANGED <<way, store, server, built, signalled, timedOut, turn, how,
                   stopped, late, root, restVars>>

(* runPrompt reads the events of its turn up to one it cannot go on from;  *)
(* also a failing write to the output ends it.                             *)
GoesOnAfter == {"done"}

PromptRead ==
    /\ main = "prompt" /\ events # <<>>
    /\ events' = Tail(events)
    /\ \/ Leave("error")
       \/ /\ Head(events) \in GoesOnAfter
          /\ UNCHANGED <<appVars, turn, how, stopped, late, root, restVars>>

PromptEnds ==
    /\ main = "prompt" /\ turn[1] = "over" /\ events = <<>>
    /\ Leave("ok") /\ UNCHANGED events

(* RunTurn refuses the prompt.                                             *)
PromptRefused ==
    /\ main = "prompt" /\ turn[1] \in {"none", "refused"}
    /\ Leave("error") /\ UNCHANGED events

(* runExport and runImport: one call of the store's sessions and a file.   *)
FileCommand ==
    /\ main = "file"
    /\ Leave("ok") \/ Leave("error")
    /\ UNCHANGED events

(* App.Run: the interface cannot be made.                                  *)
TuiFails ==
    /\ main = "tui" /\ \A t \in Turns : turn[t] = "none"
    /\ Leave("error") /\ UNCHANGED events

(* A loop that breaks off with an error is no different here.              *)
UserQuits == main = "tui" /\ Leave("ok") /\ UNCHANGED events

TuiEnds == main = "tui" /\ signalled /\ Leave("ok") /\ UNCHANGED events

(* The signal's context is the parent of every context of a turn.          *)
Signal ==
    /\ ~signalled
    /\ signalled' = TRUE
    /\ stopped' = [t \in Turns |-> stopped[t] \/ Alive(t)]
    /\ UNCHANGED <<way, main, result, store, server, built, timedOut, turn,
                   how, late, events, root, restVars>>

-----------------------------------------------------------------------------
(* The turns.                                                              *)

Becomes(t, where) ==
    /\ turn' = [turn EXCEPT ![t] = where]
    /\ UNCHANGED <<appVars, stopped, late, root>>

Ends(t, outcome) ==
    /\ Becomes(t, "ending")
    /\ how' = [how EXCEPT ![t] = outcome]
    /\ UNCHANGED <<events, restVars>>

(* RunTurn is called: the turn has a context.  For a single prompt it      *)
(* returns when the turn has been started; in the terminal interface a     *)
(* command of the update loop makes the call, in a goroutine that leaving  *)
(* the loop does not wait for.                                             *)
MayStart(t) ==
    \/ main = "prompt" /\ t = 1
    \/ main = "tui"
    \/ way = "tui" /\ main \in CloseSteps /\ result = "ok"

StartTurn(t) ==
    /\ turn[t] = "none" /\ MayStart(t) /\ Undisturbed
    /\ turn' = [turn EXCEPT ![t] = "starting"]
    /\ stopped' = [stopped EXCEPT ![t] = signalled]
    /\ UNCHANGED <<appVars, how, late, events, root, restVars>>

(* startTurn: the store records the turn,                                  *)
RecordTurn(t) ==
    /\ turn[t] = "starting" /\ store = "open" /\ "seq" \in db.has
    /\ Becomes(t, "opening") /\ UNCHANGED <<how, events, restVars>>

(* the servers are asked for their tools and the provider for a stream;    *)
(* only then the turn is counted.                                          *)
CountTurn(t) ==
    /\ turn[t] = "opening"
    /\ Becomes(t, "stream") /\ UNCHANGED <<how, events, restVars>>

(* Any of that may fail.                                                   *)
StartFails(t) ==
    /\ turn[t] \in Starts
    /\ Becomes(t, "refused") /\ UNCHANGED <<how, events, restVars>>

(* The model's answer calls a tool: a file call, another one that may not  *)
(* return, or one that needs the user.                                     *)
CallTool(t) ==
    /\ turn[t] = "stream"
    /\ \/ Becomes(t, "tool") /\ op[t] = Idle /\ UNCHANGED events
       \/ Becomes(t, "hang") /\ UNCHANGED events
       \/ /\ Becomes(t, "ask")
          /\ events' = IF way = "prompt" THEN Append(events, "ask") ELSE events
    /\ UNCHANGED <<how, restVars>>

(* The file call looks at its context before it does anything.             *)
ToolBegins(t) ==
    /\ turn[t] = "tool" /\ Begin(t)
    /\ stopped[t] => op'[t].at = "failed"
    /\ UNCHANGED <<appVars, turnVars, root, storeVars>>

ToolStep(t) ==
    /\ turn[t] = "tool" /\ FileStep(t)
    /\ UNCHANGED <<appVars, turnVars, root, storeVars>>

ToolReturns(t) ==
    /\ turn[t] = "tool" /\ Finished(t)
    /\ Becomes(t, "stream") /\ UNCHANGED <<how, events, restVars>>

HangReturns(t) ==
    /\ turn[t] = "hang"
    /\ Becomes(t, "stream") /\ UNCHANGED <<how, events, restVars>>

(* The user's answer: the call is made, or the turn goes on without it.    *)
Answer(t) ==
    /\ turn[t] = "ask" /\ main = "tui"
    /\ \/ Becomes(t, "tool") /\ op[t] = Idle
       \/ Becomes(t, "stream")
    /\ UNCHANGED <<how, events, restVars>>

Completes(t) == turn[t] = "stream" /\ Ends(t, "done")

Breaks(t) ==
    \/ turn[t] = "stream" /\ Ends(t, "error")
    \/ turn[t] = "ask" /\ stopped[t] /\ Ends(t, "error")

(* The last event of a turn may be dropped when its context is over.       *)
\* Mutant: the last event is sent only if somebody is ready to take it.
MayDropAlways(t) == TRUE

MayDrop(t) == stopped[t]

TurnEnds(t) ==
    /\ turn[t] = "ending"
    /\ Becomes(t, "over")
    /\ \/ events' = IF way = "prompt" THEN Append(events, how[t]) ELSE events
       \/ MayDrop(t) /\ UNCHANGED events
    /\ UNCHANGED <<how, restVars>>

-----------------------------------------------------------------------------
(* Close.                                                                  *)

CancelTurns ==
    /\ main = "cancel" /\ main' = "wait"
    /\ stopped' = [t \in Turns |-> stopped[t] \/ Alive(t)]
    /\ UNCHANGED <<way, result, store, server, built, signalled, timedOut,
                   turn, how, late, events, root, restVars>>

(* All the turns that are counted are over, or turnShutdownTimeout has     *)
(* passed.                                                                 *)
\* Mutant: the parts are closed at once.
TurnsWaitedNot == TRUE

TurnsWaited == built => \A t \in Turns : ~Counted(t)

WaitTurns ==
    /\ main = "wait" /\ TurnsWaited
    /\ main' = "closemcp"
    /\ late' = [t \in Turns |-> turn[t] \in Starts \cup {"none"}]
    /\ UNCHANGED <<way, result, store, server, built, signalled, timedOut,
                   turn, how, stopped, events, root, restVars>>

\* Mutant: the shutdown waits for the turns without a timer.
TimerFiresNever == FALSE

TimerFires == ~TurnsWaited

WaitTimeout ==
    /\ main = "wait" /\ TimerFires
    /\ main' = "closemcp" /\ timedOut' = TRUE
    /\ UNCHANGED <<way, result, store, server, built, signalled, turnVars,
                   root, restVars>>

CloseServers ==
    /\ main = "closemcp" /\ GoesTo("closeroot")
    /\ server' = [s \in Servers |-> IF built /\ server[s] = "up"
                                    THEN "closed" ELSE server[s]]
    /\ UNCHANGED <<result, store, root>>

CloseRoot ==
    /\ main = "closeroot" /\ GoesTo("closestore")
    /\ root' = IF built THEN "closed" ELSE root
    /\ UNCHANGED <<result, store, server>>

CloseStore ==
    /\ main = "closestore" /\ GoesTo("exit")
    /\ store' = IF store = "open" THEN "closed" ELSE store
    /\ UNCHANGED <<result, server, root>>

Close == CancelTurns \/ WaitTurns \/ WaitTimeout \/ CloseServers
           \/ CloseRoot \/ CloseStore

-----------------------------------------------------------------------------

TurnStep(t) ==
    \/ RecordTurn(t) \/ CountTurn(t) \/ StartFails(t)
    \/ CallTool(t) \/ ToolBegins(t) \/ ToolStep(t) \/ ToolReturns(t)
    \/ Completes(t) \/ Breaks(t) \/ TurnEnds(t)

Main ==
    \/ LoadConfig \/ NoKey \/ New \/ OpenSession \/ SessionFails
    \/ FileCommand \/ PromptRead \/ PromptEnds \/ PromptRefused
    \/ TuiFails \/ TuiEnds
    \/ Close

User ==
    \/ UserQuits \/ Signal \/ OthersOpen \/ Killed
    \/ \E t \in Turns : StartTurn(t) \/ Answer(t) \/ HangReturns(t)

Next == main # "exit" /\ (Main \/ User \/ \E t \in Turns : TurnStep(t))

Spec == Init /\ [][Next]_vars

(* The main goroutine runs; waiting for the turns is bounded by a timer.   *)
(* A turn goes on when its context is over, and where it waits for nobody; *)
(* the user, a tool that hangs and a provider need not do anything.        *)
MustGoOn(t) == stopped[t] \/ turn[t] = "ending"

Fairness ==
    /\ WF_vars(main # "exit" /\ Main)
    /\ \A t \in Turns :
          WF_vars(main # "exit" /\ MustGoOn(t) /\ TurnStep(t))

FairSpec == Spec /\ Fairness

-----------------------------------------------------------------------------

PartsClosed ==
    root = "closed" \/ store = "closed"
        \/ \E s \in Servers : server[s] = "closed"

(* Close closes what the turns use only when they are over; the exceptions *)
(* are turns it stopped waiting for, and turns of the terminal interface   *)
(* that were not counted yet when there was nothing left to wait for: a    *)
(* turn being started is not waited for.                                   *)
ClosedAfterTurns ==
    \A t \in Turns :
        Alive(t) /\ PartsClosed => timedOut \/ (way = "tui" /\ late[t])

(* A prompt that is reported as done was answered; a signal may hide that  *)
(* it was not.                                                             *)
PromptAnswered ==
    way = "prompt" /\ result = "ok" => how[1] = "done" \/ signalled

(* A signal, and a shutdown once begun, lead to the end of the program,    *)
(* whatever the turns do, except that a single prompt waits for a tool     *)
(* that does not return.                                                   *)
ExitReached ==
    (signalled \/ main \in CloseSteps)
        ~> (main = "exit" \/ (main = "prompt" /\ turn[1] = "hang"))

-----------------------------------------------------------------------------
(* What a comment says and the code does not do; see the README.           *)

(* "Wait for in-flight turns with timeout.  If turns are still running,    *)
(* record the timeout" (app.go:645).                                       *)
AllTurnsWaited == \A t \in Turns : Alive(t) /\ PartsClosed => timedOut

=============================================================================

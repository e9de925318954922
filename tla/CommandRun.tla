------------------------------ MODULE CommandRun ------------------------------
(***************************************************************************)
(* One call of the shell tool, as BuiltInToolExecutor.Execute runs it      *)
(* (src/internal/core/tools.go): the tool_call hooks, the command, the     *)
(* tool_result hooks.  A hook and the command are each a process with a    *)
(* process group of its own, which runCommandWithContext starts, watches   *)
(* and waits for; the hooks have a copy of that function which also sets a *)
(* WaitDelay (src/internal/core/hooks/exec.go).                            *)
(*                                                                         *)
(* Each process may start one descendant, whose kind says what happens to  *)
(* it: "piped" holds the output pipe, "quiet" redirected its output,       *)
(* "away" holds the pipe and left the process group.                       *)
(***************************************************************************)
EXTENDS Naturals, Sequences

CONSTANTS
    Commands,     \* the calls, numbered in the order they are typed
    Hooks,        \* the lists of hooks a configuration may have
    Kinds,        \* bound: what a process of each call may start
    MaxChunks     \* bound: pieces of output of each command

ASSUME CommandRunAssumption ==
    /\ Commands \subseteq Nat
    /\ Hooks \subseteq [call : Seq(BOOLEAN), result : Seq(BOOLEAN)]
    /\ Kinds \in [Commands -> SUBSET {"none", "piped", "quiet", "away"}]
    /\ MaxChunks \in [Commands -> Nat]

VARIABLES
    hooks,    \* the hooks of this program: for each tool_call hook, then
              \* for each tool_result hook, its ContinueOnError
    ctx,      \* the call's context: "live" or "over"
    pc,       \* where the call is
    step,     \* the process it runs, an index of Steps
    hookErr,  \* a tool_call hook has failed
    proc,     \* the process group of that step
    ui        \* the program: "up", "quit" (leaving) or "down" (crashed)

callVars == <<hooks, ctx, pc, step, hookErr, proc>>

-----------------------------------------------------------------------------

(* The processes of a call; a hook is named by its ContinueOnError.        *)
Steps == hooks.call \o <<TRUE>> \o hooks.result
Command == Len(hooks.call) + 1
IsHook(c) == step[c] # Command

Working == {"begin", "wait", "deliver"}

NoProcess == [leader |-> "none", child |-> "none", expired |-> FALSE,
              handing |-> FALSE, chunks |-> 0]

Started(kind) == [NoProcess EXCEPT !.leader = "up", !.child = kind]

(* What the context of the running process says: the call's own, or the    *)
(* timeout execShell and execHook put on top of it.                        *)
Over(c) == ctx[c] = "over" \/ proc[c].expired

(* Runner.Run: a failing hook ends the list unless it continues on errors; *)
(* Execute goes on to the tool_result hooks when any tool_call hook        *)
(* failed, without running the command.                                    *)
StepAfter(c, bad) ==
    LET stops == bad /\ ~Steps[step[c]]
        blocked == step[c] + 1 = Command /\ (bad \/ hookErr[c])
    IN  IF step[c] < Command
        THEN IF stops \/ blocked THEN Command + 1 ELSE step[c] + 1
        ELSE IF step[c] > Command /\ stops
             THEN Len(Steps) + 1 ELSE step[c] + 1

EndStep(c, bad) ==
    /\ step' = [step EXCEPT ![c] = StepAfter(c, bad)]
    /\ hookErr' = [hookErr EXCEPT ![c] = @ \/ (bad /\ step[c] < Command)]
    /\ pc' = [pc EXCEPT
                ![c] = IF StepAfter(c, bad) > Len(Steps)
                       THEN "deliver" ELSE "begin"]

-----------------------------------------------------------------------------

(* A hook whose context is over, or that cannot be started, is an error of *)
(* the hook.                                                               *)
HookNotStarted(c) ==
    /\ pc[c] = "begin" /\ IsHook(c)
    /\ EndStep(c, TRUE)
    /\ UNCHANGED <<hooks, ctx, proc, ui>>

(* A command whose context is over, or that cannot be started, has no      *)
(* output: execShell dereferences a nil writer, and nothing in the         *)
(* overlay's goroutine recovers.                                           *)
CommandNotStarted(c) ==
    /\ pc[c] = "begin" /\ ~IsHook(c)
    /\ ui' = "down"
    /\ UNCHANGED callVars

Start(c) ==
    /\ pc[c] = "begin" /\ ctx[c] = "live"
    /\ \E kind \in Kinds[c] : proc' = [proc EXCEPT ![c] = Started(kind)]
    /\ pc' = [pc EXCEPT ![c] = "wait"]
    /\ UNCHANGED <<hooks, ctx, step, hookErr, ui>>

(* How a process that was killed ends; of the command's it does not matter *)
(* to what follows.                                                        *)
Killed(c) == IF IsHook(c) THEN "killed" ELSE "exited"

(* A process, or what it started, ends when it likes.                      *)
Exit(c) ==
    /\ proc[c].leader = "up"
    /\ proc' = [proc EXCEPT ![c].leader = "exited"]
    /\ UNCHANGED <<hooks, ctx, pc, step, hookErr, ui>>

ChildExit(c) ==
    /\ proc[c].child # "none"
    /\ proc' = [proc EXCEPT ![c].child = "none"]
    /\ UNCHANGED <<hooks, ctx, pc, step, hookErr, ui>>

(* Output goes to the progress callback, from the goroutine that copies    *)
(* the pipe; a hook's output is only stored.                               *)
Write(c) ==
    /\ ~IsHook(c) /\ pc[c] = "wait"
    /\ proc[c].leader = "up" \/ proc[c].child \in {"piped", "away"}
    /\ ~proc[c].handing /\ proc[c].chunks < MaxChunks[c]
    /\ proc' = [proc EXCEPT ![c].handing = TRUE, ![c].chunks = @ + 1]
    /\ UNCHANGED <<hooks, ctx, pc, step, hookErr, ui>>

(* The timeout; it makes no difference once the context is over.           *)
Expire(c) ==
    /\ pc[c] = "wait" /\ ~Over(c)
    /\ proc' = [proc EXCEPT ![c].expired = TRUE]
    /\ UNCHANGED <<hooks, ctx, pc, step, hookErr, ui>>

(* exec.CommandContext kills the process it started, and only that one.    *)
KillLeader(c) ==
    /\ pc[c] = "wait" /\ Over(c) /\ proc[c].leader = "up"
    /\ proc' = [proc EXCEPT ![c].leader = Killed(c)]
    /\ UNCHANGED <<hooks, ctx, pc, step, hookErr, ui>>

(* The watcher goroutine: its select finds the context over, or the command *)
(* done, and then it is too late (Wait).                                   *)
\* Mutant: only the process that was started is killed.
InGroupLeaderOnly(p) == {}

InGroup(p) == {p.child} \ {"none", "away"}

KillGroup(c) ==
    /\ pc[c] = "wait" /\ Over(c)
    /\ proc[c].leader = "up" \/ InGroup(proc[c]) # {}
    /\ proc' = [proc EXCEPT
                  ![c].leader = IF @ = "up" THEN Killed(c) ELSE @,
                  ![c].child = IF @ \in InGroup(proc[c]) THEN "none" ELSE @]
    /\ UNCHANGED <<hooks, ctx, pc, step, hookErr, ui>>

(* cmd.Wait: the process has ended and nobody holds the pipe any more.     *)
PipeClosed(c) == ~proc[c].handing /\ proc[c].child \notin {"piped", "away"}

(* With a WaitDelay the pipe is closed some time after the process ended.  *)
MayReturn(c) == PipeClosed(c) \/ IsHook(c)

(* The return closes "done": the watcher has nothing left to do, and       *)
(* nobody looks after what the process left running.  A process that was   *)
(* killed and a pipe that was closed by force are errors.                  *)
Wait(c) ==
    /\ pc[c] = "wait" /\ proc[c].leader \in {"exited", "killed"}
    /\ MayReturn(c)
    /\ \E bad \in BOOLEAN :
          /\ proc[c].leader = "killed" \/ ~PipeClosed(c) => bad
          /\ EndStep(c, bad)
    /\ proc' = [proc EXCEPT ![c] = NoProcess]
    /\ UNCHANGED <<hooks, ctx, ui>>

=============================================================================

----------------------------- MODULE ShellOverlay -----------------------------
(***************************************************************************)
(* The quick shell overlay (src/internal/tui/shell/shell.go), the part of  *)
(* the TUI's update loop that serves it (src/internal/tui/model.go) and    *)
(* the goroutine that runs its command.  The overlay, the loop and the     *)
(* goroutine talk by messages: a command of the update loop runs in a      *)
(* goroutine of its own, so that messages in flight have no order, and     *)
(* keys reach the overlay between them.                                    *)
(***************************************************************************)
EXTENDS CommandRun, FiniteSets

CONSTANTS
    Cap,      \* bound: room in the event channel of a command (64)
    MayType   \* bound: the commands typed under each list of hooks

ASSUME ShellOverlayAssumption ==
    /\ Cap \in Nat \ {0}
    /\ MayType \in [Hooks -> SUBSET Commands]

VARIABLES
    open,        \* the overlay is visible and has the keys
    running,     \* the overlay's own flag
    confirming,  \* the command whose confirmation it shows, or 0
    msgs,        \* messages on their way to the update loop
    progress,    \* how many progress messages are among them
    shellCh,     \* the command whose channel is read, or 0
    shellCancel, \* the command a cancel goes to, or 0
    ch,          \* the event channel of each command
    readers,     \* commands of the loop that read each channel
    overlapped   \* history: commands that ran while another did

uiVars == <<open, running, confirming, msgs, progress, shellCh,
            shellCancel, readers, overlapped>>
vars == <<callVars, uiVars, ch, ui>>

NoCommand == 0
ASSUME NoCommandIsNone == NoCommand \notin Commands

Msg(kind, c) == [kind |-> kind, command |-> c]

TypeOK ==
    /\ hooks \in Hooks
    /\ ctx \in [Commands -> {"live", "over"}]
    /\ pc \in [Commands -> Working \cup {"new", "typed", "asking",
                                         "declined", "confirmed", "ended"}]
    /\ step \in [Commands -> 1..(Len(Steps) + 1)]
    /\ hookErr \in [Commands -> BOOLEAN]
    /\ ui \in {"up", "quit", "down"}
    /\ open \in BOOLEAN /\ running \in BOOLEAN
    /\ confirming \in Commands \cup {NoCommand}
    /\ shellCh \in Commands \cup {NoCommand}
    /\ shellCancel \in Commands \cup {NoCommand}
    /\ msgs \subseteq [kind : {"execute", "confirmed", "started", "result",
                               "cancel"},
                       command : Commands \cup {NoCommand}]
    /\ progress \in Nat
    /\ readers \in [Commands -> Nat]
    /\ ch \in [Commands -> [events : Seq({"chunk", "result"}),
                            closed : BOOLEAN]]
    /\ overlapped \subseteq Commands

Init ==
    /\ hooks \in Hooks
    /\ ctx = [c \in Commands |-> "live"]
    /\ pc = [c \in Commands |-> "new"]
    /\ step = [c \in Commands |-> 1]
    /\ hookErr = [c \in Commands |-> FALSE]
    /\ proc = [c \in Commands |-> NoProcess]
    /\ ui = "up"
    /\ open = FALSE /\ running = FALSE /\ confirming = NoCommand
    /\ msgs = {} /\ progress = 0
    /\ shellCh = NoCommand /\ shellCancel = NoCommand
    /\ ch = [c \in Commands |-> [events |-> <<>>, closed |-> FALSE]]
    /\ readers = [c \in Commands |-> 0]
    /\ overlapped = {}

-----------------------------------------------------------------------------
(* The user's keys.                                                        *)

(* The command a confirmation was for is given up.                         *)
Declined == IF confirming = NoCommand
            THEN pc ELSE [pc EXCEPT ![confirming] = "declined"]

Hide == open' = FALSE /\ confirming' = NoCommand /\ pc' = Declined

CtrlX ==
    /\ ui = "up"
    /\ IF open
       THEN Hide
       ELSE open' = TRUE /\ confirming' = NoCommand /\ pc' = Declined
    /\ UNCHANGED <<hooks, ctx, step, hookErr, proc, running, msgs, progress,
                   shellCh, shellCancel, ch, readers, overlapped, ui>>

(* Enter on a command line: commands are numbered as they are typed.       *)
EnterCommand(c) ==
    /\ ui = "up" /\ open /\ ~running /\ confirming = NoCommand
    /\ c \in MayType[hooks] /\ pc[c] = "new"
    /\ \A d \in MayType[hooks] : d < c => pc[d] # "new"
    /\ pc' = [pc EXCEPT ![c] = "typed"]
    /\ msgs' = msgs \cup {Msg("execute", c)}
    /\ UNCHANGED <<hooks, ctx, step, hookErr, proc, open, running,
                   confirming, progress, shellCh, shellCancel, ch, readers,
                   overlapped, ui>>

EnterConfirm ==
    /\ ui = "up" /\ open /\ ~running /\ confirming # NoCommand
    /\ pc' = [pc EXCEPT ![confirming] = "confirmed"]
    /\ msgs' = msgs \cup {Msg("confirmed", confirming)}
    /\ confirming' = NoCommand
    /\ running' = TRUE
    /\ UNCHANGED <<hooks, ctx, step, hookErr, proc, open, progress, shellCh,
                   shellCancel, ch, readers, overlapped, ui>>

Esc ==
    /\ ui = "up" /\ open
    /\ confirming' = NoCommand
    /\ pc' = Declined
    /\ open' = (confirming # NoCommand)
    /\ msgs' = IF confirming = NoCommand /\ running
               THEN msgs \cup {Msg("cancel", NoCommand)} ELSE msgs
    /\ UNCHANGED <<hooks, ctx, step, hookErr, proc, running, progress,
                   shellCh, shellCancel, ch, readers, overlapped, ui>>

CtrlC ==
    /\ ui = "up" /\ open
    /\ IF running
       THEN /\ msgs' = msgs \cup {Msg("cancel", NoCommand)}
            /\ UNCHANGED <<open, confirming, pc>>
       ELSE Hide /\ UNCHANGED msgs
    /\ UNCHANGED <<hooks, ctx, step, hookErr, proc, running, progress,
                   shellCh, shellCancel, ch, readers, overlapped, ui>>

(* Leaving ends the update loop and the context of every command.          *)
Quit ==
    /\ ui = "up"
    /\ ui' = "quit"
    /\ ctx' = [c \in Commands |-> "over"]
    /\ open' = FALSE /\ running' = FALSE /\ confirming' = NoCommand
    /\ msgs' = {} /\ progress' = 0
    /\ shellCh' = NoCommand /\ shellCancel' = NoCommand
    /\ readers' = [c \in Commands |-> 0] /\ overlapped' = {}
    /\ UNCHANGED <<hooks, pc, step, hookErr, proc, ch>>

-----------------------------------------------------------------------------
(* The update loop.                                                        *)

Take(m) == ui = "up" /\ m \in msgs

(* A command is in flight until the loop has had its result, or can no     *)
(* longer get it.                                                          *)
InFlight(c) == \/ pc[c] \in Working \/ ch[c].events # <<>>
               \/ Msg("started", c) \in msgs \/ Msg("result", c) \in msgs

(* runShellCmd.                                                            *)
Run(c) ==
    /\ running' = TRUE
    /\ pc' = [pc EXCEPT ![c] = "begin"]
    /\ shellCancel' = c
    /\ msgs' = (msgs \ {Msg("execute", c), Msg("confirmed", c)})
                    \cup {Msg("started", c)}
    /\ overlapped' = LET others == {d \in Commands \ {c} : InFlight(d)}
                     IN  IF others = {} THEN overlapped
                         ELSE overlapped \cup others \cup {c}

(* In manual mode the command is confirmed first; the mode is whatever the *)
(* user has made it by now.                                                *)
HandleExecute(c) ==
    /\ Take(Msg("execute", c))
    /\ \/ /\ confirming' = c
          /\ pc' = [Declined EXCEPT ![c] = "asking"]
          /\ msgs' = msgs \ {Msg("execute", c)}
          /\ UNCHANGED <<running, shellCancel, overlapped>>
       \/ Run(c) /\ UNCHANGED confirming
    /\ UNCHANGED <<hooks, ctx, step, hookErr, proc, open, progress, shellCh,
                   ch, readers, ui>>

HandleConfirmed(c) ==
    /\ Take(Msg("confirmed", c))
    /\ Run(c)
    /\ UNCHANGED <<hooks, ctx, step, hookErr, proc, open, confirming,
                   progress, shellCh, ch, readers, ui>>

HandleStarted(c) ==
    /\ Take(Msg("started", c))
    /\ msgs' = msgs \ {Msg("started", c)}
    /\ shellCh' = c
    /\ readers' = [readers EXCEPT ![c] = @ + 1]
    /\ UNCHANGED <<callVars, open, running, confirming, progress,
                   shellCancel, ch, overlapped, ui>>

(* cancelShell.                                                            *)
HandleCancel ==
    /\ Take(Msg("cancel", NoCommand))
    /\ msgs' = msgs \ {Msg("cancel", NoCommand)}
    /\ ctx' = IF shellCancel = NoCommand
              THEN ctx ELSE [ctx EXCEPT ![shellCancel] = "over"]
    /\ UNCHANGED <<hooks, pc, step, hookErr, proc, open, running, confirming,
                   progress, shellCh, shellCancel, ch, readers, overlapped,
                   ui>>

(* A piece of output re-arms a reader on the channel that is current now.  *)
\* Mutant: the loop does not read on after a piece of output.
RearmedNot == readers

Rearmed == IF shellCh = NoCommand
           THEN readers ELSE [readers EXCEPT ![shellCh] = @ + 1]

HandleProgress ==
    /\ ui = "up" /\ progress > 0
    /\ progress' = progress - 1
    /\ readers' = Rearmed
    /\ UNCHANGED <<callVars, open, running, confirming, msgs, shellCh,
                   shellCancel, ch, overlapped, ui>>

HandleResult(c) ==
    /\ Take(Msg("result", c))
    /\ msgs' = msgs \ {Msg("result", c)}
    /\ running' = FALSE
    /\ shellCh' = NoCommand
    /\ UNCHANGED <<callVars, open, confirming, progress, shellCancel, ch,
                   readers, overlapped, ui>>

-----------------------------------------------------------------------------
(* readShellProgress, and the two ends of the channel in the goroutine.    *)

Read(c) ==
    /\ readers[c] > 0
    /\ ch[c].events # <<>> \/ ch[c].closed
    /\ readers' = [readers EXCEPT ![c] = @ - 1]
    /\ IF ch[c].events = <<>>
       THEN UNCHANGED <<ch, progress, msgs>>
       ELSE /\ ch' = [ch EXCEPT ![c].events = Tail(@)]
            /\ IF Head(ch[c].events) = "chunk"
               THEN progress' = progress + 1 /\ UNCHANGED msgs
               ELSE /\ msgs' = msgs \cup {Msg("result", c)}
                    /\ UNCHANGED progress
    /\ UNCHANGED <<callVars, open, running, confirming, shellCh, shellCancel,
                   overlapped, ui>>

(* onProgress: into the channel, or nowhere when the context is over.      *)
MayDrop(c) == ctx[c] = "over"

Hand(c) ==
    /\ proc[c].handing
    /\ \/ /\ Len(ch[c].events) < Cap
          /\ ch' = [ch EXCEPT ![c].events = Append(@, "chunk")]
       \/ MayDrop(c) /\ UNCHANGED ch
    /\ proc' = [proc EXCEPT ![c].handing = FALSE]
    /\ UNCHANGED <<hooks, ctx, pc, step, hookErr, uiVars, ui>>

(* The result goes the same way; then the channel is closed.               *)
Deliver(c) ==
    /\ pc[c] = "deliver"
    /\ pc' = [pc EXCEPT ![c] = "ended"]
    /\ \/ /\ Len(ch[c].events) < Cap
          /\ ch' = [ch EXCEPT ![c].events = Append(@, "result"),
                              ![c].closed = TRUE]
       \/ ctx[c] = "over" /\ ch' = [ch EXCEPT ![c].closed = TRUE]
    /\ UNCHANGED <<hooks, ctx, step, hookErr, proc, uiVars, ui>>

-----------------------------------------------------------------------------

Key ==
    \/ CtrlX \/ EnterConfirm \/ Esc \/ CtrlC \/ Quit
    \/ \E c \in Commands : EnterCommand(c)

HandleMsg(c) ==
    \/ HandleExecute(c) \/ HandleConfirmed(c)
    \/ HandleStarted(c) \/ HandleResult(c)

(* What the program does for a call, and what its processes do.            *)
Serve(c) ==
    \/ HookNotStarted(c) \/ CommandNotStarted(c) \/ Start(c) \/ Wait(c)

Behave(c) == Exit(c) \/ ChildExit(c) \/ Write(c)

(* The update loop, its readers and the goroutines.                        *)
Program ==
    \/ HandleProgress
    \/ \E c \in Commands :
          \/ HandleMsg(c) \/ Read(c) \/ Hand(c) \/ Deliver(c)
          \/ /\ Serve(c) \/ KillGroup(c) \/ Expire(c)
             /\ UNCHANGED <<uiVars, ch>>

Environment ==
    \/ Key
    \/ \E c \in Commands :
            (Behave(c) \/ KillLeader(c)) /\ UNCHANGED <<uiVars, ch>>

Next == ui # "down" /\ (HandleCancel \/ Program \/ Environment)

Spec == Init /\ [][Next]_vars

(* What can run, runs, and timers fire.  Every step of Program uses up a   *)
(* message, a reader, a process or a piece of output, which only steps of  *)
(* other kinds can replace without bound: fairness for all of them         *)
(* together is fairness for each.  Commands need not end, and the user     *)
(* need not do anything.                                                   *)
Fairness == WF_vars(ui # "down" /\ Program)

FairSpec == Spec /\ Fairness

-----------------------------------------------------------------------------

(* Every command that is run ends, at its timeout at the latest, whatever  *)
(* it and its hooks started in their process groups, and also when its     *)
(* channel is full and the program is being left, which nobody's reading   *)
(* outlasts.  Not so a command that left a process with the pipe outside   *)
(* the group (the tool sets no WaitDelay), nor one whose channel nobody    *)
(* reads any more because another command took its place.                  *)
CommandEnds ==
    \A c \in Commands :
        pc[c] \in Working ~> \/ pc[c] = "ended" \/ ui = "down"
                             \/ ~IsHook(c) /\ proc[c].child = "away"
                             \/ c \in overlapped

(* The result of a command that was not cancelled reaches the loop, which  *)
(* shows it and lets the overlay take the next command.                    *)
ResultShown ==
    \A c \in Commands :
        (pc[c] = "ended" /\ ctx[c] = "live")
            ~> (~InFlight(c) \/ ui # "up" \/ c \in overlapped)

=============================================================================

--------------------------- MODULE StdioTransport ---------------------------
(***************************************************************************)
(* The stdio transport of the MCP client (internal/mcp/transport.go): any  *)
(* number of goroutines in Send, Notify and Close, the read loop, the      *)
(* writer goroutine of each request and the goroutine that waits for the   *)
(* process, against a server process that answers late, never, in any      *)
(* order, sends requests of its own, sends garbage or dies.                *)
(*                                                                         *)
(* A critical section of t.mu is one step: none of them waits, which is    *)
(* what SendsNeverBlock states.  A call stands for its JSON-RPC id; the    *)
(* server numbers its own requests, so one of them can carry the id of a   *)
(* call.                                                                   *)
(***************************************************************************)
EXTENDS Naturals, Sequences, FiniteSets

CONSTANTS
  Senders,         \* the calls of Send
  Notifiers,       \* the calls of Notify
  Closers,         \* the calls of Close
  Connector,       \* the call of Connect
  OutCap,          \* bound: frames the server has written and nobody has read
  ServerRequests,  \* whether the server sends requests of its own
  None

Writers == Senders \cup Notifiers
Callers == Writers \cup Closers \cup {Connector}

ASSUME ConstantsAssumption ==
  /\ None \notin Callers \cup {"answer", "request", "error"}
  /\ Connector \notin Writers \cup Closers
  /\ Writers \cap Closers = {} /\ Senders \cap Notifiers = {}
  /\ OutCap \in Nat /\ ServerRequests \in BOOLEAN

VARIABLES
  pc,          \* where each caller is
  result,      \* what each Send has returned
  cancelled,   \* the callers whose context is done
  \* The fields of the transport.
  cmd,         \* t.cmd # nil
  stdin,       \* t.stdin # nil
  closed,
  readErr,     \* t.readErr # nil
  pending,     \* the calls in t.pending
  ch,          \* the channel of each call, capacity 1
  writeMu,     \* who holds it
  \* The goroutines.
  writer,      \* the writer of each caller, and its writeErrCh
  reader,      \* the read loop
  held,        \* the frame it has matched and not yet sent on
  \* The process and its pipes.
  proc, waited,  \* cmd.Wait has returned and closed our end of its stdout
  pipeClosed,    \* stdin.Close has been called
  killArmed,     \* the kill timer of Close
  received,      \* the calls the server has read and not answered
  replied,       \* the calls the server has answered
  out            \* its stdout: frames in order

callVars   == <<pc, result, cancelled>>
fieldVars  == <<cmd, stdin, closed, readErr>>
tableVars  == <<pending, ch>>
writeVars  == <<writeMu, writer>>
readVars   == <<reader, held>>
procVars   == <<proc, waited, killArmed>>
serverVars == <<received, replied, out>>
vars == <<callVars, fieldVars, tableVars, writeVars, readVars, procVars,
          pipeClosed, serverVars>>

\* What the server writes: frames with the id of a call, and garbage.
Matchable == [kind : {"answer", "request"}, call : Senders]
Garbage   == [kind |-> "bad", call |-> None]
Replies   == {"answer", "request", "error"}

TypeOK ==
  /\ pc \in [Callers -> {"idle", "queued", "writing", "waiting", "closing",
                         "writers", "process", "reader", "done"}]
  /\ result \in [Senders -> Replies \cup {"cancelled", None}]
  /\ cancelled \subseteq Writers
  /\ cmd \in BOOLEAN /\ stdin \in BOOLEAN /\ closed \in BOOLEAN
  /\ readErr \in BOOLEAN
  /\ pending \subseteq Senders /\ ch \in [Senders -> Replies \cup {None}]
  /\ writeMu \in Writers \cup {None}
  /\ writer \in [Writers -> {"none", "writing", "ok", "failed"}]
  /\ reader \in {"none", "reading", "sending", "ended"}
  /\ held \in Matchable \cup {None}
  /\ reader = "sending" => held \in Matchable
  /\ proc \in {"none", "running", "dead"} /\ waited \in BOOLEAN
  /\ pipeClosed \in BOOLEAN /\ killArmed \in BOOLEAN
  /\ received \subseteq Senders /\ replied \subseteq Senders
  /\ out \in Seq(Matchable \cup {Garbage})

Go(c, p) == pc' = [pc EXCEPT ![c] = p]

Step(c, from, to) == pc[c] = from /\ Go(c, to)

Return(s, r) == Go(s, "done") /\ result' = [result EXCEPT ![s] = r]

\* Every pending call gets an error.  The send on its channel is made under
\* t.mu, so it must find the channel empty.
FailPending ==
  /\ \A s \in pending : ch[s] = None
  /\ ch' = [s \in Senders |-> IF s \in pending THEN "error" ELSE ch[s]]
  /\ pending' = {}

-----------------------------------------------------------------------------
(* Connect, in one critical section. *)

\* The command is not found, a pipe cannot be made, or Start fails.
ConnectFails ==
  /\ Step(Connector, "idle", "done") /\ ~cmd
  /\ UNCHANGED <<result, cancelled, fieldVars, tableVars, writeVars, readVars,
                 procVars, pipeClosed, serverVars>>

\* The process runs; it may already have exited without an error.
Connect ==
  /\ Step(Connector, "idle", "done") /\ ~cmd
  /\ \A c \in Closers : pc[c] = "idle"
  /\ cmd' = TRUE /\ stdin' = TRUE
  /\ proc' = "running" /\ reader' = "reading"
  /\ UNCHANGED <<result, cancelled, closed, readErr, tableVars, writeVars, held,
                 waited, killArmed, pipeClosed, serverVars>>

\* The process has already exited with an error: Connect goes on to Close.
ConnectExited ==
  /\ Step(Connector, "idle", "queued") /\ ~cmd
  /\ \A c \in Closers : pc[c] = "idle"
  /\ cmd' = TRUE /\ stdin' = TRUE
  /\ proc' = "dead" /\ waited' = TRUE
  /\ UNCHANGED <<result, cancelled, closed, readErr, tableVars, writeVars,
                 readVars, killArmed, pipeClosed, serverVars>>

-----------------------------------------------------------------------------
(* Send. *)

\* Mutant: a read loop that has ended is not noticed.
AcceptingUnread == stdin /\ ~closed

Accepting == stdin /\ ~closed /\ ~readErr

SendRefused(s) ==
  /\ pc[s] = "idle" /\ ~Accepting
  /\ Return(s, "error")
  /\ UNCHANGED <<cancelled, fieldVars, tableVars, writeVars, readVars,
                 procVars, pipeClosed, serverVars>>

\* The call is registered under t.mu.
Register(s) ==
  /\ Step(s, "idle", "queued") /\ Accepting
  /\ pending' = pending \cup {s}
  /\ UNCHANGED <<result, cancelled, fieldVars, ch, writeVars, readVars,
                 procVars, pipeClosed, serverVars>>

\* The call is taken out of the table and returns an error.
Withdraw(s, r) == pending' = pending \ {s} /\ Return(s, r)

MarshalFails(s) ==
  /\ pc[s] = "queued"
  /\ Withdraw(s, "error")
  /\ UNCHANGED <<cancelled, fieldVars, ch, writeVars, readVars, procVars,
                 pipeClosed, serverVars>>

\* writeMu is taken and the writer goroutine starts.
StartWrite(c) ==
  /\ writeMu = None /\ writeMu' = c
  /\ writer' = [writer EXCEPT ![c] = "writing"]

SendWrites(s) ==
  /\ Step(s, "queued", "writing") /\ StartWrite(s)
  /\ UNCHANGED <<result, cancelled, fieldVars, tableVars, readVars, procVars,
                 pipeClosed, serverVars>>

\* Mutant: a cancelled Send keeps writeMu.
KeepWriteMu(s) == UNCHANGED writeMu

UnlockCancelled(s) == writeMu' = None

\* The context is done while the writer may still be writing.
SendCancelledWriting(s) ==
  /\ pc[s] = "writing" /\ s \in cancelled
  /\ UnlockCancelled(s)
  /\ Withdraw(s, "cancelled")
  /\ UNCHANGED <<cancelled, fieldVars, ch, writer, readVars, procVars,
                 pipeClosed, serverVars>>

SendWritten(s) ==
  /\ Step(s, "writing", "waiting") /\ writer[s] = "ok"
  /\ writeMu' = None
  /\ UNCHANGED <<result, cancelled, fieldVars, tableVars, writer, readVars,
                 procVars, pipeClosed, serverVars>>

SendWriteFailed(s) ==
  /\ pc[s] = "writing" /\ writer[s] = "failed"
  /\ writeMu' = None
  /\ Withdraw(s, "error")
  /\ UNCHANGED <<cancelled, fieldVars, ch, writer, readVars, procVars,
                 pipeClosed, serverVars>>

SendAnswered(s) ==
  /\ pc[s] = "waiting" /\ ch[s] # None
  /\ Return(s, ch[s])
  /\ ch' = [ch EXCEPT ![s] = None]
  /\ UNCHANGED <<cancelled, fieldVars, pending, writeVars, readVars, procVars,
                 pipeClosed, serverVars>>

SendCancelled(s) ==
  /\ pc[s] = "waiting" /\ s \in cancelled
  /\ Withdraw(s, "cancelled")
  /\ UNCHANGED <<cancelled, fieldVars, ch, writeVars, readVars, procVars,
                 pipeClosed, serverVars>>

-----------------------------------------------------------------------------
(* Notify holds writeMu from its check to its return. *)

\* Either marshalling fails or the call goes on to wait for writeMu.
NotifyCalled(n) ==
  /\ pc[n] = "idle" /\ (Go(n, "queued") \/ Go(n, "done"))
  /\ UNCHANGED <<result, cancelled, fieldVars, tableVars, writeVars, readVars,
                 procVars, pipeClosed, serverVars>>

NotifyRefused(n) ==
  /\ Step(n, "queued", "done") /\ writeMu = None
  /\ closed \/ ~stdin
  /\ UNCHANGED <<result, cancelled, fieldVars, tableVars, writeVars, readVars,
                 procVars, pipeClosed, serverVars>>

NotifyWrites(n) ==
  /\ Step(n, "queued", "writing") /\ stdin /\ ~closed
  /\ StartWrite(n)
  /\ UNCHANGED <<result, cancelled, fieldVars, tableVars, readVars, procVars,
                 pipeClosed, serverVars>>

NotifyReturns(n) ==
  /\ Step(n, "writing", "done")
  /\ n \in cancelled \/ writer[n] # "writing"
  /\ writeMu' = None
  /\ UNCHANGED <<result, cancelled, fieldVars, tableVars, writer, readVars,
                 procVars, pipeClosed, serverVars>>

-----------------------------------------------------------------------------
(* Close, called by a closer or by a Connect that has failed. *)

MayClose(c) ==
  \/ c \in Closers /\ pc[c] = "idle"
  \/ c = Connector /\ pc[c] = "queued"

CloseAgain(c) ==
  /\ MayClose(c) /\ closed /\ ~cmd
  /\ Go(c, "done")
  /\ UNCHANGED <<result, cancelled, fieldVars, tableVars, writeVars, readVars,
                 procVars, pipeClosed, serverVars>>

\* The kill timer is started before writeMu is taken.
ArmKill == killArmed' = (killArmed \/ cmd)

\* The critical section: pending calls fail, the fields are taken.
CloseBegins(c) ==
  /\ MayClose(c) /\ ~(closed /\ ~cmd)
  /\ Go(c, "closing")
  /\ closed' = TRUE /\ readErr' = TRUE
  /\ FailPending
  /\ stdin' = FALSE /\ cmd' = FALSE
  /\ ArmKill
  /\ UNCHANGED <<result, cancelled, writeVars, readVars, proc, waited,
                 pipeClosed, serverVars>>

CloseStdin(c) ==
  /\ Step(c, "closing", "writers") /\ writeMu = None
  /\ pipeClosed' = TRUE
  /\ UNCHANGED <<result, cancelled, fieldVars, tableVars, writeVars, readVars,
                 procVars, serverVars>>

\* writeWg.Wait()
WritersDone(c) ==
  /\ Step(c, "writers", "process")
  /\ \A w \in Writers : writer[w] # "writing"
  /\ UNCHANGED <<result, cancelled, fieldVars, tableVars, writeVars, readVars,
                 procVars, pipeClosed, serverVars>>

\* <-waitCh
Reaped(c) ==
  /\ Step(c, "process", "reader")
  /\ proc = "none" \/ waited
  /\ UNCHANGED <<result, cancelled, fieldVars, tableVars, writeVars, readVars,
                 procVars, pipeClosed, serverVars>>

\* wg.Wait()
CloseReturns(c) ==
  /\ Step(c, "reader", "done")
  /\ reader \in {"none", "ended"}
  /\ UNCHANGED <<result, cancelled, fieldVars, tableVars, writeVars, readVars,
                 procVars, pipeClosed, serverVars>>

-----------------------------------------------------------------------------
(* The read loop. *)

TakeOut(s) == pending' = pending \ {s}

\* A frame for a pending call: it leaves the table under t.mu and is sent
\* on afterwards.  What kind of frame it is is not looked at.
Match ==
  /\ reader = "reading" /\ out # <<>> /\ Head(out).call \in pending
  /\ reader' = "sending"
  /\ held' = Head(out)
  /\ TakeOut(Head(out).call)
  /\ out' = Tail(out)
  /\ UNCHANGED <<callVars, fieldVars, ch, writeVars, procVars, pipeClosed,
                 received, replied>>

Unmatched ==
  /\ reader = "reading" /\ out # <<>>
  /\ Head(out) # Garbage /\ Head(out).call \notin pending
  /\ out' = Tail(out)
  /\ UNCHANGED <<callVars, fieldVars, tableVars, writeVars, readVars, procVars,
                 pipeClosed, received, replied>>

Deliver ==
  /\ reader = "sending" /\ ch[held.call] = None
  /\ reader' = "reading" /\ held' = None
  /\ ch' = [ch EXCEPT ![held.call] = held.kind]
  /\ UNCHANGED <<callVars, fieldVars, pending, writeVars, procVars, pipeClosed,
                 serverVars>>

\* End of file, a frame that is cut off, too long or not JSON: every pending
\* call fails and the loop is over.  cmd.Wait closes the pipe when the
\* process has exited, whatever is still in it.
ReadEnds ==
  /\ reader = "reading"
  /\ \/ waited
     \/ proc = "dead" /\ out = <<>>
     \/ out # <<>> /\ Head(out) = Garbage
  /\ reader' = "ended"
  /\ readErr' = TRUE
  /\ FailPending
  /\ UNCHANGED <<callVars, cmd, stdin, closed, writeVars, held, procVars,
                 pipeClosed, serverVars>>

-----------------------------------------------------------------------------
(* The writer goroutines, the process and the contexts. *)

WriteSucceeds(c) ==
  /\ writer[c] = "writing" /\ proc = "running" /\ ~pipeClosed
  /\ writer' = [writer EXCEPT ![c] = "ok"]
  /\ received' = received \cup ({c} \cap Senders)
  /\ UNCHANGED <<callVars, fieldVars, tableVars, writeMu, readVars, procVars,
                 pipeClosed, replied, out>>

\* The pipe is broken; the server may also close its end of it.
WriteFails(c) ==
  /\ writer[c] = "writing"
  /\ writer' = [writer EXCEPT ![c] = "failed"]
  /\ UNCHANGED <<callVars, fieldVars, tableVars, writeMu, readVars, procVars,
                 pipeClosed, serverVars>>

Broken == pipeClosed \/ proc = "dead"

ServerWrites(frame) ==
  /\ proc = "running" /\ Len(out) < OutCap
  /\ out' = Append(out, frame)
  /\ UNCHANGED <<callVars, fieldVars, tableVars, writeVars, readVars, procVars,
                 pipeClosed>>

ServerAnswers(s) ==
  /\ s \in received
  /\ received' = received \ {s} /\ replied' = replied \cup {s}
  /\ ServerWrites([kind |-> "answer", call |-> s])

\* A request of the server's own, with an id of its own choice.
ServerAsks(s) ==
  /\ ServerRequests
  /\ ServerWrites([kind |-> "request", call |-> s])
  /\ UNCHANGED <<received, replied>>

ServerGarbles ==
  /\ ServerWrites(Garbage)
  /\ UNCHANGED <<received, replied>>

Dies ==
  /\ proc = "running" /\ proc' = "dead"
  /\ UNCHANGED <<callVars, fieldVars, tableVars, writeVars, readVars, waited,
                 killArmed, pipeClosed, serverVars>>

\* The kill timer fires.
Killed == killArmed /\ Dies

ProcessWaited ==
  /\ proc = "dead" /\ ~waited /\ waited' = TRUE
  /\ UNCHANGED <<callVars, fieldVars, tableVars, writeVars, readVars, proc,
                 killArmed, pipeClosed, serverVars>>

\* A context ends: cancelled by the turn, or its deadline has passed.
Cancel(c) ==
  /\ c \notin cancelled /\ pc[c] \notin {"idle", "done"}
  /\ cancelled' = cancelled \cup {c}
  /\ UNCHANGED <<pc, result, fieldVars, tableVars, writeVars, readVars,
                 procVars, pipeClosed, serverVars>>

-----------------------------------------------------------------------------
Init ==
  /\ pc = [c \in Callers |-> "idle"]
  /\ result = [s \in Senders |-> None] /\ cancelled = {}
  /\ cmd = FALSE /\ stdin = FALSE /\ closed = FALSE /\ readErr = FALSE
  /\ pending = {} /\ ch = [s \in Senders |-> None]
  /\ writeMu = None /\ writer = [c \in Writers |-> "none"]
  /\ reader = "none" /\ held = None
  /\ proc = "none" /\ waited = FALSE /\ pipeClosed = FALSE
  /\ killArmed = FALSE
  /\ received = {} /\ replied = {} /\ out = <<>>

Send(s) ==
  \/ SendCancelledWriting(s) \/ SendWritten(s)
  \/ SendWriteFailed(s) \/ SendAnswered(s) \/ SendCancelled(s)

Close(c) ==
  \/ CloseAgain(c) \/ CloseBegins(c)
  \/ WritersDone(c) \/ Reaped(c) \/ CloseReturns(c)

ReadLoop == Match \/ Unmatched \/ Deliver \/ ReadEnds

Server ==
  \/ \E s \in Senders : ServerAnswers(s) \/ ServerAsks(s)
  \/ ServerGarbles \/ Dies

Next ==
  \/ ConnectFails \/ Connect \/ ConnectExited
  \/ \E s \in Senders : \/ SendRefused(s) \/ Register(s) \/ MarshalFails(s)
                          \/ SendWrites(s) \/ Send(s)
  \/ \E n \in Notifiers : \/ NotifyCalled(n) \/ NotifyRefused(n)
                            \/ NotifyWrites(n) \/ NotifyReturns(n)
  \/ \E c \in Closers \cup {Connector} : Close(c) \/ CloseStdin(c)
  \/ ReadLoop
  \/ \E c \in Writers : WriteSucceeds(c) \/ WriteFails(c) \/ Cancel(c)
  \/ Server \/ Killed \/ ProcessWaited

Spec == Init /\ [][Next]_vars

-----------------------------------------------------------------------------
(* Fairness: of the goroutines, of the mutex, which Go hands over in turn,  *)
(* and of the operating system, which reports a broken pipe, reaps a dead   *)
(* process and lets the timer fire.  None of the server: it may neither     *)
(* read nor answer.                                                         *)
GoroutineFairness ==
  /\ \A s \in Senders : WF_vars(Send(s)) /\ SF_vars(SendWrites(s))
  /\ \A n \in Notifiers : /\ WF_vars(NotifyReturns(n))
                           /\ SF_vars(NotifyRefused(n) \/ NotifyWrites(n))
  /\ \A c \in Closers \cup {Connector} :
       WF_vars(Close(c) /\ pc[c] # "idle") /\ SF_vars(CloseStdin(c))
  /\ WF_vars(ReadLoop)
  /\ \A c \in Writers : WF_vars(Broken /\ WriteFails(c))
  /\ WF_vars(Killed) /\ WF_vars(ProcessWaited)

FairSpec == Spec /\ GoroutineFairness

-----------------------------------------------------------------------------
(* Properties. *)

\* Whoever sends on a call's channel while holding t.mu, or from the read
\* loop, finds it empty: a full one would block every user of the transport
\* (transport.go:391, 418, 438, 453, 471, 626).
SendsNeverBlock ==
  /\ \A s \in pending : ch[s] = None
  /\ reader = "sending" => ch[held.call] = None /\ held.call \notin pending

\* A Send that waits will hear: its channel has the reply, or the read loop is
\* about to send it, or its call is in a table that is still read. A call that
\* registers as the read loop ends or Close sweeps the table is not left in it
\* (transport.go:383-455, 466-498, 624-636).
EveryCallHears ==
  \A s \in Senders : pc[s] = "waiting" =>
    \/ ch[s] # None
    \/ reader = "sending" /\ held.call = s
    \/ s \in pending /\ reader # "ended" /\ ~closed

\* Close waits for "any in-flight stdin writers to finish before reaping the
\* process so they do not write to a closed pipe" (transport.go:672-673).
NoWriterAfterClose ==
  \A c \in Closers, w \in Writers :
    pc[c] \in {"process", "reader"} => writer[w] # "writing"

\* Send "waits for a matching response" (transport.go:77): it never returns
\* a request the server has sent.
AnswersMatch == \A s \in Senders : result[s] # "request"

LifeOf == IF closed \/ readErr THEN "down" ELSE IF stdin THEN "up" ELSE "new"

\* A request of the server's that was taken for the answer has no result, so
\* the client's decoding of it fails (client.go:88, 131, 158).
PhaseOf(s) ==
  IF pc[s] = "idle" THEN "idle"
  ELSE IF pc[s] # "done" THEN "open"
  ELSE IF result[s] = "answer" THEN "answered" ELSE "failed"

Phases == [s \in Senders |-> PhaseOf(s)]

Rpc == INSTANCE RpcService WITH
         Calls <- Senders, life <- LifeOf, phase <- Phases

\* The locks, channels and goroutines together do what RpcService says.
ImplementsRpc == Rpc!Spec

\* If every call has a deadline, as every call of MultiClient has, every call
\* returns, whatever the server does and although writers queue on writeMu
\* behind one that is stuck.  A stuck writer with no deadline keeps those
\* behind it from seeing theirs (transport.go:518-561).
CallsReturn ==
  (\A c \in Writers : WF_vars(Cancel(c))) =>
    \A c \in Writers : pc[c] \notin {"idle", "done"} ~> pc[c] = "done"

=============================================================================

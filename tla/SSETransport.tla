---------------------------- MODULE SSETransport ----------------------------
(***************************************************************************)
(* The SSE transport of the MCP client (internal/mcp/transport_sse.go)     *)
(* under the handshake of the client (client.go) and the way app.New       *)
(* connects it (app.go): the event stream of one GET request carries the   *)
(* answers, every request is a POST of its own, and the read loop and      *)
(* whoever else calls Close share the table of pending calls.              *)
(*                                                                         *)
(* A critical section of t.mu is one step, and so is what Close does after *)
(* it (it cancels t.ctx and closes the body).  The context of Connect is   *)
(* the context of the call Handshake; net/http ends the body of a response *)
(* with the context of its request, and with the timeout of the client.    *)
(***************************************************************************)
EXTENDS Naturals, Sequences, FiniteSets

CONSTANTS
  Senders,         \* the calls of Send
  Handshake,       \* the one that sends "initialize"
  Closers,         \* the calls of Close
  Connector,       \* the call of Connect
  Reader,          \* the read loop
  OutCap,          \* bound: events the server has sent and nobody has read
  ServerRequests,  \* whether the server sends requests of its own
  ContextEnds,     \* whether Connect's caller ends its context afterwards
  ClientTimeout,   \* whether the HTTP client has a timeout
  None

Enders == Closers \cup {Connector, Reader}

ASSUME ConstantsAssumption ==
  /\ Handshake \in Senders
  /\ None \notin Senders \cup {"answer", "request", "closed"}
  /\ Connector # Reader /\ Connector \notin Closers /\ Reader \notin Closers
  /\ Senders \cap Enders = {}
  /\ OutCap \in Nat /\ ServerRequests \in BOOLEAN
  /\ ContextEnds \in BOOLEAN /\ ClientTimeout \in BOOLEAN

VARIABLES
  pc,          \* where each call and the read loop are
  result,      \* what each Send has returned
  cancelled,   \* the calls whose context is done
  connected,   \* t.ctx, t.respBody and t.postURL are set
  closed,
  readErr,     \* t.readErr # nil
  ctxDone,     \* t.ctx is cancelled
  body,        \* the body of the response that carries the stream
  expired,     \* the client's timeout has passed for that response
  pending,     \* the calls in t.pending
  ch,          \* the channel of each call, capacity 1
  held,        \* the event the read loop has matched and not yet sent on
  server,      \* whether it has sent garbage or ended the stream
  received,    \* the calls the server has read and not answered
  replied,     \* the calls the server has answered
  out          \* the stream: events in order

callVars   == <<result, cancelled>>
fieldVars  == <<connected, closed, readErr>>
streamVars == <<ctxDone, body, expired>>
tableVars  == <<pending, ch>>
serverVars == <<server, received, replied, out>>
vars == <<pc, callVars, fieldVars, streamVars, tableVars, held, serverVars>>

\* What the server writes: events with the id of a call, and garbage.
Matchable == [kind : {"answer", "request"}, call : Senders]
Garbage   == [kind |-> "bad", call |-> None]

TypeOK ==
  /\ pc \in [Senders \cup Enders ->
               {"idle", "posting", "waiting", "endpoint", "initialize",
                "notify", "ready", "reading", "sending", "closing",
                "finishing", "done"}]
  /\ result \in [Senders -> {"answer", "request", "error", "cancelled", None}]
  /\ cancelled \subseteq Senders
  /\ connected \in BOOLEAN /\ closed \in BOOLEAN /\ readErr \in BOOLEAN
  /\ ctxDone \in BOOLEAN /\ expired \in BOOLEAN
  /\ body \in {"none", "open", "closed"}
  /\ pending \subseteq Senders
  /\ ch \in [Senders -> {"answer", "request", "closed", None}]
  /\ held \in Matchable \cup {None}
  /\ pc[Reader] = "sending" => held \in Matchable
  /\ server \in {"sound", "garbling", "ended"}
  /\ received \subseteq Senders /\ replied \subseteq Senders
  /\ out \in Seq(Matchable \cup {Garbage})

Go(c, p) == pc' = [pc EXCEPT ![c] = p]

Step(c, from, to) == pc[c] = from /\ Go(c, to)

Return(s, r) == Go(s, "done") /\ result' = [result EXCEPT ![s] = r]

\* The channels of all pending calls are closed.  Close of a closed channel
\* panics.
Sweep ==
  /\ \A s \in pending : ch[s] # "closed"
  /\ ch' = [s \in Senders |-> IF s \in pending THEN "closed" ELSE ch[s]]
  /\ pending' = {}

-----------------------------------------------------------------------------
(* Connect, the handshake and what app.New does next.  A Connect that fails *)
(* ends with a Close: the client's own, or the one of app.New.              *)

GetFails ==
  /\ Step(Connector, "idle", "closing")
  /\ UNCHANGED <<callVars, fieldVars, streamVars, tableVars, held, serverVars>>

GetSucceeds ==
  /\ Step(Connector, "idle", "endpoint") /\ ~closed
  /\ body' = "open"
  /\ UNCHANGED <<callVars, fieldVars, ctxDone, expired, tableVars, held,
                 serverVars>>

\* The stream ends before the endpoint event, or the transport has been
\* closed meanwhile.
EndpointFails ==
  /\ Step(Connector, "endpoint", "closing")
  /\ body' = "closed"
  /\ UNCHANGED <<callVars, fieldVars, ctxDone, expired, tableVars, held,
                 serverVars>>

\* The endpoint is known: the fields are set and the read loop starts.
EndpointFound ==
  /\ pc[Connector] = "endpoint" /\ ~closed
  /\ pc' = [pc EXCEPT ![Connector] = "initialize", ![Reader] = "reading"]
  /\ connected' = TRUE
  /\ UNCHANGED <<callVars, closed, readErr, streamVars, tableVars, held,
                 serverVars>>

\* The answer to "initialize"; its version may be one the client refuses.
Initialized ==
  /\ pc[Connector] = "initialize" /\ pc[Handshake] = "done"
  /\ \/ result[Handshake] = "answer" /\ Go(Connector, "notify")
     \/ Go(Connector, "closing")
  /\ UNCHANGED <<callVars, fieldVars, streamVars, tableVars, held, serverVars>>

NotifyFails ==
  /\ Step(Connector, "notify", "closing")
  /\ UNCHANGED <<callVars, fieldVars, streamVars, tableVars, held, serverVars>>

\* The POST succeeds, so its context was not done; Connect returns and
\* app.New cancels the context.
ConnectReturns ==
  /\ Step(Connector, "notify", "ready") /\ Handshake \notin cancelled
  /\ cancelled' = IF ContextEnds THEN cancelled \cup {Handshake} ELSE cancelled
  /\ UNCHANGED <<result, fieldVars, streamVars, tableVars, held, serverVars>>

-----------------------------------------------------------------------------
(* Send.  The client sends "initialize" in Connect and the rest after it. *)

Sending(s) ==
  /\ pc[s] = "idle"
  /\ IF s = Handshake THEN pc[Connector] = "initialize"
                      ELSE pc[Connector] = "ready"

SendRefused(s) ==
  /\ Sending(s) /\ readErr
  /\ Return(s, "error")
  /\ UNCHANGED <<cancelled, fieldVars, streamVars, tableVars, held, serverVars>>

\* Mutant: closed is checked instead of the read error.
RegisterUnlessClosed(s) ==
  /\ Sending(s) /\ ~closed
  /\ Go(s, "posting")
  /\ pending' = pending \cup {s}
  /\ UNCHANGED <<callVars, fieldVars, streamVars, ch, held, serverVars>>

\* A transport that is closed and has no read error takes the call.
Register(s) ==
  /\ Sending(s) /\ ~readErr
  /\ Go(s, "posting")
  /\ pending' = pending \cup {s}
  /\ UNCHANGED <<callVars, fieldVars, streamVars, ch, held, serverVars>>

Posted(s) ==
  /\ Step(s, "posting", "waiting")
  /\ s \in received \cup replied
  /\ UNCHANGED <<callVars, fieldVars, streamVars, tableVars, held, serverVars>>

\* The call is taken out of the table and returns.
Withdraw(s, r) == pending' = pending \ {s} /\ Return(s, r)

\* The server may have read the request all the same.
PostFails(s) ==
  /\ pc[s] = "posting"
  /\ Withdraw(s, "error")
  /\ UNCHANGED <<cancelled, fieldVars, streamVars, ch, held, serverVars>>

SendCancelled(s) ==
  /\ pc[s] = "waiting" /\ s \in cancelled
  /\ Withdraw(s, "cancelled")
  /\ UNCHANGED <<cancelled, fieldVars, streamVars, ch, held, serverVars>>

SendClosed(s) ==
  /\ pc[s] = "waiting" /\ ctxDone
  /\ Withdraw(s, "error")
  /\ UNCHANGED <<cancelled, fieldVars, streamVars, ch, held, serverVars>>

\* A closed channel yields nil, which is an error.
SendAnswered(s) ==
  /\ pc[s] = "waiting" /\ ch[s] # None
  /\ Return(s, IF ch[s] = "closed" THEN "error" ELSE ch[s])
  /\ ch' = IF ch[s] = "closed" THEN ch ELSE [ch EXCEPT ![s] = None]
  /\ UNCHANGED <<cancelled, fieldVars, streamVars, pending, held, serverVars>>

-----------------------------------------------------------------------------
(* Close: by a closer, by a Connect that fails, by the read loop at its end. *)

MayClose(c) == pc[c] = IF c \in Closers THEN "idle" ELSE "closing"

CloseAgain(c) ==
  /\ MayClose(c) /\ closed
  /\ Go(c, "done")
  /\ UNCHANGED <<callVars, fieldVars, streamVars, tableVars, held, serverVars>>

CloseBegins(c) ==
  /\ MayClose(c) /\ ~closed
  /\ Go(c, "finishing")
  /\ closed' = TRUE
  /\ Sweep
  /\ UNCHANGED <<callVars, connected, readErr, streamVars, held, serverVars>>

\* cancel and body.Close, if the transport had them when it was closed.
CloseFinishes(c) ==
  /\ Step(c, "finishing", "done")
  /\ ctxDone' = connected
  /\ body' = IF connected THEN "closed" ELSE body
  /\ UNCHANGED <<callVars, fieldVars, expired, tableVars, held, serverVars>>

-----------------------------------------------------------------------------
(* The read loop. *)

Unmatched ==
  /\ pc[Reader] = "reading"
  /\ out # <<>> /\ Head(out) # Garbage /\ Head(out).call \notin pending
  /\ out' = Tail(out)
  /\ UNCHANGED <<pc, callVars, fieldVars, streamVars, tableVars, held,
                 server, received, replied>>

TakeOut(s) == pending' = pending \ {s}

\* Mutant: whoever waits gets the event.
MatchAny ==
  /\ Step(Reader, "reading", "sending")
  /\ out # <<>> /\ Head(out) # Garbage
  /\ \E s \in pending : held' = [Head(out) EXCEPT !.call = s] /\ TakeOut(s)
  /\ out' = Tail(out)
  /\ UNCHANGED <<callVars, fieldVars, streamVars, ch, server, received, replied>>

\* An event for a pending call: it leaves the table under t.mu and is sent
\* on afterwards.  What kind of message it is is not looked at.
Match ==
  /\ Step(Reader, "reading", "sending")
  /\ out # <<>> /\ Head(out).call \in pending
  /\ held' = Head(out)
  /\ TakeOut(Head(out).call)
  /\ out' = Tail(out)
  /\ UNCHANGED <<callVars, fieldVars, streamVars, ch, server, received, replied>>

Deliver ==
  /\ Step(Reader, "sending", "reading")
  /\ ch[held.call] = None
  /\ ch' = [ch EXCEPT ![held.call] = held.kind]
  /\ held' = None
  /\ UNCHANGED <<callVars, fieldVars, streamVars, pending, serverVars>>

\* The other case of the select: the answer is lost and the loop is over,
\* with no read error.
GiveUp ==
  /\ Step(Reader, "sending", "closing")
  /\ ctxDone
  /\ held' = None
  /\ UNCHANGED <<callVars, fieldVars, streamVars, tableVars, serverVars>>

\* What is still in a broken stream may be lost.
StreamBroken ==
  server = "ended" \/ body = "closed" \/ Handshake \in cancelled \/ expired

\* The stream is broken or an event is not JSON.  The deferred Close follows.
ReadFails ==
  /\ Step(Reader, "reading", "closing")
  /\ StreamBroken \/ (out # <<>> /\ Head(out) = Garbage)
  /\ readErr' = TRUE
  /\ IF readErr THEN UNCHANGED tableVars ELSE Sweep
  /\ UNCHANGED <<callVars, connected, closed, streamVars, held, serverVars>>

-----------------------------------------------------------------------------
(* The server, the HTTP client and the contexts. *)

ServerReceives(s) ==
  /\ pc[s] = "posting" /\ s \notin received \cup replied
  /\ received' = received \cup {s}
  /\ UNCHANGED <<pc, callVars, fieldVars, streamVars, tableVars, held, server,
                 replied, out>>

ServerWrites(event) ==
  /\ server # "ended" /\ body = "open" /\ Len(out) < OutCap
  /\ out' = Append(out, event)
  /\ UNCHANGED <<pc, callVars, fieldVars, streamVars, tableVars, held>>

\* The answer may overtake the response to the POST.
ServerAnswers(s) ==
  /\ s \in received
  /\ received' = received \ {s} /\ replied' = replied \cup {s}
  /\ ServerWrites([kind |-> "answer", call |-> s])
  /\ UNCHANGED server

\* A request of the server's own, with an id of its own choice.
ServerAsks(s) ==
  /\ ServerRequests
  /\ ServerWrites([kind |-> "request", call |-> s])
  /\ UNCHANGED <<server, received, replied>>

ServerGarbles ==
  /\ ServerWrites(Garbage)
  /\ server' = "garbling"
  /\ UNCHANGED <<received, replied>>

ServerEnds ==
  /\ server # "ended" /\ body = "open" /\ server' = "ended"
  /\ UNCHANGED <<pc, callVars, fieldVars, streamVars, tableVars, held,
                 received, replied, out>>

Expire ==
  /\ ClientTimeout /\ body = "open" /\ ~expired /\ expired' = TRUE
  /\ UNCHANGED <<pc, callVars, fieldVars, ctxDone, body, tableVars, held,
                 serverVars>>

\* A context ends: cancelled by the turn, or its deadline has passed.
Cancel(s) ==
  /\ s \notin cancelled /\ pc[s] \in {"posting", "waiting"}
  /\ cancelled' = cancelled \cup {s}
  /\ UNCHANGED <<pc, result, fieldVars, streamVars, tableVars, held, serverVars>>

-----------------------------------------------------------------------------
Init ==
  /\ pc = [c \in Senders \cup Enders |-> "idle"]
  /\ result = [s \in Senders |-> None] /\ cancelled = {}
  /\ connected = FALSE /\ closed = FALSE /\ readErr = FALSE
  /\ ctxDone = FALSE /\ body = "none" /\ expired = FALSE
  /\ pending = {} /\ ch = [s \in Senders |-> None] /\ held = None
  /\ server = "sound" /\ received = {} /\ replied = {} /\ out = <<>>

Connect ==
  \/ GetFails \/ GetSucceeds \/ EndpointFails \/ EndpointFound
  \/ Initialized \/ NotifyFails \/ ConnectReturns

Wait(s) == SendCancelled(s) \/ SendClosed(s) \/ SendAnswered(s)

Close(c) == CloseAgain(c) \/ CloseBegins(c) \/ CloseFinishes(c)

ReadLoop == Match \/ Unmatched \/ Deliver \/ GiveUp \/ ReadFails

Server ==
  \/ \E s \in Senders : ServerReceives(s) \/ ServerAnswers(s) \/ ServerAsks(s)
  \/ ServerGarbles \/ ServerEnds

Next ==
  \/ Connect
  \/ \E s \in Senders : \/ SendRefused(s) \/ Register(s) \/ Posted(s)
                        \/ PostFails(s) \/ Wait(s) \/ Cancel(s)
  \/ \E c \in Enders : Close(c)
  \/ ReadLoop \/ Server \/ Expire

Spec == Init /\ [][Next]_vars

-----------------------------------------------------------------------------
(* Properties. *)

\* Nobody closes a channel twice, and the read loop sends on a channel that
\* is open and empty: whoever takes a call out of the table is the only one
\* to touch its channel (transport_sse.go:163-175, 187-191, 304-312).
ChannelsOwned ==
  /\ \A s \in pending : ch[s] = None
  /\ pc[Reader] = "sending" => ch[held.call] = None

\* A Send that waits will hear: from the read loop, its channel or a Close.
\* The check of readErr and the registration are one critical section, and
\* so are the read error and the sweep (transport_sse.go:187-191, 205-213).
NoneStranded ==
  \A s \in Senders : pc[s] = "waiting" =>
    \/ ch[s] # None \/ closed
    \/ pc[Reader] = "sending" /\ held.call = s
    \/ pc[Reader] \in {"reading", "sending"} /\ s \in pending

\* "Clients that connected successfully remain connected"
\* (multiclient.go:39-41): a transport goes down only if the server gives
\* cause or somebody calls Close.
StaysConnected ==
  pc[Connector] = "ready" /\ (readErr \/ closed) =>
    \/ server # "sound"
    \/ \E c \in Closers : pc[c] # "idle"

\* A request of the server's that was taken for the answer has no result, so
\* the client's decoding of it fails (client.go:88, 131, 158).
PhaseOf(s) ==
  IF pc[s] = "idle" THEN "idle"
  ELSE IF pc[s] # "done" THEN "open"
  ELSE IF result[s] = "answer" THEN "answered" ELSE "failed"

LifeOf == IF readErr THEN "down" ELSE IF connected THEN "up" ELSE "new"

Phases == [s \in Senders |-> PhaseOf(s)]

Rpc == INSTANCE RpcService WITH
         Calls <- Senders, life <- LifeOf, phase <- Phases

\* The stream, the POSTs and the table together do what RpcService says.
ImplementsRpc == Rpc!Spec

=============================================================================

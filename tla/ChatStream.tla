----------------------------- MODULE ChatStream -----------------------------
(***************************************************************************)
(* ChatStream of the LLM client (internal/llm/client.go, streaming.go): a  *)
(* request with retries and then three goroutines of one stream.  The read *)
(* loop turns the response body into events, the stream goroutine turns    *)
(* events into the chunks of the channel its caller holds, and the watcher *)
(* closes the body when the stream's context is done.                      *)
(*                                                                         *)
(* Each client makes one stream.  An event is what readRawChunk makes of   *)
(* a payload: it may carry text, fragments of tool calls and the end of    *)
(* the answer.  "[DONE]" and the end of the body are the same to it, "eof". *)
(***************************************************************************)
EXTENDS Naturals, Sequences, FiniteSets

CONSTANTS
  Clients,
  MaxAttempts,  \* the client's maxAttempts
  ChunkCap,     \* the capacity of the channel a stream returns
  Payloads,     \* the events that a server sends before the body ends
  MaxEvents,    \* bound: how many of them each server sends
  None

Event == [text : BOOLEAN, call : BOOLEAN, end : {"no", "finish"}]

ASSUME StreamAssumption ==
  /\ MaxAttempts \in Nat \ {0} /\ ChunkCap \in Nat \ {0}
  /\ Payloads \in [Clients -> SUBSET Event] /\ MaxEvents \in [Clients -> Nat]
  /\ None \notin {"client", "other"}

VARIABLES
  pc,         \* where the call of ChatStream and then its goroutine is
  attempt,    \* the request that is being made, counted from 1, or 0
  failure,    \* why the call has returned an error
  cancelled,  \* the clients whose caller's context is done
  body,       \* the response body
  reader,     \* where the read loop is
  readCh,     \* the channel it hands events over by, capacity 1
  calls,      \* the tool-call fragments in the accumulator
  todo,       \* the chunks to be sent for the event taken last
  ch,         \* the channel ChatStream has returned
  got,        \* the chunks its caller has received
  sent        \* the events that have been read from the body

requestVars == <<attempt, failure>>
chunkVars   == <<calls, todo, ch>>
innerVars   == <<body, reader, readCh, calls, todo, sent>>
streamVars  == <<pc, requestVars, cancelled, body, reader, readCh, chunkVars,
                 got, sent>>

Ends(why) == [text |-> FALSE, call |-> FALSE, end |-> why]
Eof    == Ends("eof")
Broken == Ends("error")
Events(c) == Payloads[c] \cup {Eof, Broken}
AllEvents == Event \cup {Eof, Broken}

Text     == [kind |-> "text", calls |-> 0]
Done(n)  == [kind |-> "done", calls |-> n]
Failed   == [kind |-> "error", calls |-> 0]
IsFinal(chunk) == chunk.kind # "text"

\* A stream exists from the response on; its channel is closed at "done".
Opened(c) == pc[c] \notin {"idle", "trying", "backoff", "failed"}

\* The stream's own cancel has been called, or the caller's context is done.
CtxDone(c) == c \in cancelled \/ pc[c] = "done"

Go(c, p) == pc' = [pc EXCEPT ![c] = p]

Step(c, from, to) == pc[c] = from /\ Go(c, to)

-----------------------------------------------------------------------------
(* The request (doRequestWithRetry).  Nothing bounds the time of one. *)

Start(c) ==
  /\ Step(c, "idle", "trying")
  /\ attempt' = [attempt EXCEPT ![c] = 1]

NoAttempt(c) == attempt' = [attempt EXCEPT ![c] = 0]

Fail(c, why) ==
  /\ Go(c, "failed") /\ failure' = [failure EXCEPT ![c] = why]
  /\ NoAttempt(c)

AttemptLeft(c) == attempt[c] < MaxAttempts

\* What a request may meet instead of an answer: a status, or an error of the
\* network; and what of it a retry may mend.
Statuses  == {"4xx", "429", "5xx"}
NetErrors == {"timeout", "reset", "cut short", "refused", "not found"}
Retryable == {"429", "5xx", "timeout", "reset", "cut short"}

\* A 429 counts as a client error once it is the last.
Class(problem) == IF problem \in {"4xx", "429"} THEN "client" ELSE "other"

RequestFails(c) ==
  /\ pc[c] = "trying"
  /\ \E problem \in Retryable :
       IF AttemptLeft(c) THEN Go(c, "backoff") /\ UNCHANGED requestVars
                         ELSE Fail(c, Class(problem))
  /\ UNCHANGED <<cancelled, body, reader, readCh, chunkVars, got, sent>>

RequestRefused(c) ==
  /\ pc[c] = "trying"
  /\ \E problem \in (Statuses \cup NetErrors) \ Retryable :
       Fail(c, Class(problem))
  /\ UNCHANGED <<cancelled, body, reader, readCh, chunkVars, got, sent>>

\* The context ends during the request or while it waits for the next one.
RequestCancelled(c) ==
  /\ pc[c] \in {"trying", "backoff"} /\ c \in cancelled
  /\ Fail(c, "other")
  /\ UNCHANGED <<cancelled, body, reader, readCh, chunkVars, got, sent>>

Retry(c) ==
  /\ Step(c, "backoff", "trying")
  /\ attempt' = [attempt EXCEPT ![c] = @ + 1]
  /\ UNCHANGED <<failure, cancelled, body, reader, readCh, chunkVars, got,
                 sent>>

\* The response is there: ChatStream returns the channel.
Respond(c) ==
  /\ Step(c, "trying", "select") /\ NoAttempt(c)
  /\ body' = [body EXCEPT ![c] = "open"]
  /\ reader' = [reader EXCEPT ![c] = "reading"]
  /\ UNCHANGED <<failure, cancelled, readCh, chunkVars, got, sent>>

-----------------------------------------------------------------------------
(* The stream goroutine. *)

\* Mutant: the text of the event that ends the answer is lost.
ChunksNoLastText(e, n) ==
  IF e.end = "error" THEN <<Failed>>
  ELSE IF e.end # "no" THEN <<Done(n)>> ELSE IF e.text THEN <<Text>> ELSE <<>>

\* The chunks for an event, once n fragments have been accumulated.
ChunksOf(e, n) ==
  IF e.end = "error" THEN <<Failed>>
  ELSE (IF e.text THEN <<Text>> ELSE <<>>)
       \o (IF e.end # "no" THEN <<Done(n)>> ELSE <<>>)

\* The timer of the idle timeout is stopped; it is set again once the chunks
\* are sent.
Take(c) ==
  /\ pc[c] = "select" /\ readCh[c] # <<>>
  /\ LET e == Head(readCh[c])
         n == IF e.call THEN calls[c] + 1 ELSE calls[c]
     IN /\ calls' = [calls EXCEPT ![c] = n]
        /\ todo' = [todo EXCEPT ![c] = ChunksOf(e, n)]
        /\ Go(c, IF ChunksOf(e, n) = <<>> THEN "select" ELSE "sending")
  /\ readCh' = [readCh EXCEPT ![c] = Tail(@)]
  /\ UNCHANGED <<requestVars, cancelled, body, reader, ch, got, sent>>

\* Mutant: there is no timer.
WaitForever(c) == FALSE /\ UNCHANGED streamVars

\* The timer runs whenever the goroutine waits for an event.
IdleTimeout(c) ==
  /\ Step(c, "select", "sending")
  /\ todo' = [todo EXCEPT ![c] = <<Failed>>]
  /\ UNCHANGED <<requestVars, cancelled, body, reader, readCh, calls, ch,
                 got, sent>>

\* The error is sent if there is room and the select chooses so.
SelectCancelled(c) ==
  /\ Step(c, "select", "ending") /\ c \in cancelled
  /\ \/ Len(ch[c]) < ChunkCap /\ ch' = [ch EXCEPT ![c] = Append(@, Failed)]
     \/ UNCHANGED ch
  /\ UNCHANGED <<requestVars, cancelled, body, reader, readCh, calls, todo,
                 got, sent>>

\* The read loop has closed its channel, which it does because of the context.
ReaderGone(c) ==
  /\ Step(c, "select", "ending") /\ readCh[c] = <<>> /\ reader[c] = "done"
  /\ UNCHANGED <<requestVars, cancelled, body, reader, readCh, chunkVars,
                 got, sent>>

\* Mutant: the goroutine goes on after the chunk that ends the answer.
AfterAlways(chunk, rest) == IF rest = <<>> THEN "select" ELSE "sending"

After(chunk, rest) ==
  IF rest # <<>> THEN "sending"
  ELSE IF IsFinal(chunk) THEN "ending" ELSE "select"

Send(c) ==
  /\ pc[c] = "sending" /\ Len(ch[c]) < ChunkCap
  /\ ch' = [ch EXCEPT ![c] = Append(@, Head(todo[c]))]
  /\ todo' = [todo EXCEPT ![c] = Tail(@)]
  /\ Go(c, After(Head(todo[c]), Tail(todo[c])))
  /\ UNCHANGED <<requestVars, cancelled, body, reader, readCh, calls, got,
                 sent>>

SendCancelled(c) ==
  /\ Step(c, "sending", "ending") /\ c \in cancelled
  /\ todo' = [todo EXCEPT ![c] = <<>>]
  /\ UNCHANGED <<requestVars, cancelled, body, reader, readCh, calls, ch,
                 got, sent>>

\* The deferred calls: the body is closed, cancel is called, the channel is
\* closed.  Nobody sees more than one of the three.
CloseStream(c) ==
  /\ Step(c, "ending", "done")
  /\ body' = [body EXCEPT ![c] = "closed"]
  /\ calls' = [calls EXCEPT ![c] = 0]
  /\ UNCHANGED <<requestVars, cancelled, reader, readCh, todo, ch, got, sent>>

\* The watcher.
Watch(c) ==
  /\ body[c] = "open" /\ c \in cancelled
  /\ body' = [body EXCEPT ![c] = "closed"]
  /\ UNCHANGED <<pc, requestVars, cancelled, reader, readCh, chunkVars, got,
                 sent>>

-----------------------------------------------------------------------------
(* The read loop and, with what it reads, the server.  The loop holds one   *)
(* event more than its channel does; here it reads when there is room.      *)

HandOver(c, e) ==
  /\ reader[c] = "reading" /\ readCh[c] = <<>>
  /\ readCh' = [readCh EXCEPT ![c] = <<e>>]
  /\ reader' = [reader EXCEPT
       ![c] = IF e \in {Eof, Broken} THEN "done" ELSE "reading"]

\* What is in the buffers when the context ends might as well have been read.
Read(c, e) ==
  /\ body[c] = "open" /\ c \notin cancelled
  /\ e \in {Eof, Broken} \/ Len(sent[c]) < MaxEvents[c]
  /\ HandOver(c, e)
  /\ sent' = [sent EXCEPT ![c] = Append(@, e)]
  /\ UNCHANGED <<pc, requestVars, cancelled, body, chunkVars, got>>

\* A read of a body that is closed or whose request's context is done.
ReadFails(c) ==
  /\ body[c] = "closed" \/ CtxDone(c)
  /\ HandOver(c, Broken)
  /\ UNCHANGED <<pc, requestVars, cancelled, body, chunkVars, got, sent>>

ReadCancelled(c) ==
  /\ reader[c] = "reading" /\ CtxDone(c)
  /\ reader' = [reader EXCEPT ![c] = "done"]
  /\ UNCHANGED <<pc, requestVars, cancelled, body, readCh, chunkVars, got,
                 sent>>

-----------------------------------------------------------------------------
\* A receive from the channel.
Receive(c) ==
  /\ ch[c] # <<>>
  /\ ch' = [ch EXCEPT ![c] = Tail(@)]
  /\ got' = [got EXCEPT ![c] = Append(@, Head(ch[c]))]

Exhausted(c) == pc[c] = "done" /\ ch[c] = <<>>

StreamInit ==
  /\ pc = [c \in Clients |-> "idle"]
  /\ attempt = [c \in Clients |-> 0] /\ failure = [c \in Clients |-> None]
  /\ cancelled = {} /\ body = [c \in Clients |-> "none"]
  /\ reader = [c \in Clients |-> "off"]
  /\ readCh = [c \in Clients |-> <<>>] /\ calls = [c \in Clients |-> 0]
  /\ todo = [c \in Clients |-> <<>>] /\ ch = [c \in Clients |-> <<>>]
  /\ got = [c \in Clients |-> <<>>] /\ sent = [c \in Clients |-> <<>>]

\* What the call and then the stream goroutine do by themselves.
Goroutine(c) ==
  \/ RequestCancelled(c)
  \/ Take(c) \/ IdleTimeout(c) \/ SelectCancelled(c) \/ ReaderGone(c)
  \/ Send(c) \/ SendCancelled(c) \/ CloseStream(c)

\* What a server, a network or a back-off decides.
Environment(c) ==
  \/ RequestFails(c) \/ RequestRefused(c) \/ Retry(c) \/ Respond(c)
  \/ \E e \in Events(c) : Read(c, e)

ReadLoop(c) == ReadFails(c) \/ ReadCancelled(c)

StreamStep(c) == Goroutine(c) \/ ReadLoop(c) \/ Watch(c) \/ Environment(c)

\* Fairness of the goroutines and the idle timer; none of the server.
StreamFairness(c) ==
  /\ WF_streamVars(Goroutine(c))
  /\ WF_streamVars(ReadLoop(c)) /\ WF_streamVars(Watch(c))

=============================================================================

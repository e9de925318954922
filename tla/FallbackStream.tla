--------------------------- MODULE FallbackStream ---------------------------
(***************************************************************************)
(* ChatStream of the FallbackClient (internal/llm/fallback.go) over the    *)
(* streams of two clients: it peeks at the stream of the primary until the *)
(* first text, and either relays that stream or asks the fallback and      *)
(* returns what the fallback returns.  StreamService is what the turn      *)
(* engine may rely on (turn.go:818-903).                                   *)
(***************************************************************************)
EXTENDS ChatStream

CONSTANTS Primary, Fallback

ASSUME FallbackAssumption ==
  /\ Clients = {Primary, Fallback} /\ Primary # Fallback
  /\ None \notin Clients

VARIABLES
  fpc,     \* where the call and then the relaying goroutine is
  stream,  \* the client whose stream the caller of ChatStream has been given
  carry,   \* the chunk the relay has in hand
  relay,   \* the channel the relay sends on, capacity ChunkCap
  seen     \* the chunks the caller has received from it

relayVars == <<carry, relay, seen>>
vars == <<streamVars, fpc, stream, relayVars>>

\* The context of the caller is the one the fallback is asked with.
CallerDone == Fallback \in cancelled

FGo(from, to) == fpc = from /\ fpc' = to

-----------------------------------------------------------------------------
(* The call. *)

AskPrimary ==
  /\ FGo("idle", "primary") /\ Start(Primary)
  /\ UNCHANGED <<failure, cancelled, innerVars, ch, got, stream, relayVars>>

PrimaryResponds ==
  /\ FGo("primary", "peek") /\ Opened(Primary)
  /\ UNCHANGED <<streamVars, stream, relayVars>>

\* Mutant: the primary's stream is left alone.
LeavePrimary == UNCHANGED cancelled

CancelPrimary == cancelled' = cancelled \cup {Primary}

\* ChatStream of the fallback.
AskFallback ==
  /\ fpc' = "fallback" /\ Start(Fallback)
  /\ CancelPrimary
  /\ UNCHANGED <<failure, innerVars, stream, relayVars>>

\* A client error is the caller's own.
FailsOver(why) == why # "client"

PrimaryFails ==
  /\ fpc = "primary" /\ pc[Primary] = "failed"
  /\ IF FailsOver(failure[Primary])
       THEN AskFallback /\ UNCHANGED <<ch, got>>
       ELSE /\ fpc' = "failed" /\ CancelPrimary
            /\ UNCHANGED <<pc, requestVars, innerVars, ch, got, stream,
                           relayVars>>

\* The first text: the caller is given the relay.
PeekText ==
  /\ FGo("peek", "carrying") /\ Receive(Primary)
  /\ Head(ch[Primary]) = Text
  /\ carry' = Head(ch[Primary]) /\ stream' = Primary
  /\ UNCHANGED <<pc, requestVars, cancelled, innerVars, relay, seen>>

\* An answer without text is passed over like an empty chunk.
PeekNoText ==
  /\ fpc = "peek" /\ Receive(Primary) /\ Head(ch[Primary]).kind = "done"
  /\ UNCHANGED <<pc, requestVars, cancelled, innerVars, fpc, stream,
                 relayVars>>

PeekError ==
  /\ fpc = "peek" /\ Receive(Primary) /\ Head(ch[Primary]).kind = "error"
  /\ AskFallback

\* The stream has been closed without text.
PeekClosed ==
  /\ fpc = "peek" /\ Exhausted(Primary) /\ AskFallback
  /\ UNCHANGED <<ch, got>>

\* Mutant: the timer of the first text runs on.
PeekTimerLeft ==
  /\ fpc \in {"peek", "relaying"} /\ AskFallback
  /\ UNCHANGED <<ch, got>>

\* The time for the first text is over.
PeekTimesOut ==
  /\ fpc = "peek" /\ AskFallback
  /\ UNCHANGED <<ch, got>>

PeekCancelled ==
  /\ FGo("peek", "failed") /\ CallerDone /\ CancelPrimary
  /\ UNCHANGED <<pc, requestVars, innerVars, ch, got, stream, relayVars>>

FallbackResponds ==
  /\ FGo("fallback", "given") /\ Opened(Fallback)
  /\ stream' = Fallback
  /\ UNCHANGED <<streamVars, relayVars>>

FallbackFails ==
  /\ FGo("fallback", "failed") /\ pc[Fallback] = "failed"
  /\ UNCHANGED <<streamVars, stream, relayVars>>

-----------------------------------------------------------------------------
(* The relaying goroutine. *)

Forward ==
  /\ FGo("carrying", "relaying") /\ Len(relay) < ChunkCap
  /\ relay' = Append(relay, carry)
  /\ carry' = None
  /\ UNCHANGED <<streamVars, stream, seen>>

RelayTakes ==
  /\ FGo("relaying", "carrying") /\ Receive(Primary)
  /\ carry' = Head(ch[Primary])
  /\ UNCHANGED <<pc, requestVars, cancelled, innerVars, stream, relay, seen>>

RelayEnds ==
  /\ FGo("relaying", "returning") /\ Exhausted(Primary)
  /\ UNCHANGED <<streamVars, stream, relayVars>>

RelayCancelled ==
  /\ fpc \in {"carrying", "relaying"} /\ fpc' = "returning" /\ CallerDone
  /\ carry' = None
  /\ UNCHANGED <<streamVars, stream, relay, seen>>

\* The deferred calls: cancelPrimary, then close(out).
RelayReturns ==
  /\ FGo("returning", "closing") /\ CancelPrimary
  /\ UNCHANGED <<pc, requestVars, innerVars, ch, got, stream, relayVars>>

CloseRelay ==
  /\ FGo("closing", "closed")
  /\ UNCHANGED <<streamVars, stream, relayVars>>

-----------------------------------------------------------------------------
(* The caller. *)

ReadRelay ==
  /\ stream = Primary /\ relay # <<>>
  /\ relay' = Tail(relay) /\ seen' = Append(seen, Head(relay))
  /\ UNCHANGED <<streamVars, fpc, stream, carry>>

ReadFallback ==
  /\ stream = Fallback /\ Receive(Fallback)
  /\ UNCHANGED <<pc, requestVars, cancelled, innerVars, fpc, stream,
                 relayVars>>

CallerReads == ReadRelay \/ ReadFallback

CallerCancels ==
  /\ fpc # "idle" /\ ~CallerDone
  /\ cancelled' = Clients
  /\ UNCHANGED <<pc, requestVars, innerVars, ch, got, fpc, stream, relayVars>>

Init ==
  /\ StreamInit
  /\ fpc = "idle" /\ stream = None /\ carry = None /\ relay = <<>>
  /\ seen = <<>>

Call ==
  \/ AskPrimary \/ PrimaryResponds \/ PrimaryFails
  \/ PeekText \/ PeekNoText
  \/ PeekError \/ PeekClosed \/ PeekTimesOut \/ PeekCancelled
  \/ FallbackResponds \/ FallbackFails

Relay ==
  \/ Forward \/ RelayTakes \/ RelayEnds \/ RelayCancelled
  \/ RelayReturns \/ CloseRelay

Next ==
  \/ \E c \in Clients : StreamStep(c) /\ UNCHANGED <<fpc, stream, relayVars>>
  \/ Call \/ Relay \/ CallerReads \/ CallerCancels

Spec == Init /\ [][Next]_vars

\* Fairness of the goroutines, and of a call of ChatStream with its timer.
FairSpec ==
  /\ Spec
  /\ \A c \in Clients : StreamFairness(c)
  /\ WF_vars(Call /\ fpc # "idle") /\ WF_vars(Relay)

-----------------------------------------------------------------------------
(* Properties. *)

Chunks == [kind : {"text", "done", "error"}, calls : Nat]

CallTypes ==
  /\ pc \in [Clients -> {"idle", "trying", "backoff", "failed", "select",
                         "sending", "ending", "done"}]
  /\ attempt \in [Clients -> 0 .. MaxAttempts]
  /\ failure \in [Clients -> {"client", "other", None}]
  /\ cancelled \subseteq Clients
  /\ \A c \in Clients : pc[c] = "backoff" => attempt[c] < MaxAttempts

ChannelTypes ==
  /\ body \in [Clients -> {"none", "open", "closed"}]
  /\ reader \in [Clients -> {"off", "reading", "done"}]
  /\ readCh \in [Clients -> Seq(AllEvents)]
  /\ sent \in [Clients -> Seq(AllEvents)]
  /\ calls \in [Clients -> Nat] /\ todo \in [Clients -> Seq(Chunks)]
  /\ ch \in [Clients -> Seq(Chunks)] /\ got \in [Clients -> Seq(Chunks)]
  /\ \A c \in Clients : pc[c] = "sending" => todo[c] # <<>>

RelayTypes ==
  /\ fpc \in {"idle", "primary", "peek", "fallback", "given", "failed",
              "carrying", "relaying", "returning", "closing", "closed"}
  /\ stream \in Clients \cup {None}
  /\ carry \in Chunks \cup {None} /\ (fpc = "carrying" => carry \in Chunks)
  /\ relay \in Seq(Chunks) /\ seen \in Seq(Chunks)

TypeOK == CallTypes /\ ChannelTypes /\ RelayTypes

\* What a server has sent up to the first end of its answer.
Answer(c) ==
  {i \in DOMAIN sent[c] : \A j \in 1 .. i - 1 : sent[c][j].end = "no"}

Texts(c)     == Cardinality({i \in Answer(c) : sent[c][i].text})
Fragments(c) == Cardinality({i \in Answer(c) : sent[c][i].call})
TextChunks(s) == Cardinality({i \in DOMAIN s : s[i].kind = "text"})

\* What the caller has been given.
Given ==
  IF stream = Primary THEN seen \o relay
  ELSE IF stream = Fallback THEN got[Fallback] \o ch[Fallback] ELSE <<>>

\* A caller that is told "done" has been given all the text and all the
\* tool-call fragments of that answer, those of its last event included,
\* through three goroutines, four channels and perhaps a relay
\* (client.go:320-358, fallback.go:91-120).
DoneIsComplete ==
  \A i \in DOMAIN Given : Given[i].kind = "done" =>
    TextChunks(Given) = Texts(stream) /\ Given[i].calls = Fragments(stream)

\* "at-most-once-content failover guarantee" (fallback.go:55): once text of
\* the primary has been taken, the fallback is not asked any more.
OneSource ==
  (\E i \in DOMAIN got[Primary] : got[Primary][i] = Text) =>
    pc[Fallback] = "idle"

\* "Client errors should not trigger failover" (fallback.go:38-39), also not
\* the 429 that is left after the retries.
ClientErrorStays == failure[Primary] = "client" => pc[Fallback] = "idle"

\* "falls back on failure" (fallback.go:49): an answer the primary has
\* completed is the one the caller gets.  Violated by one without text.
PrimaryAnswerKept ==
  \A i \in DOMAIN got[Primary] :
    got[Primary][i].kind = "done" => stream = Primary

LifeOf ==
  IF stream = None THEN "none"
  ELSE IF fpc = "closed" \/ (stream = Fallback /\ pc[Fallback] = "done")
    THEN "closed" ELSE "open"

Service == INSTANCE StreamService WITH
             life <- LifeOf, chunks <- Given, cut <- CallerDone

\* A stream is never closed without its last chunk, whatever the servers,
\* the timers and the two clients do, unless the caller's context is done;
\* and nothing follows the last chunk, although a server may end its answer
\* twice (client.go:270-360, streaming.go:51-55).
ImplementsService == Service!Spec

Quiet(c) ==
  /\ pc[c] \in {"idle", "failed", "done"}
  /\ reader[c] \in {"off", "done"} /\ body[c] # "open"

\* No goroutine and no response body is left behind when a stream is given
\* up, although nobody reads its channel any more (client.go:258-270,
\* fallback.go:70-145).
NothingLeaks ==
  /\ CallerDone \/ fpc \in {"fallback", "given", "failed", "closed"}
       ~> Quiet(Primary)
  /\ CallerDone ~> Quiet(Fallback)

AttentiveCaller == WF_vars(CallerReads)

\* A stream whose caller reads is closed, also if the server falls silent.
StreamEnds == AttentiveCaller => (stream # None ~> LifeOf = "closed")

=============================================================================

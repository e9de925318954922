------------------------ MODULE FallbackStreamProofs ------------------------
(***************************************************************************)
(* The failover of FallbackStream, for any capacities, any number of       *)
(* attempts and anything that the two servers send.                        *)
(***************************************************************************)
EXTENDS FallbackStream, FiniteSetTheorems, SequenceTheorems, TLAPS

callerVars == <<fpc, stream, relayVars>>

USE DEF Go, Step, FGo, requestVars, chunkVars, innerVars, streamVars,
        relayVars, callerVars

-----------------------------------------------------------------------------
(* Types. *)

\* The two clients are different ones.
LEMMA TwoClients ==
  /\ Primary \in Clients /\ Fallback \in Clients /\ Primary # Fallback
  /\ None \notin Clients
  BY FallbackAssumption

\* Attempts are counted from 1, and there is at least one.
LEMMA OneAttempt == MaxAttempts \in Nat /\ 1 \in 0 .. MaxAttempts
  BY StreamAssumption

\* A receive moves a chunk from one typed channel to another.
LEMMA ReceiveTypes ==
  ASSUME NEW c \in Clients, Receive(c),
         ch \in [Clients -> Seq(Chunks)], got \in [Clients -> Seq(Chunks)]
  PROVE  /\ Head(ch[c]) \in Chunks
         /\ ch' \in [Clients -> Seq(Chunks)]
         /\ got' \in [Clients -> Seq(Chunks)]
<1>1. Head(ch[c]) \in Chunks /\ Tail(ch[c]) \in Seq(Chunks)
  BY DEF Receive
<1>2. Append(got[c], Head(ch[c])) \in Seq(Chunks)
  BY <1>1
<1> QED
  BY <1>1, <1>2 DEF Receive

\* The events that a read loop may hand over.
LEMMA EventTypes ==
  /\ \A c \in Clients : Events(c) \subseteq AllEvents
  /\ Eof \in AllEvents /\ Broken \in AllEvents
  BY StreamAssumption DEF Events, AllEvents

\* The chunks there are.
LEMMA ChunkValues ==
  Text \in Chunks /\ Failed \in Chunks /\ \A n \in Nat : Done(n) \in Chunks
  BY DEF Text, Failed, Done, Chunks

\* What is sent for an event are chunks.
LEMMA ChunkTypes ==
  ASSUME NEW e \in AllEvents, NEW n \in Nat
  PROVE  ChunksOf(e, n) \in Seq(Chunks)
<1>1. (IF e.text THEN <<Text>> ELSE <<>>) \in Seq(Chunks)
  BY ChunkValues
<1>2. (IF e.end # "no" THEN <<Done(n)>> ELSE <<>>) \in Seq(Chunks)
  BY ChunkValues
<1> QED
  BY <1>1, <1>2, ChunkValues DEF ChunksOf

\* The initial state is typed.
LEMMA TypeInit == Init => TypeOK
  BY TwoClients, OneAttempt
     DEF Init, StreamInit, TypeOK, CallTypes, ChannelTypes, RelayTypes

\* Every step keeps the types.
LEMMA TypeStep == TypeOK /\ [Next]_vars => TypeOK'
<1> SUFFICES ASSUME TypeOK, [Next]_vars PROVE TypeOK'
  OBVIOUS
<1> USE TypeOK, TwoClients, OneAttempt
<1>1. ASSUME NEW c \in Clients, RequestFails(c), UNCHANGED callerVars
     PROVE  TypeOK'
  <2>1. CallTypes'
    BY <1>1
       DEF RequestFails, Class, AttemptLeft, Fail, NoAttempt, TypeOK,
           CallTypes
  <2>2. ChannelTypes'
    BY <1>1
       DEF RequestFails, Class, AttemptLeft, Fail, NoAttempt, TypeOK,
           CallTypes,
           ChannelTypes
  <2>3. RelayTypes'
    BY <1>1
       DEF RequestFails, Class, AttemptLeft, Fail, NoAttempt, TypeOK,
           RelayTypes
  <2> QED
    BY <2>1, <2>2, <2>3 DEF TypeOK
<1>2. ASSUME NEW c \in Clients, RequestRefused(c), UNCHANGED callerVars
     PROVE  TypeOK'
  <2>1. CallTypes'
    BY <1>2 DEF RequestRefused, Class, Fail, NoAttempt, TypeOK, CallTypes
  <2>2. ChannelTypes'
    BY <1>2
       DEF RequestRefused, Class, Fail, NoAttempt, TypeOK, CallTypes,
           ChannelTypes
  <2>3. RelayTypes'
    BY <1>2 DEF RequestRefused, Class, Fail, NoAttempt, TypeOK, RelayTypes
  <2> QED
    BY <2>1, <2>2, <2>3 DEF TypeOK
<1>3. ASSUME NEW c \in Clients, RequestCancelled(c), UNCHANGED callerVars
     PROVE  TypeOK'
  <2>1. CallTypes'
    BY <1>3 DEF RequestCancelled, Fail, NoAttempt, TypeOK, CallTypes
  <2>2. ChannelTypes'
    BY <1>3
       DEF RequestCancelled, Fail, NoAttempt, TypeOK, CallTypes, ChannelTypes
  <2>3. RelayTypes'
    BY <1>3 DEF RequestCancelled, Fail, NoAttempt, TypeOK, RelayTypes
  <2> QED
    BY <2>1, <2>2, <2>3 DEF TypeOK
<1>4. ASSUME NEW c \in Clients, Retry(c), UNCHANGED callerVars PROVE TypeOK'
  <2>1. CallTypes'
    BY <1>4 DEF Retry, TypeOK, CallTypes
  <2>2. ChannelTypes'
    BY <1>4 DEF Retry, TypeOK, CallTypes, ChannelTypes
  <2>3. RelayTypes'
    BY <1>4 DEF Retry, TypeOK, RelayTypes
  <2> QED
    BY <2>1, <2>2, <2>3 DEF TypeOK
<1>5. ASSUME NEW c \in Clients, Respond(c), UNCHANGED callerVars PROVE TypeOK'
  <2>1. CallTypes'
    BY <1>5 DEF Respond, NoAttempt, TypeOK, CallTypes
  <2>2. ChannelTypes'
    BY <1>5 DEF Respond, NoAttempt, TypeOK, CallTypes, ChannelTypes
  <2>3. RelayTypes'
    BY <1>5 DEF Respond, NoAttempt, TypeOK, RelayTypes
  <2> QED
    BY <2>1, <2>2, <2>3 DEF TypeOK
<1>6. ASSUME NEW c \in Clients, Take(c), UNCHANGED callerVars PROVE TypeOK'
  <2>1. readCh[c] \in Seq(AllEvents) /\ readCh[c] # <<>> /\ calls[c] \in Nat
    BY <1>6 DEF Take, TypeOK, ChannelTypes
  <2>2. Head(readCh[c]) \in AllEvents /\ Tail(readCh[c]) \in Seq(AllEvents)
    BY <2>1
  <2>3. \A n \in Nat : ChunksOf(Head(readCh[c]), n) \in Seq(Chunks)
    BY <2>2, ChunkTypes
  <2>4. (IF Head(readCh[c]).call THEN calls[c] + 1 ELSE calls[c]) \in Nat
    BY <2>1
  <2>5. calls' \in [Clients -> Nat]
    BY <1>6, <2>4 DEF Take, TypeOK, ChannelTypes
  <2>6. readCh' \in [Clients -> Seq(AllEvents)]
    BY <1>6, <2>2 DEF Take, TypeOK, ChannelTypes
  <2>7. todo' \in [Clients -> Seq(Chunks)]
    BY <1>6, <2>3, <2>4 DEF Take, TypeOK, ChannelTypes
  <2>8. \A d \in Clients : pc'[d] = "sending" => todo'[d] # <<>>
    BY <1>6 DEF Take, TypeOK, ChannelTypes, CallTypes
  <2>9. CallTypes'
    BY <1>6, <2>1, <2>2, <2>3, <2>4, <2>5, <2>6, <2>7, <2>8
       DEF Take, TypeOK, CallTypes
  <2>10. ChannelTypes'
    BY <1>6, <2>1, <2>2, <2>3, <2>4, <2>5, <2>6, <2>7, <2>8
       DEF Take, TypeOK, CallTypes, ChannelTypes
  <2>11. RelayTypes'
    BY <1>6, <2>1, <2>2, <2>3, <2>4, <2>5, <2>6, <2>7, <2>8
       DEF Take, TypeOK, RelayTypes
  <2> QED
    BY <2>9, <2>10, <2>11 DEF TypeOK
<1>7. ASSUME NEW c \in Clients, IdleTimeout(c), UNCHANGED callerVars
     PROVE  TypeOK'
  <2>1. <<Failed>> \in Seq(Chunks) /\ <<Failed>> # <<>>
    BY ChunkValues
  <2>2. CallTypes'
    BY <1>7, <2>1 DEF IdleTimeout, TypeOK, CallTypes
  <2>3. ChannelTypes'
    BY <1>7, <2>1 DEF IdleTimeout, TypeOK, CallTypes, ChannelTypes
  <2>4. RelayTypes'
    BY <1>7, <2>1 DEF IdleTimeout, TypeOK, RelayTypes
  <2> QED
    BY <2>2, <2>3, <2>4 DEF TypeOK
<1>8. ASSUME NEW c \in Clients, SelectCancelled(c), UNCHANGED callerVars
     PROVE  TypeOK'
  <2>1. Append(ch[c], Failed) \in Seq(Chunks)
    BY ChunkValues DEF TypeOK, ChannelTypes
  <2>2. ch' \in [Clients -> Seq(Chunks)]
    BY <1>8, <2>1 DEF SelectCancelled, TypeOK, ChannelTypes
  <2>3. CallTypes'
    BY <1>8, <2>1, <2>2 DEF SelectCancelled, TypeOK, CallTypes
  <2>4. ChannelTypes'
    BY <1>8, <2>1, <2>2 DEF SelectCancelled, TypeOK, CallTypes, ChannelTypes
  <2>5. RelayTypes'
    BY <1>8, <2>1, <2>2 DEF SelectCancelled, TypeOK, RelayTypes
  <2> QED
    BY <2>3, <2>4, <2>5 DEF TypeOK
<1>9. ASSUME NEW c \in Clients, ReaderGone(c), UNCHANGED callerVars
     PROVE  TypeOK'
  BY <1>9 DEF ReaderGone, TypeOK, CallTypes, ChannelTypes, RelayTypes
<1>10. ASSUME NEW c \in Clients, Send(c), UNCHANGED callerVars PROVE TypeOK'
  <2>1. todo[c] \in Seq(Chunks) /\ todo[c] # <<>> /\ ch[c] \in Seq(Chunks)
    BY <1>10 DEF Send, TypeOK, ChannelTypes
  <2>2. /\ Head(todo[c]) \in Chunks /\ Tail(todo[c]) \in Seq(Chunks)
        /\ Append(ch[c], Head(todo[c])) \in Seq(Chunks)
    BY <2>1
  <2>3. /\ After(Head(todo[c]), Tail(todo[c]))
             \in {"select", "sending", "ending"}
        /\ After(Head(todo[c]), Tail(todo[c])) = "sending"
             => Tail(todo[c]) # <<>>
    BY  DEF After
  <2>4. CallTypes'
    BY <1>10, <2>1, <2>2, <2>3 DEF Send, TypeOK, CallTypes
  <2>5. ChannelTypes'
    BY <1>10, <2>1, <2>2, <2>3 DEF Send, TypeOK, CallTypes, ChannelTypes
  <2>6. RelayTypes'
    BY <1>10, <2>1, <2>2, <2>3 DEF Send, TypeOK, RelayTypes
  <2> QED
    BY <2>4, <2>5, <2>6 DEF TypeOK
<1>11. ASSUME NEW c \in Clients, SendCancelled(c), UNCHANGED callerVars
     PROVE  TypeOK'
  <2>1. <<>> \in Seq(Chunks)
    OBVIOUS
  <2>2. CallTypes'
    BY <1>11, <2>1 DEF SendCancelled, TypeOK, CallTypes
  <2>3. ChannelTypes'
    BY <1>11, <2>1 DEF SendCancelled, TypeOK, CallTypes, ChannelTypes
  <2>4. RelayTypes'
    BY <1>11, <2>1 DEF SendCancelled, TypeOK, RelayTypes
  <2> QED
    BY <2>2, <2>3, <2>4 DEF TypeOK
<1>12. ASSUME NEW c \in Clients, CloseStream(c), UNCHANGED callerVars
     PROVE  TypeOK'
  BY <1>12 DEF CloseStream, TypeOK, CallTypes, ChannelTypes, RelayTypes
<1>13. ASSUME NEW c \in Clients, Watch(c), UNCHANGED callerVars PROVE TypeOK'
  BY <1>13 DEF Watch, TypeOK, CallTypes, ChannelTypes, RelayTypes
<1>14. ASSUME NEW c \in Clients, NEW e \in Events(c), Read(c, e),
            UNCHANGED callerVars
     PROVE  TypeOK'
  <2>1. e \in AllEvents /\ sent[c] \in Seq(AllEvents)
    BY EventTypes DEF TypeOK, ChannelTypes
  <2>2. <<e>> \in Seq(AllEvents) /\ Append(sent[c], e) \in Seq(AllEvents)
    BY <2>1
  <2>3. CallTypes'
    BY <1>14, <2>1, <2>2 DEF Read, HandOver, TypeOK, CallTypes
  <2>4. ChannelTypes'
    BY <1>14, <2>1, <2>2 DEF Read, HandOver, TypeOK, CallTypes, ChannelTypes
  <2>5. RelayTypes'
    BY <1>14, <2>1, <2>2 DEF Read, HandOver, TypeOK, RelayTypes
  <2> QED
    BY <2>3, <2>4, <2>5 DEF TypeOK
<1>15. ASSUME NEW c \in Clients, ReadFails(c), UNCHANGED callerVars
     PROVE  TypeOK'
  <2>1. <<Broken>> \in Seq(AllEvents)
    BY EventTypes
  <2>2. CallTypes'
    BY <1>15, <2>1 DEF ReadFails, HandOver, TypeOK, CallTypes
  <2>3. ChannelTypes'
    BY <1>15, <2>1 DEF ReadFails, HandOver, TypeOK, CallTypes, ChannelTypes
  <2>4. RelayTypes'
    BY <1>15, <2>1 DEF ReadFails, HandOver, TypeOK, RelayTypes
  <2> QED
    BY <2>2, <2>3, <2>4 DEF TypeOK
<1>16. ASSUME NEW c \in Clients, ReadCancelled(c), UNCHANGED callerVars
     PROVE  TypeOK'
  BY <1>16 DEF ReadCancelled, TypeOK, CallTypes, ChannelTypes, RelayTypes
<1>17. ASSUME AskPrimary PROVE TypeOK'
  BY <1>17 DEF AskPrimary, Start, TypeOK, CallTypes, ChannelTypes, RelayTypes
<1>18. ASSUME PrimaryResponds PROVE TypeOK'
  BY <1>18 DEF PrimaryResponds, TypeOK, CallTypes, ChannelTypes, RelayTypes
<1>19. ASSUME PrimaryFails PROVE TypeOK'
  <2> USE DEF PrimaryFails, AskFallback, Start, CancelPrimary, FailsOver
  <2>1. CallTypes'
    BY <1>19 DEF TypeOK, CallTypes
  <2>2. ChannelTypes'
    BY <1>19 DEF TypeOK, CallTypes, ChannelTypes
  <2>3. RelayTypes'
    BY <1>19 DEF TypeOK, RelayTypes
  <2> QED
    BY <2>1, <2>2, <2>3 DEF TypeOK
<1>20. ASSUME PeekText PROVE TypeOK'
  <2>1. /\ Head(ch[Primary]) \in Chunks
        /\ ch' \in [Clients -> Seq(Chunks)]
        /\ got' \in [Clients -> Seq(Chunks)]
    BY <1>20, ReceiveTypes DEF PeekText, TypeOK, ChannelTypes
  <2>2. CallTypes'
    BY <1>20, <2>1 DEF PeekText, TypeOK, CallTypes
  <2>3. ChannelTypes'
    BY <1>20, <2>1 DEF PeekText, TypeOK, CallTypes, ChannelTypes
  <2>4. RelayTypes'
    BY <1>20, <2>1 DEF PeekText, TypeOK, RelayTypes
  <2> QED
    BY <2>2, <2>3, <2>4 DEF TypeOK
<1>21. ASSUME PeekNoText PROVE TypeOK'
  <2>1. /\ Head(ch[Primary]) \in Chunks
        /\ ch' \in [Clients -> Seq(Chunks)]
        /\ got' \in [Clients -> Seq(Chunks)]
    BY <1>21, ReceiveTypes DEF PeekNoText, TypeOK, ChannelTypes
  <2>2. CallTypes'
    BY <1>21, <2>1 DEF PeekNoText, TypeOK, CallTypes
  <2>3. ChannelTypes'
    BY <1>21, <2>1 DEF PeekNoText, TypeOK, CallTypes, ChannelTypes
  <2>4. RelayTypes'
    BY <1>21, <2>1 DEF PeekNoText, TypeOK, RelayTypes
  <2> QED
    BY <2>2, <2>3, <2>4 DEF TypeOK
<1>22. ASSUME PeekError PROVE TypeOK'
  <2>1. /\ Head(ch[Primary]) \in Chunks
        /\ ch' \in [Clients -> Seq(Chunks)]
        /\ got' \in [Clients -> Seq(Chunks)]
    BY <1>22, ReceiveTypes DEF PeekError, TypeOK, ChannelTypes
  <2>2. CallTypes'
    BY <1>22, <2>1
       DEF PeekError, AskFallback, Start, CancelPrimary, TypeOK, CallTypes
  <2>3. ChannelTypes'
    BY <1>22, <2>1
       DEF PeekError, AskFallback, Start, CancelPrimary, TypeOK, CallTypes,
           ChannelTypes
  <2>4. RelayTypes'
    BY <1>22, <2>1
       DEF PeekError, AskFallback, Start, CancelPrimary, TypeOK, RelayTypes
  <2> QED
    BY <2>2, <2>3, <2>4 DEF TypeOK
<1>23. ASSUME PeekClosed PROVE TypeOK'
  BY <1>23
     DEF PeekClosed, Exhausted, AskFallback, Start, CancelPrimary, TypeOK,
         CallTypes, ChannelTypes, RelayTypes
<1>24. ASSUME PeekTimesOut PROVE TypeOK'
  BY <1>24
     DEF PeekTimesOut, AskFallback, Start, CancelPrimary, TypeOK, CallTypes,
         ChannelTypes, RelayTypes
<1>25. ASSUME PeekCancelled PROVE TypeOK'
  BY <1>25
     DEF PeekCancelled, CancelPrimary, TypeOK, CallTypes, ChannelTypes,
         RelayTypes
<1>26. ASSUME FallbackResponds PROVE TypeOK'
  BY <1>26 DEF FallbackResponds, TypeOK, CallTypes, ChannelTypes, RelayTypes
<1>27. ASSUME FallbackFails PROVE TypeOK'
  BY <1>27 DEF FallbackFails, TypeOK, CallTypes, ChannelTypes, RelayTypes
<1>28. ASSUME Forward PROVE TypeOK'
  <2>1. Append(relay, carry) \in Seq(Chunks)
    BY <1>28 DEF Forward, TypeOK, RelayTypes
  <2>2. CallTypes'
    BY <1>28, <2>1 DEF Forward, TypeOK, CallTypes
  <2>3. ChannelTypes'
    BY <1>28, <2>1 DEF Forward, TypeOK, CallTypes, ChannelTypes
  <2>4. RelayTypes'
    BY <1>28, <2>1 DEF Forward, TypeOK, RelayTypes
  <2> QED
    BY <2>2, <2>3, <2>4 DEF TypeOK
<1>29. ASSUME RelayTakes PROVE TypeOK'
  <2>1. /\ Head(ch[Primary]) \in Chunks
        /\ ch' \in [Clients -> Seq(Chunks)]
        /\ got' \in [Clients -> Seq(Chunks)]
    BY <1>29, ReceiveTypes DEF RelayTakes, TypeOK, ChannelTypes
  <2>2. CallTypes'
    BY <1>29, <2>1 DEF RelayTakes, TypeOK, CallTypes
  <2>3. ChannelTypes'
    BY <1>29, <2>1 DEF RelayTakes, TypeOK, CallTypes, ChannelTypes
  <2>4. RelayTypes'
    BY <1>29, <2>1 DEF RelayTakes, TypeOK, RelayTypes
  <2> QED
    BY <2>2, <2>3, <2>4 DEF TypeOK
<1>30. ASSUME RelayEnds PROVE TypeOK'
  BY <1>30 DEF RelayEnds, TypeOK, CallTypes, ChannelTypes, RelayTypes
<1>31. ASSUME RelayCancelled PROVE TypeOK'
  BY <1>31 DEF RelayCancelled, TypeOK, CallTypes, ChannelTypes, RelayTypes
<1>32. ASSUME RelayReturns PROVE TypeOK'
  BY <1>32
     DEF RelayReturns, CancelPrimary, TypeOK, CallTypes, ChannelTypes,
         RelayTypes
<1>33. ASSUME CloseRelay PROVE TypeOK'
  BY <1>33 DEF CloseRelay, TypeOK, CallTypes, ChannelTypes, RelayTypes
<1>34. ASSUME ReadRelay PROVE TypeOK'
  <2>1. Head(relay) \in Chunks /\ Tail(relay) \in Seq(Chunks)
    BY <1>34 DEF ReadRelay, TypeOK, RelayTypes
  <2>2. Append(seen, Head(relay)) \in Seq(Chunks)
    BY <2>1 DEF TypeOK, RelayTypes
  <2>3. CallTypes'
    BY <1>34, <2>1, <2>2 DEF ReadRelay, TypeOK, CallTypes
  <2>4. ChannelTypes'
    BY <1>34, <2>1, <2>2 DEF ReadRelay, TypeOK, CallTypes, ChannelTypes
  <2>5. RelayTypes'
    BY <1>34, <2>1, <2>2 DEF ReadRelay, TypeOK, RelayTypes
  <2> QED
    BY <2>3, <2>4, <2>5 DEF TypeOK
<1>35. ASSUME ReadFallback PROVE TypeOK'
  <2>1. /\ Head(ch[Fallback]) \in Chunks
        /\ ch' \in [Clients -> Seq(Chunks)]
        /\ got' \in [Clients -> Seq(Chunks)]
    BY <1>35, ReceiveTypes DEF ReadFallback, TypeOK, ChannelTypes
  <2>2. CallTypes'
    BY <1>35, <2>1 DEF ReadFallback, TypeOK, CallTypes
  <2>3. ChannelTypes'
    BY <1>35, <2>1 DEF ReadFallback, TypeOK, CallTypes, ChannelTypes
  <2>4. RelayTypes'
    BY <1>35, <2>1 DEF ReadFallback, TypeOK, RelayTypes
  <2> QED
    BY <2>2, <2>3, <2>4 DEF TypeOK
<1>36. ASSUME CallerCancels PROVE TypeOK'
  BY <1>36 DEF CallerCancels, TypeOK, CallTypes, ChannelTypes, RelayTypes
<1>37. CASE UNCHANGED vars
  BY <1>37 DEF vars, TypeOK, CallTypes, ChannelTypes, RelayTypes
<1> QED
  BY <1>1, <1>2, <1>3, <1>4, <1>5, <1>6, <1>7, <1>8, <1>9, <1>10, <1>11,
     <1>12, <1>13, <1>14, <1>15, <1>16, <1>17, <1>18, <1>19, <1>20, <1>21,
     <1>22, <1>23, <1>24, <1>25, <1>26, <1>27, <1>28, <1>29, <1>30, <1>31,
     <1>32, <1>33, <1>34, <1>35, <1>36, <1>37
     DEF Next, Call, Relay, CallerReads, StreamStep, Goroutine, Environment,
         ReadLoop

\* Every variable of the two streams and of the relay keeps its type, for any
\* two servers (client.go:232-372, fallback.go:50-135).
THEOREM TypeCorrect == Spec => []TypeOK
  BY TypeInit, TypeStep, PTL DEF Spec

-----------------------------------------------------------------------------
(* The failover. *)

\* Until the relay starts, and where it never will, no text of the primary has
\* been taken.
NoTextYet ==
  fpc \in {"idle", "primary", "peek", "fallback", "given", "failed"} =>
    \A i \in DOMAIN got[Primary] : got[Primary][i] # Text

\* The fallback is asked by the call, and then there is no relay.
FallbackUnasked ==
  fpc \notin {"fallback", "given", "failed"} => pc[Fallback] = "idle"

\* An error is why a call has failed, and the primary's call has succeeded
\* before its stream is read.
PrimaryAsked ==
  /\ \A c \in Clients : failure[c] # None => pc[c] = "failed"
  /\ fpc = "peek" => Opened(Primary)
  /\ fpc \notin {"idle", "primary"}
       => Opened(Primary) \/ pc[Primary] = "failed"

FailoverInv == NoTextYet /\ FallbackUnasked /\ PrimaryAsked /\ ClientErrorStays

\* Before the call nothing has been asked.
LEMMA FailoverInit == Init => FailoverInv
  BY TwoClients, StreamAssumption
     DEF Init, StreamInit, FailoverInv, NoTextYet, FallbackUnasked,
         PrimaryAsked, ClientErrorStays

\* Every step keeps the invariant of the failover.
LEMMA FailoverStep == TypeOK /\ FailoverInv /\ [Next]_vars => FailoverInv'
<1> SUFFICES ASSUME TypeOK, FailoverInv, [Next]_vars PROVE FailoverInv'
  OBVIOUS
<1> USE TypeOK, FailoverInv, TwoClients
<1>1. ASSUME NEW c \in Clients, RequestFails(c), UNCHANGED callerVars
     PROVE  FailoverInv'
  BY <1>1
     DEF RequestFails, Class, AttemptLeft, Fail, NoAttempt, FailoverInv,
         NoTextYet,
         FallbackUnasked, PrimaryAsked, ClientErrorStays, Opened, TypeOK,
         CallTypes
<1>2. ASSUME NEW c \in Clients, RequestRefused(c), UNCHANGED callerVars
     PROVE  FailoverInv'
  BY <1>2
     DEF RequestRefused, Class, Fail, NoAttempt, FailoverInv, NoTextYet,
         FallbackUnasked, PrimaryAsked, ClientErrorStays, Opened, TypeOK,
         CallTypes
<1>3. ASSUME NEW c \in Clients, RequestCancelled(c), UNCHANGED callerVars
     PROVE  FailoverInv'
  BY <1>3
     DEF RequestCancelled, Fail, NoAttempt, FailoverInv, NoTextYet,
         FallbackUnasked, PrimaryAsked, ClientErrorStays, Opened, TypeOK,
         CallTypes
<1>4. ASSUME NEW c \in Clients, Retry(c), UNCHANGED callerVars
     PROVE  FailoverInv'
  BY <1>4
     DEF Retry, FailoverInv, NoTextYet, FallbackUnasked, PrimaryAsked,
         ClientErrorStays, Opened, TypeOK, CallTypes
<1>5. ASSUME NEW c \in Clients, Respond(c), UNCHANGED callerVars
     PROVE  FailoverInv'
  BY <1>5
     DEF Respond, NoAttempt, FailoverInv, NoTextYet, FallbackUnasked,
         PrimaryAsked, ClientErrorStays, Opened, TypeOK, CallTypes
<1>6. ASSUME NEW c \in Clients, Take(c), UNCHANGED callerVars
     PROVE  FailoverInv'
  BY <1>6
     DEF Take, FailoverInv, NoTextYet, FallbackUnasked, PrimaryAsked,
         ClientErrorStays, Opened, TypeOK, CallTypes
<1>7. ASSUME NEW c \in Clients, IdleTimeout(c), UNCHANGED callerVars
     PROVE  FailoverInv'
  BY <1>7
     DEF IdleTimeout, FailoverInv, NoTextYet, FallbackUnasked, PrimaryAsked,
         ClientErrorStays, Opened, TypeOK, CallTypes
<1>8. ASSUME NEW c \in Clients, SelectCancelled(c), UNCHANGED callerVars
     PROVE  FailoverInv'
  BY <1>8
     DEF SelectCancelled, FailoverInv, NoTextYet, FallbackUnasked,
         PrimaryAsked, ClientErrorStays, Opened, TypeOK, CallTypes
<1>9. ASSUME NEW c \in Clients, ReaderGone(c), UNCHANGED callerVars
     PROVE  FailoverInv'
  BY <1>9
     DEF ReaderGone, FailoverInv, NoTextYet, FallbackUnasked, PrimaryAsked,
         ClientErrorStays, Opened, TypeOK, CallTypes
<1>10. ASSUME NEW c \in Clients, Send(c), UNCHANGED callerVars
     PROVE  FailoverInv'
  BY <1>10
     DEF Send, After, FailoverInv, NoTextYet, FallbackUnasked, PrimaryAsked,
         ClientErrorStays, Opened, TypeOK, CallTypes
<1>11. ASSUME NEW c \in Clients, SendCancelled(c), UNCHANGED callerVars
     PROVE  FailoverInv'
  BY <1>11
     DEF SendCancelled, FailoverInv, NoTextYet, FallbackUnasked,
         PrimaryAsked, ClientErrorStays, Opened, TypeOK, CallTypes
<1>12. ASSUME NEW c \in Clients, CloseStream(c), UNCHANGED callerVars
     PROVE  FailoverInv'
  BY <1>12
     DEF CloseStream, FailoverInv, NoTextYet, FallbackUnasked, PrimaryAsked,
         ClientErrorStays, Opened, TypeOK, CallTypes
<1>13. ASSUME NEW c \in Clients, Watch(c), UNCHANGED callerVars
     PROVE  FailoverInv'
  BY <1>13
     DEF Watch, FailoverInv, NoTextYet, FallbackUnasked, PrimaryAsked,
         ClientErrorStays, Opened, TypeOK, CallTypes
<1>14. ASSUME NEW c \in Clients, NEW e \in Events(c), Read(c, e),
            UNCHANGED callerVars
     PROVE  FailoverInv'
  BY <1>14
     DEF Read, HandOver, FailoverInv, NoTextYet, FallbackUnasked,
         PrimaryAsked, ClientErrorStays, Opened, TypeOK, CallTypes
<1>15. ASSUME NEW c \in Clients, ReadFails(c), UNCHANGED callerVars
     PROVE  FailoverInv'
  BY <1>15
     DEF ReadFails, HandOver, FailoverInv, NoTextYet, FallbackUnasked,
         PrimaryAsked, ClientErrorStays, Opened, TypeOK, CallTypes
<1>16. ASSUME NEW c \in Clients, ReadCancelled(c), UNCHANGED callerVars
     PROVE  FailoverInv'
  BY <1>16
     DEF ReadCancelled, FailoverInv, NoTextYet, FallbackUnasked,
         PrimaryAsked, ClientErrorStays, Opened, TypeOK, CallTypes
<1>17. ASSUME AskPrimary PROVE FailoverInv'
  BY <1>17
     DEF AskPrimary, Start, FailoverInv, NoTextYet, FallbackUnasked,
         PrimaryAsked, ClientErrorStays, Opened, TypeOK, CallTypes
<1>18. ASSUME PrimaryResponds PROVE FailoverInv'
  BY <1>18
     DEF PrimaryResponds, FailoverInv, NoTextYet, FallbackUnasked,
         PrimaryAsked, ClientErrorStays, Opened, TypeOK, CallTypes
<1>19. ASSUME PrimaryFails PROVE FailoverInv'
  BY <1>19
     DEF PrimaryFails, AskFallback, Start, CancelPrimary, FailsOver,
         FailoverInv, NoTextYet, FallbackUnasked, PrimaryAsked,
         ClientErrorStays, Opened, TypeOK, CallTypes
<1>20. ASSUME PeekText PROVE FailoverInv'
  BY <1>20
     DEF PeekText, Receive, FailoverInv, NoTextYet, FallbackUnasked,
         PrimaryAsked, ClientErrorStays, Opened, TypeOK, CallTypes
<1>21. ASSUME PeekNoText PROVE FailoverInv'
  <2>1. /\ Head(ch[Primary]) # Text
        /\ got'[Primary] = Append(got[Primary], Head(ch[Primary]))
    BY <1>21, SMTT(30) DEF PeekNoText, Receive, Text, TypeOK, ChannelTypes
  <2>2. got[Primary] \in Seq(Chunks)
    BY DEF TypeOK, ChannelTypes
  <2>3. NoTextYet'
    BY <1>21, <2>1, <2>2 DEF PeekNoText, FailoverInv, NoTextYet
  <2> QED
    BY <1>21, <2>3, StreamAssumption
       DEF PeekNoText, FailoverInv, FallbackUnasked,
           PrimaryAsked, ClientErrorStays, Opened, TypeOK, CallTypes
<1>22. ASSUME PeekError PROVE FailoverInv'
  <2>1. /\ Head(ch[Primary]) # Text
        /\ got'[Primary] = Append(got[Primary], Head(ch[Primary]))
    BY <1>22, SMTT(30) DEF PeekError, Receive, Text, TypeOK, ChannelTypes
  <2>2. got[Primary] \in Seq(Chunks)
    BY DEF TypeOK, ChannelTypes
  <2>3. NoTextYet'
    BY <1>22, <2>1, <2>2 DEF PeekError, FailoverInv, NoTextYet
  <2> QED
    BY <1>22, <2>3, StreamAssumption
       DEF PeekError, AskFallback, Start, FailoverInv, FallbackUnasked,
           PrimaryAsked, ClientErrorStays, Opened, TypeOK, CallTypes
<1>23. ASSUME PeekClosed PROVE FailoverInv'
  BY <1>23, StreamAssumption
     DEF PeekClosed, Exhausted, AskFallback, Start, CancelPrimary,
         FailoverInv, NoTextYet, FallbackUnasked, PrimaryAsked,
         ClientErrorStays, Opened, TypeOK, CallTypes
<1>24. ASSUME PeekTimesOut PROVE FailoverInv'
  BY <1>24, StreamAssumption
     DEF PeekTimesOut, AskFallback, Start, CancelPrimary, FailoverInv,
         NoTextYet, FallbackUnasked, PrimaryAsked, ClientErrorStays, Opened,
         TypeOK, CallTypes
<1>25. ASSUME PeekCancelled PROVE FailoverInv'
  BY <1>25
     DEF PeekCancelled, CancelPrimary, FailoverInv, NoTextYet,
         FallbackUnasked, PrimaryAsked, ClientErrorStays, Opened, TypeOK,
         CallTypes
<1>26. ASSUME FallbackResponds PROVE FailoverInv'
  BY <1>26
     DEF FallbackResponds, FailoverInv, NoTextYet, FallbackUnasked,
         PrimaryAsked, ClientErrorStays, Opened, TypeOK, CallTypes
<1>27. ASSUME FallbackFails PROVE FailoverInv'
  BY <1>27
     DEF FallbackFails, FailoverInv, NoTextYet, FallbackUnasked,
         PrimaryAsked, ClientErrorStays, Opened, TypeOK, CallTypes
<1>28. ASSUME Forward PROVE FailoverInv'
  BY <1>28
     DEF Forward, FailoverInv, NoTextYet, FallbackUnasked, PrimaryAsked,
         ClientErrorStays, Opened, TypeOK, CallTypes
<1>29. ASSUME RelayTakes PROVE FailoverInv'
  BY <1>29
     DEF RelayTakes, Receive, FailoverInv, NoTextYet, FallbackUnasked,
         PrimaryAsked, ClientErrorStays, Opened, TypeOK, CallTypes
<1>30. ASSUME RelayEnds PROVE FailoverInv'
  BY <1>30
     DEF RelayEnds, FailoverInv, NoTextYet, FallbackUnasked, PrimaryAsked,
         ClientErrorStays, Opened, TypeOK, CallTypes
<1>31. ASSUME RelayCancelled PROVE FailoverInv'
  BY <1>31
     DEF RelayCancelled, FailoverInv, NoTextYet, FallbackUnasked,
         PrimaryAsked, ClientErrorStays, Opened, TypeOK, CallTypes
<1>32. ASSUME RelayReturns PROVE FailoverInv'
  BY <1>32
     DEF RelayReturns, CancelPrimary, FailoverInv, NoTextYet,
         FallbackUnasked, PrimaryAsked, ClientErrorStays, Opened, TypeOK,
         CallTypes
<1>33. ASSUME CloseRelay PROVE FailoverInv'
  BY <1>33
     DEF CloseRelay, FailoverInv, NoTextYet, FallbackUnasked, PrimaryAsked,
         ClientErrorStays, Opened, TypeOK, CallTypes
<1>34. ASSUME ReadRelay PROVE FailoverInv'
  BY <1>34
     DEF ReadRelay, FailoverInv, NoTextYet, FallbackUnasked, PrimaryAsked,
         ClientErrorStays, Opened, TypeOK, CallTypes
<1>35. ASSUME ReadFallback PROVE FailoverInv'
  BY <1>35
     DEF ReadFallback, Receive, FailoverInv, NoTextYet, FallbackUnasked,
         PrimaryAsked, ClientErrorStays, Opened, TypeOK, CallTypes
<1>36. ASSUME CallerCancels PROVE FailoverInv'
  BY <1>36
     DEF CallerCancels, FailoverInv, NoTextYet, FallbackUnasked,
         PrimaryAsked, ClientErrorStays, Opened, TypeOK, CallTypes
<1>37. CASE UNCHANGED vars
  BY <1>37
     DEF vars, FailoverInv, NoTextYet, FallbackUnasked, PrimaryAsked,
         ClientErrorStays, Opened, TypeOK, CallTypes
<1> QED
  BY <1>1, <1>2, <1>3, <1>4, <1>5, <1>6, <1>7, <1>8, <1>9, <1>10, <1>11,
     <1>12, <1>13, <1>14, <1>15, <1>16, <1>17, <1>18, <1>19, <1>20, <1>21,
     <1>22, <1>23, <1>24, <1>25, <1>26, <1>27, <1>28, <1>29, <1>30, <1>31,
     <1>32, <1>33, <1>34, <1>35, <1>36, <1>37
     DEF Next, Call, Relay, CallerReads, StreamStep, Goroutine, Environment,
         ReadLoop

\* Whatever happens, the invariant of the failover holds.
LEMMA FailoverInvariant == Spec => []FailoverInv
  BY TypeCorrect, FailoverInit, FailoverStep, PTL DEF Spec

\* The caller is never given text of both clients: once text of the primary
\* has been taken the fallback is not asked (fallback.go:44-50, 92-119).
THEOREM AtMostOnce == Spec => []OneSource
<1>1. TypeOK /\ FailoverInv => OneSource
  BY DEF TypeOK, RelayTypes, FailoverInv, NoTextYet, FallbackUnasked, OneSource
<1> QED
  BY <1>1, TypeCorrect, FailoverInvariant, PTL

\* A client error of the primary is returned and never leads to a call of the
\* fallback (fallback.go:34-42, 53-60).
THEOREM ClientErrorReturned == Spec => []ClientErrorStays
<1>1. FailoverInv => ClientErrorStays
  BY DEF FailoverInv
<1> QED
  BY <1>1, FailoverInvariant, PTL

-----------------------------------------------------------------------------
(* What a client's stream has put on its channel. *)

\* What client c's stream has made: what its reader has, then its channel.
Produced(c) == got[c] \o ch[c]

HasFinal(s) == \E i \in DOMAIN s : IsFinal(s[i])
FinalLast(s) == \A i \in 1 .. Len(s) - 1 : ~IsFinal(s[i])

\* The server has sent an end of its answer, which is fixed from then on.
Settled(c) == \E i \in DOMAIN sent[c] : sent[c][i].end # "no"

\* The text and the fragment that are on the way.
Todo(c)  == IF todo[c] # <<>> /\ todo[c][1].kind = "text" THEN 1 ELSE 0
ReadText(c) == IF readCh[c] # <<>> /\ readCh[c][1].text THEN 1 ELSE 0
ReadCall(c) == IF readCh[c] # <<>> /\ readCh[c][1].call THEN 1 ELSE 0

\* A client without a response has nothing.
Unused(c) ==
  /\ Produced(c) = <<>> /\ todo[c] = <<>> /\ sent[c] = <<>>
  /\ readCh[c] = <<>> /\ calls[c] = 0 /\ reader[c] = "off"

\* A stream ends with its only final chunk; then, or when its context is done,
\* the goroutine ends too.
OrderInv(c) ==
  /\ ~Opened(c) => Unused(c)
  /\ FinalLast(Produced(c)) /\ FinalLast(todo[c])
  /\ \A i \in 2 .. Len(todo[c]) : IsFinal(todo[c][i])
  /\ pc[c] # "sending" => todo[c] = <<>>
  /\ IF pc[c] \in {"ending", "done"}
       THEN HasFinal(Produced(c)) \/ c \in cancelled
       ELSE ~HasFinal(Produced(c))

\* What the read loop hands over is the last event sent, or its own error; when
\* it has stopped, the goroutine has the end in hand or its context is done.
ReadInv(c) ==
  /\ Len(readCh[c]) <= 1
  /\ readCh[c] # <<>> =>
       \/ readCh[c][1] = Broken
       \/ sent[c] # <<>> /\ readCh[c][1] = sent[c][Len(sent[c])]
  /\ reader[c] = "done" /\ pc[c] \in {"select", "sending"} =>
       \/ c \in cancelled
       \/ readCh[c] # <<>> /\ readCh[c][1].end # "no"
       \/ HasFinal(todo[c])

\* The texts in the stream, about to be sent and in the read loop's channel are
\* those of the answer so far; the fragments accumulated and there likewise; a
\* "done" carries the numbers of the whole answer.
SumInv(c) ==
  /\ pc[c] \in {"select", "sending"} /\ ~HasFinal(todo[c]) =>
       /\ \A i \in DOMAIN sent[c] : sent[c][i].end # "no" =>
            i = Len(sent[c]) /\ readCh[c] = <<sent[c][i]>>
       /\ TextChunks(Produced(c)) + Todo(c) + ReadText(c) = Texts(c)
       /\ calls[c] + ReadCall(c) = Fragments(c)
  /\ \A i \in DOMAIN todo[c] : todo[c][i].kind = "done" =>
       /\ Settled(c) /\ todo[c][i].calls = Fragments(c)
       /\ TextChunks(Produced(c)) + Todo(c) = Texts(c)
  /\ \A i \in DOMAIN Produced(c) : Produced(c)[i].kind = "done" =>
       /\ Settled(c) /\ Produced(c)[i].calls = Fragments(c)
       /\ TextChunks(Produced(c)) = Texts(c)

\* All that is said of a client.
ClientInv(c) == OrderInv(c) /\ ReadInv(c) /\ SumInv(c)

\* The call has not returned a stream; the relay is about to end.
Calling   == {"idle", "primary", "peek", "fallback", "failed"}
Finishing == {"returning", "closing", "closed"}

\* The relay hands on what it has received of the primary; the primary is
\* cancelled before it is done with only when the caller is.
RelayInv ==
  /\ stream = None <=> fpc \in Calling
  /\ stream = Fallback <=> fpc = "given"
  /\ stream = None => seen = <<>> /\ relay = <<>>
  /\ fpc \in {"idle", "primary"} => got[Primary] = <<>>
  /\ fpc \in {"peek", "carrying", "relaying"} => Opened(Primary)
  /\ fpc = "peek" /\ got[Primary] # <<>> => HasFinal(got[Primary])
  /\ fpc = "carrying" => got[Primary] = Append(seen \o relay, carry)
  /\ fpc = "relaying" => got[Primary] = seen \o relay
  /\ fpc \in {"idle", "primary", "peek", "carrying", "relaying"}
       /\ Primary \in cancelled => CallerDone
  /\ fpc = "given" => Opened(Fallback)
  /\ FinalLast(Given)
  /\ fpc \in Finishing => CallerDone \/ HasFinal(Given)
  /\ stream = Primary /\ HasFinal(Given) => Given = Produced(Primary)

AnswerInv == RelayInv /\ \A c \in Clients : ClientInv(c)

-----------------------------------------------------------------------------
(* Counting. *)

\* A set of positions has a size, and one more position counts one more.
LEMMA Positions ==
  ASSUME NEW n \in Nat, NEW S \in SUBSET (1 .. n)
  PROVE  /\ Cardinality(S) \in Nat
         /\ Cardinality(S \cup {n + 1}) = Cardinality(S) + 1
<1>1. IsFiniteSet(S)
  <2>1. IsFiniteSet(1 .. n)
    BY FS_Interval
  <2> QED
    BY <2>1, FS_Subset
<1>2. n + 1 \notin S
  OBVIOUS
<1> QED
  BY <1>1, <1>2, FS_CardinalityType, FS_AddElement

\* The number of texts in a sequence of chunks, and how one more changes it.
LEMMA TextChunksAppend ==
  ASSUME NEW s \in Seq(Chunks), NEW x \in Chunks
  PROVE  /\ TextChunks(s) \in Nat
         /\ TextChunks(Append(s, x))
              = TextChunks(s) + (IF x.kind = "text" THEN 1 ELSE 0)
<1> DEFINE S == {i \in 1 .. Len(s) : s[i].kind = "text"}
           T == {i \in 1 .. Len(s) + 1 : Append(s, x)[i].kind = "text"}
<1>1. Len(s) \in Nat /\ S \in SUBSET (1 .. Len(s))
  OBVIOUS
<1>2. TextChunks(s) = Cardinality(S)
  <2>1. {i \in DOMAIN s : s[i].kind = "text"} = S
    OBVIOUS
  <2> QED
    BY <2>1 DEF TextChunks
<1>3. TextChunks(Append(s, x)) = Cardinality(T)
  <2>1. {i \in DOMAIN Append(s, x) : Append(s, x)[i].kind = "text"} = T
    BY AppendProperties, LenProperties
  <2> QED
    BY <2>1 DEF TextChunks
<1>4. T = IF x.kind = "text" THEN S \cup {Len(s) + 1} ELSE S
  BY AppendProperties
<1> HIDE DEF S, T
<1>5. /\ Cardinality(S) \in Nat
      /\ Cardinality(S \cup {Len(s) + 1}) = Cardinality(S) + 1
  BY <1>1, Positions
<1> QED
  BY <1>2, <1>3, <1>4, <1>5

\* No chunks, no texts.
LEMMA TextChunksEmpty == TextChunks(<<>>) = 0
<1>1. {i \in DOMAIN <<>> : <<>>[i].kind = "text"} = {}
  OBVIOUS
<1> QED
  BY <1>1, FS_EmptySet DEF TextChunks

\* The final chunks of a longer sequence.
LEMMA FinalAppend ==
  ASSUME NEW s \in Seq(Chunks), NEW x \in Chunks
  PROVE  /\ HasFinal(Append(s, x)) <=> HasFinal(s) \/ IsFinal(x)
         /\ ~HasFinal(s) => FinalLast(Append(s, x))
  BY AppendProperties, LenProperties DEF HasFinal, FinalLast

\* Sequences of at most two chunks are equal when their elements are.
LEMMA ShortEqual ==
  ASSUME NEW s \in Seq(Chunks), NEW t \in Seq(Chunks), Len(s) = Len(t)
  PROVE  /\ Len(s) = 0 => s = <<>>
         /\ Len(s) = 1 /\ s[1] = t[1] => s = t
         /\ Len(s) = 2 /\ s[1] = t[1] /\ s[2] = t[2] => s = t
<1>1. Len(s) = 0 => s = <<>>
  BY EmptySeq
<1>2. (\A i \in 1 .. Len(s) : s[i] = t[i]) => s = t
  BY SeqEqual
<1>3. (\A i \in 1 .. 1 : i = 1) /\ (\A i \in 1 .. 2 : i = 1 \/ i = 2)
  OBVIOUS
<1> QED
  BY <1>1, <1>2, <1>3

\* Joining sequences of at most one chunk.
LEMMA ShortConcat ==
  ASSUME NEW x \in Chunks, NEW y \in Chunks
  PROVE  /\ <<x>> \o <<y>> = <<x, y>> /\ <<x>> \o <<>> = <<x>>
         /\ <<>> \o <<y>> = <<y>> /\ <<>> \o <<>> = <<>>
<1>1. /\ <<x>> \in Seq(Chunks) /\ <<y>> \in Seq(Chunks) /\ <<>> \in Seq(Chunks)
  OBVIOUS
<1>2. <<x>> \o <<y>> = <<x, y>>
  <2> DEFINE s == <<x>> \o <<y>>
             t == <<x, y>>
  <2>1. t \in Seq(Chunks) /\ Len(t) = 2 /\ t[1] = x /\ t[2] = y
    OBVIOUS
  <2>2. s \in Seq(Chunks) /\ Len(s) = 2 /\ s[1] = x /\ s[2] = y
    BY <1>1, ConcatProperties
  <2> HIDE DEF s, t
  <2>3. s = t
    BY <2>1, <2>2, ShortEqual
  <2> QED
    BY <2>3 DEF s, t
<1>3. <<x>> \o <<>> = <<x>> /\ <<>> \o <<y>> = <<y>>
  BY <1>1, ConcatEmptySeq
<1>4. <<>> \o <<>> = <<>>
  BY <1>1, ConcatEmptySeq
<1> QED
  BY <1>2, <1>3, <1>4

\* What is left of a short sequence.
LEMMA ShortTail ==
  ASSUME NEW s \in Seq(Chunks), s # <<>>
  PROVE  /\ Len(s) = 1 \/ Len(s) >= 2
         /\ Len(s) = 1 => s = <<s[1]>> /\ Tail(s) = <<>>
         /\ Len(s) = 2 => Tail(s) = <<s[2]>>
         /\ Len(s) >= 2 => Tail(s) # <<>>
<1> DEFINE t == Tail(s)
<1>1. /\ Len(s) \in Nat \ {0} /\ t \in Seq(Chunks) /\ Len(t) = Len(s) - 1
      /\ \A i \in 1 .. Len(t) : t[i] = s[i + 1]
  BY EmptySeq, HeadTailProperties
<1> HIDE DEF t
<1>2. ASSUME Len(s) = 1
      PROVE  s = <<s[1]>> /\ t = <<>>
  <2>1. s[1] \in Chunks
    BY <1>2, ElementOfSeq
  <2>2. <<s[1]>> \in Seq(Chunks) /\ Len(<<s[1]>>) = 1 /\ <<s[1]>>[1] = s[1]
    BY <2>1
  <2>3. s = <<s[1]>>
    BY <1>2, <2>2, ShortEqual
  <2>4. t = <<>>
    BY <1>1, <1>2, ShortEqual
  <2> QED
    BY <2>3, <2>4
<1>3. ASSUME Len(s) = 2
      PROVE  t = <<s[2]>>
  <2>1. s[2] \in Chunks
    BY <1>3, ElementOfSeq
  <2>2. /\ <<s[2]>> \in Seq(Chunks) /\ Len(<<s[2]>>) = 1
        /\ <<s[2]>>[1] = s[2]
    BY <2>1
  <2>3. Len(t) = 1 /\ t[1] = s[2]
    BY <1>1, <1>3
  <2> QED
    BY <1>1, <2>2, <2>3, ShortEqual
<1>4. Len(s) >= 2 => t # <<>>
  BY <1>1, EmptySeq
<1> QED
  BY <1>1, <1>2, <1>3, <1>4 DEF t
\* A chunk moved from the front of one sequence to the end of another leaves
\* their concatenation as it is; one added to the second is added to it.
LEMMA ConcatMoves ==
  ASSUME NEW s \in Seq(Chunks), NEW t \in Seq(Chunks), NEW x \in Chunks
  PROVE  /\ t # <<>> => Append(s, Head(t)) \o Tail(t) = s \o t
         /\ s \o Append(t, x) = Append(s \o t, x)
<1>1. ASSUME t # <<>>
      PROVE  Append(s, Head(t)) \o Tail(t) = s \o t
  <2>1. /\ Head(t) \in Chunks /\ Tail(t) \in Seq(Chunks)
        /\ <<Head(t)>> \in Seq(Chunks) /\ t = <<Head(t)>> \o Tail(t)
    BY <1>1
  <2>2. Append(s, Head(t)) = s \o <<Head(t)>>
    BY <2>1, AppendIsConcat
  <2>3. (s \o <<Head(t)>>) \o Tail(t) = s \o (<<Head(t)>> \o Tail(t))
    BY <2>1, ConcatAssociative
  <2> QED
    BY <2>1, <2>2, <2>3
<1>2. s \o Append(t, x) = Append(s \o t, x)
  <2>1. Append(t, x) = t \o <<x>> /\ Append(s \o t, x) = (s \o t) \o <<x>>
    BY AppendIsConcat, ConcatProperties
  <2>2. (s \o t) \o <<x>> = s \o (t \o <<x>>)
    BY ConcatAssociative
  <2> QED
    BY <2>1, <2>2
<1> QED
  BY <1>1, <1>2

\* What is received moves from the channel to its reader: the stream is the
\* same.
LEMMA ReceiveProduced ==
  ASSUME TypeOK, NEW c \in Clients, Receive(c), NEW d \in Clients
  PROVE  Produced(d)' = Produced(d)
<1>1. ch[c] \in Seq(Chunks) /\ got[c] \in Seq(Chunks) /\ ch[c] # <<>>
  BY DEF Receive, TypeOK, ChannelTypes
<1>2. CASE d = c
  <2>1. Append(got[c], Head(ch[c])) \o Tail(ch[c]) = got[c] \o ch[c]
    BY <1>1, ConcatMoves, ChunkValues
  <2> QED
    BY <1>2, <2>1 DEF Receive, Produced, TypeOK, ChannelTypes
<1>3. CASE d # c
  BY <1>3 DEF Receive, Produced, TypeOK, ChannelTypes
<1> QED
  BY <1>2, <1>3

\* What is put on the channel is put at the end of the stream.
LEMMA AppendProduced ==
  ASSUME TypeOK, NEW c \in Clients, NEW x \in Chunks, NEW d \in Clients,
         ch' = [ch EXCEPT ![c] = Append(@, x)], UNCHANGED got
  PROVE  Produced(d)' = IF d = c THEN Append(Produced(c), x) ELSE Produced(d)
<1>1. ch[c] \in Seq(Chunks) /\ got[c] \in Seq(Chunks) /\ <<x>> \in Seq(Chunks)
  BY DEF TypeOK, ChannelTypes
<1>2. CASE d = c
  <2>1. got[c] \o Append(ch[c], x) = Append(got[c] \o ch[c], x)
    BY <1>1, ConcatMoves
  <2> QED
    BY <1>2, <2>1 DEF Produced, TypeOK, ChannelTypes
<1>3. CASE d # c
  BY <1>3 DEF Produced, TypeOK, ChannelTypes
<1> QED
  BY <1>2, <1>3

\* A stream is a sequence of chunks.
LEMMA ProducedType ==
  ASSUME TypeOK, NEW c \in Clients
  PROVE  Produced(c) \in Seq(Chunks)
  BY ConcatProperties DEF Produced, TypeOK, ChannelTypes

\* The answer of a server grows with every event until the first end.
LEMMA AnswerGrows ==
  ASSUME TypeOK, NEW c \in Clients, NEW e \in AllEvents,
         sent' = [sent EXCEPT ![c] = Append(@, e)], NEW d \in Clients
  PROVE  /\ Texts(d) \in Nat /\ Fragments(d) \in Nat
         /\ Settled(c)' <=> Settled(c) \/ e.end # "no"
         /\ d # c => Texts(d)' = Texts(d) /\ Fragments(d)' = Fragments(d)
         /\ Settled(c) => Texts(c)' = Texts(c) /\ Fragments(c)' = Fragments(c)
         /\ ~Settled(c) =>
              /\ Texts(c)' = Texts(c) + (IF e.text THEN 1 ELSE 0)
              /\ Fragments(c)' = Fragments(c) + (IF e.call THEN 1 ELSE 0)
<1> DEFINE n == Len(sent[c])
           s == sent[c]
<1>1. /\ s \in Seq(AllEvents) /\ n \in Nat /\ sent'[c] = Append(s, e)
      /\ Append(s, e) \in Seq(AllEvents) /\ Len(Append(s, e)) = n + 1
      /\ \A i \in 1 .. n : Append(s, e)[i] = s[i]
      /\ Append(s, e)[n + 1] = e
  BY AppendProperties DEF TypeOK, ChannelTypes
<1>2. \A b \in Clients : b # c => sent'[b] = sent[b]
  BY DEF TypeOK, ChannelTypes
<1>3. Texts(d) \in Nat /\ Fragments(d) \in Nat
  <2>1. sent[d] \in Seq(AllEvents) /\ Len(sent[d]) \in Nat
    BY DEF TypeOK, ChannelTypes
  <2>2. Answer(d) \in SUBSET (1 .. Len(sent[d]))
    BY <2>1 DEF Answer
  <2> QED
    BY <2>1, <2>2, Positions DEF Texts, Fragments
<1>4. Settled(c)' <=> Settled(c) \/ e.end # "no"
  BY <1>1, SMTT(30) DEF Settled
<1>5. d # c => Texts(d)' = Texts(d) /\ Fragments(d)' = Fragments(d)
  BY <1>2 DEF Texts, Fragments, Answer
<1>6. ASSUME Settled(c)
      PROVE  Texts(c)' = Texts(c) /\ Fragments(c)' = Fragments(c)
  <2>1. Answer(c)' = Answer(c)
    <3>1. PICK k \in 1 .. n : s[k].end # "no"
      BY <1>1, <1>6 DEF Settled
    <3>2. Answer(c) = {i \in 1 .. n : \A j \in 1 .. i - 1 : s[j].end = "no"}
      BY <1>1 DEF Answer
    <3>3. Answer(c)' = {i \in 1 .. n + 1 :
                          \A j \in 1 .. i - 1 : Append(s, e)[j].end = "no"}
      BY <1>1 DEF Answer
    <3>4. \A i \in 1 .. n + 1 :
            (\A j \in 1 .. i - 1 : Append(s, e)[j].end = "no")
              <=> i # n + 1 /\ (\A j \in 1 .. i - 1 : s[j].end = "no")
      BY <1>1, <3>1
    <3> QED
      BY <1>1, <3>2, <3>3, <3>4
  <2>2. /\ Answer(c) \subseteq 1 .. n
        /\ \A i \in Answer(c) : sent'[c][i] = sent[c][i]
    BY <1>1 DEF Answer
  <2>3. {i \in Answer(c)' : sent'[c][i].text} = {i \in Answer(c) : s[i].text}
    BY <2>1, <2>2
  <2>4. {i \in Answer(c)' : sent'[c][i].call} = {i \in Answer(c) : s[i].call}
    BY <2>1, <2>2
  <2> QED
    BY <2>3, <2>4 DEF Texts, Fragments
<1>7. ASSUME ~Settled(c)
      PROVE  /\ Texts(c)' = Texts(c) + (IF e.text THEN 1 ELSE 0)
             /\ Fragments(c)' = Fragments(c) + (IF e.call THEN 1 ELSE 0)
  <2> DEFINE T == {i \in Answer(c) : s[i].text}
             F == {i \in Answer(c) : s[i].call}
             T2 == {i \in Answer(c)' : sent'[c][i].text}
             F2 == {i \in Answer(c)' : sent'[c][i].call}
  <2>1. Answer(c) = 1 .. n /\ Answer(c)' = 1 .. n + 1
    BY <1>1, <1>7 DEF Answer, Settled
  <2>2. T \in SUBSET (1 .. n) /\ F \in SUBSET (1 .. n)
    BY <2>1
  <2>3. /\ e.text => T2 = T \cup {n + 1}
        /\ ~e.text => T2 = T
    BY <1>1, <2>1
  <2>4. /\ e.call => F2 = F \cup {n + 1}
        /\ ~e.call => F2 = F
    BY <1>1, <2>1
  <2>5. Texts(c) = Cardinality(T) /\ Fragments(c) = Cardinality(F)
    BY DEF Texts, Fragments
  <2>6. Texts(c)' = Cardinality(T2)
    BY DEF Texts
  <2>7. Fragments(c)' = Cardinality(F2)
    BY DEF Fragments
  <2> HIDE DEF T, F, T2, F2
  <2>8. /\ Cardinality(T \cup {n + 1}) = Cardinality(T) + 1
        /\ Cardinality(F \cup {n + 1}) = Cardinality(F) + 1
        /\ Cardinality(T) \in Nat /\ Cardinality(F) \in Nat
    BY <1>1, <2>2, Positions
  <2>9. Texts(c)' = Texts(c) + (IF e.text THEN 1 ELSE 0)
    <3>1. CASE e.text
      BY <2>3, <2>5, <2>6, <2>8, <3>1
    <3>2. CASE ~e.text
      BY <2>3, <2>5, <2>6, <2>8, <3>2
    <3> QED
      BY <3>1, <3>2
  <2>10. Fragments(c)' = Fragments(c) + (IF e.call THEN 1 ELSE 0)
    <3>1. CASE e.call
      BY <2>4, <2>5, <2>7, <2>8, <3>1
    <3>2. CASE ~e.call
      BY <2>4, <2>5, <2>7, <2>8, <3>2
    <3> QED
      BY <3>1, <3>2
  <2> QED
    BY <2>9, <2>10
<1> QED
  BY <1>3, <1>4, <1>5, <1>6, <1>7

-----------------------------------------------------------------------------
(* One step of a client. *)

\* Nothing of client d changes but that it may be asked and its context may
\* end.
Untouched(d) ==
  /\ pc'[d] = pc[d] \/ (pc[d] = "idle" /\ pc'[d] = "trying")
  /\ reader'[d] = reader[d] /\ readCh'[d] = readCh[d]
  /\ calls'[d] = calls[d] /\ todo'[d] = todo[d] /\ sent'[d] = sent[d]
  /\ Produced(d)' = Produced(d)
  /\ d \in cancelled => d \in cancelled'

\* What a client has made does not depend on the other client.
LEMMA UntouchedKeeps ==
  ASSUME NEW d \in Clients, ClientInv(d), Untouched(d)
  PROVE  ClientInv(d)'
<1>1. /\ Todo(d)' = Todo(d) /\ ReadText(d)' = ReadText(d)
      /\ ReadCall(d)' = ReadCall(d) /\ Texts(d)' = Texts(d)
      /\ Fragments(d)' = Fragments(d) /\ Settled(d)' = Settled(d)
  BY DEF Untouched, Todo, ReadText, ReadCall, Texts, Fragments, Answer, Settled
<1>2. OrderInv(d)'
  BY DEF Untouched, ClientInv, OrderInv, Unused, Opened
<1>3. ReadInv(d)'
  BY DEF Untouched, ClientInv, ReadInv
<1>4. SumInv(d)'
  BY <1>1 DEF Untouched, ClientInv, SumInv
<1> QED
  BY <1>2, <1>3, <1>4 DEF ClientInv

\* A server that has sent nothing has answered nothing.
LEMMA NothingSent ==
  ASSUME NEW c \in Clients, sent[c] = <<>>
  PROVE  Texts(c) = 0 /\ Fragments(c) = 0 /\ ~Settled(c)
<1>1. Answer(c) = {}
  BY DEF Answer
<1>2. /\ {i \in Answer(c) : sent[c][i].text} = {}
      /\ {i \in Answer(c) : sent[c][i].call} = {}
  BY <1>1
<1>3. ~Settled(c)
  BY DEF Settled
<1>4. Texts(c) = 0
  BY <1>2, FS_EmptySet DEF Texts
<1>5. Fragments(c) = 0
  BY <1>2, FS_EmptySet DEF Fragments
<1> QED
  BY <1>3, <1>4, <1>5

\* The numbers of the answer do not change while nothing is read.
LEMMA SameAnswer ==
  ASSUME NEW c \in Clients, sent'[c] = sent[c]
  PROVE  Texts(c)' = Texts(c) /\ Fragments(c)' = Fragments(c)
         /\ Settled(c)' = Settled(c)
  BY DEF Texts, Fragments, Answer, Settled

\* The request: nothing has been received.
LEMMA RequestKeeps ==
  ASSUME TypeOK, NEW c \in Clients, ClientInv(c),
         \/ RequestFails(c) \/ RequestRefused(c) \/ RequestCancelled(c)
         \/ Retry(c) \/ Respond(c)
  PROVE  ClientInv(c)'
<1>1. /\ pc[c] \in {"trying", "backoff"}
      /\ UNCHANGED <<readCh, chunkVars, got, sent, cancelled>>
      /\ \/ pc'[c] \in {"trying", "backoff", "failed"} /\ reader'[c] = reader[c]
         \/ pc'[c] = "select" /\ reader'[c] = "reading"
  <2>1. CASE RequestFails(c)
    BY <2>1 DEF RequestFails, Fail, TypeOK, CallTypes
  <2>2. CASE RequestRefused(c)
    BY <2>2 DEF RequestRefused, Fail, TypeOK, CallTypes
  <2>3. CASE RequestCancelled(c)
    BY <2>3 DEF RequestCancelled, Fail, TypeOK, CallTypes
  <2>4. CASE Retry(c)
    BY <2>4 DEF Retry, TypeOK, CallTypes
  <2>5. CASE Respond(c)
    BY <2>5 DEF Respond, TypeOK, CallTypes, ChannelTypes
  <2> QED
    BY <2>1, <2>2, <2>3, <2>4, <2>5
<1>2. Unused(c) /\ Produced(c) = <<>>
  BY <1>1 DEF ClientInv, OrderInv, Opened, Unused
<1>3. /\ Produced(c)' = <<>> /\ todo'[c] = <<>> /\ sent'[c] = <<>>
      /\ readCh'[c] = <<>> /\ calls'[c] = 0
      /\ pc'[c] # "select" => reader'[c] = "off"
  <2>1. Produced(c)' = <<>>
    BY <1>1, <1>2 DEF Produced
  <2> QED
    BY <1>1, <1>2, <2>1 DEF Unused
<1>4. ~HasFinal(<<>>) /\ FinalLast(<<>>)
  BY DEF HasFinal, FinalLast
<1>5. OrderInv(c)'
  BY <1>1, <1>3, <1>4 DEF OrderInv, Opened, Unused
<1>6. ReadInv(c)'
  BY <1>1, <1>3 DEF ReadInv
<1>7. SumInv(c)'
  <2>1. Texts(c)' = 0 /\ Fragments(c)' = 0
    BY <1>1, <1>2, NothingSent, SameAnswer DEF Unused
  <2>2. TextChunks(Produced(c)') = 0
    BY <1>3, TextChunksEmpty
  <2> QED
    BY <1>3, <2>1, <2>2 DEF SumInv, Todo, ReadText, ReadCall
<1> QED
  BY <1>5, <1>6, <1>7 DEF ClientInv

\* An event is taken: what it carries moves from the read loop to the chunks
\* that are to be sent.
LEMMA TakeKeeps ==
  ASSUME TypeOK, NEW c \in Clients, ClientInv(c), Take(c)
  PROVE  ClientInv(c)'
<1> DEFINE e == readCh[c][1]
           n == IF e.call THEN calls[c] + 1 ELSE calls[c]
<1>1. /\ pc[c] = "select" /\ readCh[c] # <<>> /\ e = Head(readCh[c])
      /\ calls'[c] = n /\ todo'[c] = ChunksOf(e, n)
      /\ pc'[c] = IF ChunksOf(e, n) = <<>> THEN "select" ELSE "sending"
      /\ readCh'[c] = Tail(readCh[c])
      /\ UNCHANGED <<cancelled, reader, ch, got, sent>>
  BY DEF Take, TypeOK, CallTypes, ChannelTypes
<1>2. /\ readCh[c] = <<e>> /\ readCh'[c] = <<>> /\ e \in AllEvents
      /\ calls[c] \in Nat /\ n \in Nat /\ sent[c] \in Seq(AllEvents)
  BY <1>1 DEF ClientInv, ReadInv, TypeOK, ChannelTypes
<1>3. Produced(c)' = Produced(c) /\ ~HasFinal(Produced(c))
  BY <1>1 DEF Produced, ClientInv, OrderInv
<1>4. FinalLast(Produced(c)) /\ Produced(c) \in Seq(Chunks)
  BY ProducedType DEF ClientInv, OrderInv
<1>5. todo[c] = <<>> /\ ~HasFinal(todo[c]) /\ Todo(c) = 0
  BY <1>1 DEF ClientInv, OrderInv, HasFinal, Todo
<1>6. /\ \A i \in DOMAIN sent[c] : sent[c][i].end # "no" =>
           i = Len(sent[c]) /\ readCh[c] = <<sent[c][i]>>
      /\ TextChunks(Produced(c)) + ReadText(c) = Texts(c)
      /\ calls[c] + ReadCall(c) = Fragments(c)
      /\ TextChunks(Produced(c)) \in Nat
  BY <1>1, <1>4, <1>5, TextChunksAppend, ChunkValues DEF ClientInv, SumInv
<1>7. /\ ReadText(c) = IF e.text THEN 1 ELSE 0
      /\ ReadText(c)' = 0 /\ ReadCall(c)' = 0 /\ n = Fragments(c)
  BY <1>1, <1>2, <1>6, SMTT(30) DEF ReadText, ReadCall
<1>8. /\ Texts(c)' = Texts(c) /\ Fragments(c)' = Fragments(c)
      /\ Settled(c)' = Settled(c)
  BY <1>1, SameAnswer
<1>9. /\ e.end = "error" => todo'[c] = <<Failed>>
      /\ e.end = "no" => todo'[c] = IF e.text THEN <<Text>> ELSE <<>>
      /\ e.end \notin {"no", "error"} =>
           todo'[c] = IF e.text THEN <<Text, Done(n)>> ELSE <<Done(n)>>
  <2>1. /\ <<Text>> \o <<Done(n)>> = <<Text, Done(n)>>
        /\ <<Text>> \o <<>> = <<Text>> /\ <<>> \o <<Done(n)>> = <<Done(n)>>
        /\ <<>> \o <<>> = <<>>
    BY <1>2, ChunkValues, ShortConcat
  <2>2. CASE e.text
    BY <1>1, <2>1, <2>2 DEF ChunksOf
  <2>3. CASE ~e.text
    BY <1>1, <2>1, <2>3 DEF ChunksOf
  <2> QED
    BY <2>2, <2>3
<1>10. IsFinal(Failed) /\ ~IsFinal(Text) /\ IsFinal(Done(n))
  BY DEF IsFinal, Failed, Text, Done
<1>11. /\ FinalLast(todo'[c])
       /\ \A i \in 2 .. Len(todo'[c]) : IsFinal(todo'[c][i])
       /\ HasFinal(todo'[c]) <=> e.end # "no"
  BY <1>9, <1>10, SMTT(30) DEF FinalLast, HasFinal
<1>12. e.end \notin {"no", "error"} => Settled(c)
  <2>1. e # Broken => sent[c] # <<>> /\ e = sent[c][Len(sent[c])]
    BY <1>1 DEF ClientInv, ReadInv
  <2> QED
    BY <1>2, <2>1 DEF Broken, Ends, Settled
<1>13. e.end # "error" => Todo(c)' = IF e.text THEN 1 ELSE 0
  BY <1>9 DEF Todo, Text, Done
<1>14. OrderInv(c)'
  BY <1>1, <1>3, <1>4, <1>11 DEF OrderInv, Opened
<1>15. ReadInv(c)'
  BY <1>1, <1>2, <1>5, <1>11 DEF ClientInv, ReadInv
<1>16. SumInv(c)'
  <2>1. ASSUME ~HasFinal(todo'[c])
        PROVE  /\ \A i \in DOMAIN sent[c] : sent[c][i].end = "no"
               /\ TextChunks(Produced(c)) + Todo(c)' + 0 = Texts(c)
               /\ calls'[c] + 0 = Fragments(c)
    BY <1>1, <1>2, <1>6, <1>7, <1>11, <1>13, <2>1
  <2>2. ASSUME NEW i \in DOMAIN todo'[c], todo'[c][i].kind = "done"
        PROVE  /\ Settled(c) /\ todo'[c][i].calls = Fragments(c)
               /\ TextChunks(Produced(c)) + Todo(c)' = Texts(c)
    <3>1. e.end \notin {"no", "error"}
      BY <1>9, <2>2 DEF Failed, Text
    <3>2. todo'[c][i].calls = n
      BY <1>9, <2>2, <3>1 DEF Text, Done
    <3> QED
      BY <1>6, <1>7, <1>12, <1>13, <3>1, <3>2
  <2>3. \A i \in DOMAIN Produced(c) : Produced(c)[i].kind # "done"
    BY <1>3 DEF HasFinal, IsFinal
  <2> QED
    BY <1>1, <1>3, <1>7, <1>8, <2>1, <2>2, <2>3 DEF SumInv
<1> QED
  BY <1>14, <1>15, <1>16 DEF ClientInv

\* The goroutine stops waiting: with an error to be sent, at the end of its
\* context, or because the read loop is gone.
LEMMA WaitEndsKeeps ==
  ASSUME TypeOK, NEW c \in Clients, ClientInv(c),
         IdleTimeout(c) \/ SelectCancelled(c) \/ ReaderGone(c)
  PROVE  ClientInv(c)'
<1>1. /\ pc[c] = "select" /\ todo[c] = <<>> /\ ~HasFinal(Produced(c))
      /\ ~HasFinal(<<>>) /\ UNCHANGED <<cancelled, reader, readCh, calls, sent>>
  BY DEF IdleTimeout, SelectCancelled, ReaderGone, ClientInv, OrderInv, HasFinal
<1>2. /\ Texts(c)' = Texts(c) /\ Fragments(c)' = Fragments(c)
      /\ Settled(c)' = Settled(c)
  BY <1>1, SameAnswer
<1>3. /\ Failed \in Chunks /\ Failed.kind = "error" /\ IsFinal(Failed)
      /\ Produced(c) \in Seq(Chunks)
  BY ChunkValues, ProducedType DEF Failed, IsFinal
<1>4. CASE IdleTimeout(c)
  <2>1. pc'[c] = "sending" /\ todo'[c] = <<Failed>> /\ Produced(c)' = Produced(c)
    BY <1>4 DEF IdleTimeout, Produced, TypeOK, CallTypes, ChannelTypes
  <2>2. HasFinal(<<Failed>>) /\ FinalLast(<<Failed>>)
    BY <1>3 DEF HasFinal, FinalLast
  <2>3. OrderInv(c)'
    BY <1>1, <2>1, <2>2 DEF ClientInv, OrderInv, Opened
  <2>4. ReadInv(c)'
    BY <1>1, <2>1, <2>2 DEF ClientInv, ReadInv
  <2>5. SumInv(c)'
    BY <1>1, <1>2, <1>3, <2>1, <2>2 DEF ClientInv, SumInv, HasFinal, IsFinal
  <2> QED
    BY <2>3, <2>4, <2>5 DEF ClientInv
<1>5. ASSUME pc'[c] = "ending", todo'[c] = <<>>, c \in cancelled,
             FinalLast(Produced(c)'),
             \A i \in DOMAIN Produced(c)' : Produced(c)'[i].kind # "done"
      PROVE  ClientInv(c)'
  <2>1. OrderInv(c)'
    BY <1>1, <1>5 DEF OrderInv, Opened, FinalLast
  <2>2. ReadInv(c)'
    BY <1>1, <1>5 DEF ClientInv, ReadInv
  <2>3. SumInv(c)'
    BY <1>5 DEF SumInv
  <2> QED
    BY <2>1, <2>2, <2>3 DEF ClientInv
<1>6. \A i \in DOMAIN Produced(c) : Produced(c)[i].kind # "done"
  BY <1>1 DEF HasFinal, IsFinal
<1>7. CASE UNCHANGED <<ch, got>> /\ pc'[c] = "ending" /\ todo'[c] = <<>>
           /\ c \in cancelled
  <2>1. Produced(c)' = Produced(c)
    BY <1>7 DEF Produced
  <2> QED
    BY <1>5, <1>6, <1>7, <2>1 DEF ClientInv, OrderInv
<1>8. CASE SelectCancelled(c)
  <2>1. /\ pc'[c] = "ending" /\ todo'[c] = <<>> /\ c \in cancelled
        /\ UNCHANGED got
        /\ ch' = [ch EXCEPT ![c] = Append(@, Failed)] \/ UNCHANGED ch
    BY <1>1, <1>8 DEF SelectCancelled, TypeOK, CallTypes
  <2>2. CASE ch' = [ch EXCEPT ![c] = Append(@, Failed)]
    <3>1. Produced(c)' = Append(Produced(c), Failed)
      BY <1>3, <2>1, <2>2, AppendProduced
    <3>2. FinalLast(Append(Produced(c), Failed))
      BY <1>1, <1>3, FinalAppend
    <3>3. \A i \in DOMAIN Append(Produced(c), Failed) :
            Append(Produced(c), Failed)[i].kind # "done"
      BY <1>3, <1>6, AppendProperties, LenProperties
    <3> QED
      BY <1>5, <2>1, <3>1, <3>2, <3>3
  <2> QED
    BY <1>7, <2>1, <2>2
<1>9. CASE ReaderGone(c)
  <2>1. pc'[c] = "ending" /\ todo'[c] = <<>> /\ UNCHANGED <<ch, got>>
    BY <1>1, <1>9 DEF ReaderGone, TypeOK, CallTypes
  <2>2. c \in cancelled
    BY <1>1, <1>9 DEF ReaderGone, ClientInv, ReadInv
  <2> QED
    BY <1>7, <2>1, <2>2
<1> QED
  BY <1>4, <1>8, <1>9

\* A chunk is put on the channel.
LEMMA SendKeeps ==
  ASSUME TypeOK, NEW c \in Clients, ClientInv(c), Send(c)
  PROVE  ClientInv(c)'
<1> DEFINE x == Head(todo[c])
           P == Produced(c)
<1>1. /\ pc[c] = "sending" /\ todo[c] # <<>> /\ todo[c] \in Seq(Chunks)
      /\ x \in Chunks /\ x = todo[c][1] /\ todo'[c] = Tail(todo[c])
      /\ pc'[c] = After(x, Tail(todo[c]))
      /\ UNCHANGED <<cancelled, reader, readCh, calls, sent, got>>
      /\ ch' = [ch EXCEPT ![c] = Append(@, x)]
  BY DEF Send, TypeOK, CallTypes, ChannelTypes
<1>2. P \in Seq(Chunks) /\ Produced(c)' = Append(P, x)
  BY <1>1, ProducedType, AppendProduced
<1>3. /\ FinalLast(P) /\ ~HasFinal(P) /\ FinalLast(todo[c])
      /\ \A i \in 2 .. Len(todo[c]) : IsFinal(todo[c][i])
  BY <1>1 DEF ClientInv, OrderInv
<1> HIDE DEF P, x
<1>4. /\ FinalLast(Append(P, x)) /\ (HasFinal(Append(P, x)) <=> IsFinal(x))
      /\ TextChunks(P) \in Nat
      /\ TextChunks(Append(P, x))
           = TextChunks(P) + (IF x.kind = "text" THEN 1 ELSE 0)
  BY <1>1, <1>2, <1>3, FinalAppend, TextChunksAppend
<1>5. /\ Texts(c)' = Texts(c) /\ Fragments(c)' = Fragments(c)
      /\ Settled(c)' = Settled(c)
      /\ ReadText(c)' = ReadText(c) /\ ReadCall(c)' = ReadCall(c)
  BY <1>1, SameAnswer DEF ReadText, ReadCall
<1>6. Todo(c) = IF x.kind = "text" THEN 1 ELSE 0
  BY <1>1 DEF Todo
<1>7. CASE Len(todo[c]) = 1
  <2>1. /\ todo'[c] = <<>> /\ todo[c] = <<x>>
        /\ pc'[c] = IF IsFinal(x) THEN "ending" ELSE "select"
    BY <1>1, <1>7, ShortTail DEF After
  <2>2. Todo(c)' = 0 /\ ~HasFinal(<<>>) /\ FinalLast(<<>>)
        /\ (HasFinal(<<x>>) <=> IsFinal(x))
    BY <2>1 DEF Todo, HasFinal, FinalLast
  <2>3. OrderInv(c)'
    BY <1>2, <1>4, <2>1, <2>2 DEF OrderInv, Opened
  <2>4. ReadInv(c)'
    BY <1>1, <2>1, <2>2 DEF ClientInv, ReadInv
  <2>5. ASSUME ~IsFinal(x)
        PROVE  /\ \A i \in DOMAIN sent[c] : sent[c][i].end # "no" =>
                    i = Len(sent[c]) /\ readCh[c] = <<sent[c][i]>>
               /\ TextChunks(Append(P, x)) + 0 + ReadText(c) = Texts(c)
               /\ calls[c] + ReadCall(c) = Fragments(c)
    BY <1>1, <1>4, <1>6, <2>1, <2>2, <2>5 DEF ClientInv, SumInv, P, ReadText
  <2>6. ASSUME NEW i \in DOMAIN Append(P, x), Append(P, x)[i].kind = "done"
        PROVE  /\ Settled(c) /\ Append(P, x)[i].calls = Fragments(c)
               /\ TextChunks(Append(P, x)) = Texts(c)
    <3>1. Append(P, x)[i] = x
      BY <1>1, <1>2, <1>3, <2>6, AppendProperties, LenProperties
         DEF HasFinal, IsFinal
    <3>2. x = todo[c][1] /\ 1 \in DOMAIN todo[c] /\ x.kind = "done"
      BY <1>1, <2>1, <2>6, <3>1
    <3> QED
      BY <1>4, <1>6, <3>1, <3>2 DEF ClientInv, SumInv, P
  <2>7. SumInv(c)'
    BY <1>1, <1>2, <1>5, <2>1, <2>2, <2>5, <2>6 DEF SumInv
  <2> QED
    BY <2>3, <2>4, <2>7 DEF ClientInv
<1>8. CASE Len(todo[c]) # 1
  <2>1. /\ ~IsFinal(x) /\ x.kind = "text" /\ todo'[c] # <<>>
        /\ pc'[c] = "sending" /\ Len(todo[c]) = 2
        /\ IsFinal(todo[c][2]) /\ todo'[c] = <<todo[c][2]>>
        /\ HasFinal(todo'[c]) /\ FinalLast(todo'[c])
    <3>1. Len(todo[c]) >= 2 /\ 1 \in 1 .. Len(todo[c]) - 1
      BY <1>1, <1>8, ShortTail
    <3>2. ~IsFinal(x) /\ x.kind = "text"
      BY <1>1, <1>3, <3>1 DEF FinalLast, IsFinal
    <3>3. Len(todo[c]) = 2 /\ IsFinal(todo[c][2])
      <4>1. Len(todo[c]) \in Nat
        BY <1>1
      <4>2. IsFinal(todo[c][2])
        BY <1>3, <3>1, <4>1
      <4>3. Len(todo[c]) <= 2
        BY <1>3, <3>1, <4>1, <4>2 DEF FinalLast
      <4>4. \A k \in Nat : k >= 2 /\ k <= 2 => k = 2
        OBVIOUS
      <4>5. Len(todo[c]) = 2
        BY <3>1, <4>1, <4>3, <4>4, Zenon
      <4> QED
        BY <4>2, <4>5
    <3>4. todo'[c] = <<todo[c][2]>> /\ todo'[c] # <<>>
      BY <1>1, <3>3, ShortTail
    <3>5. HasFinal(todo'[c]) /\ FinalLast(todo'[c])
      BY <3>3, <3>4 DEF HasFinal, FinalLast
    <3>6. pc'[c] = "sending"
      BY <1>1, <3>4 DEF After
    <3> QED
      BY <3>2, <3>3, <3>4, <3>5, <3>6
  <2>2. Todo(c)' = 0 /\ Todo(c) = 1
    BY <1>6, <2>1 DEF Todo, IsFinal
  <2>3. OrderInv(c)'
    BY <1>2, <1>4, <2>1 DEF OrderInv, Opened
  <2>4. ReadInv(c)'
    BY <1>1, <2>1 DEF ClientInv, ReadInv
  <2>5. ASSUME NEW i \in DOMAIN todo'[c], todo'[c][i].kind = "done"
        PROVE  /\ Settled(c) /\ todo'[c][i].calls = Fragments(c)
               /\ TextChunks(Append(P, x)) + 0 = Texts(c)
    <3>1. i = 1 /\ todo'[c][i] = todo[c][2] /\ 2 \in DOMAIN todo[c]
      BY <1>1, <2>1, <2>5
    <3> QED
      BY <1>4, <2>1, <2>2, <2>5, <3>1 DEF ClientInv, SumInv, P
  <2>6. \A i \in DOMAIN Append(P, x) : Append(P, x)[i].kind # "done"
    BY <1>4, <2>1 DEF HasFinal, IsFinal
  <2>7. SumInv(c)'
    BY <1>2, <1>5, <2>1, <2>2, <2>5, <2>6 DEF SumInv
  <2> QED
    BY <2>3, <2>4, <2>7 DEF ClientInv
<1> QED
  BY <1>7, <1>8

\* The goroutine gives up or closes its channel; the watcher closes the body.
LEMMA CloseKeeps ==
  ASSUME TypeOK, NEW c \in Clients, ClientInv(c),
         SendCancelled(c) \/ CloseStream(c) \/ Watch(c)
  PROVE  ClientInv(c)'
<1>1. /\ UNCHANGED <<cancelled, reader, readCh, ch, got, sent>>
      /\ \/ /\ pc[c] = "sending" /\ pc'[c] = "ending" /\ c \in cancelled
            /\ todo'[c] = <<>>
         \/ pc[c] = "ending" /\ pc'[c] = "done" /\ todo'[c] = todo[c]
         \/ UNCHANGED <<pc, todo, calls>>
  BY DEF SendCancelled, CloseStream, Watch, TypeOK, CallTypes, ChannelTypes
<1>2. Produced(c)' = Produced(c)
  BY <1>1 DEF Produced
<1>3. CASE UNCHANGED <<pc, todo, calls>>
  BY <1>1, <1>2, <1>3, UntouchedKeeps DEF Untouched
<1>4. CASE /\ pc'[c] \in {"ending", "done"} /\ todo'[c] = <<>>
           /\ HasFinal(Produced(c)) \/ c \in cancelled
  <2>1. /\ Texts(c)' = Texts(c) /\ Fragments(c)' = Fragments(c)
        /\ Settled(c)' = Settled(c)
    BY <1>1, SameAnswer
  <2>2. OrderInv(c)'
    BY <1>1, <1>2, <1>4 DEF ClientInv, OrderInv, Opened, FinalLast
  <2>3. ReadInv(c)'
    BY <1>1, <1>4 DEF ClientInv, ReadInv
  <2>4. SumInv(c)'
    BY <1>2, <1>4, <2>1 DEF ClientInv, SumInv
  <2> QED
    BY <2>2, <2>3, <2>4 DEF ClientInv
<1> QED
  BY <1>1, <1>3, <1>4 DEF ClientInv, OrderInv

\* The read loop hands over what it has read, or an error, or it stops.
LEMMA ReadKeeps ==
  ASSUME TypeOK, NEW c \in Clients, ClientInv(c),
         \/ \E e \in Events(c) : Read(c, e)
         \/ ReadFails(c) \/ ReadCancelled(c)
  PROVE  ClientInv(c)'
<1>1. /\ reader[c] = "reading"
      /\ UNCHANGED <<pc, cancelled, todo, calls, ch, got>>
  BY DEF Read, ReadFails, ReadCancelled, HandOver
<1>2. Produced(c)' = Produced(c) /\ Todo(c)' = Todo(c)
  BY <1>1 DEF Produced, Todo
<1>3. Opened(c)
  BY <1>1 DEF ClientInv, OrderInv, Unused
<1>4. OrderInv(c)'
  BY <1>1, <1>2, <1>3 DEF ClientInv, OrderInv, Opened
<1>5. CASE ReadCancelled(c)
  <2>1. /\ readCh' = readCh /\ sent' = sent
        /\ c \in cancelled \/ pc[c] = "done"
    BY <1>5 DEF ReadCancelled, CtxDone
  <2>2. /\ Texts(c)' = Texts(c) /\ Fragments(c)' = Fragments(c)
        /\ Settled(c)' = Settled(c)
        /\ ReadText(c)' = ReadText(c) /\ ReadCall(c)' = ReadCall(c)
    BY <2>1, SameAnswer DEF ReadText, ReadCall
  <2>3. ReadInv(c)'
    BY <1>1, <2>1 DEF ClientInv, ReadInv
  <2>4. SumInv(c)'
    BY <1>1, <1>2, <2>1, <2>2 DEF ClientInv, SumInv
  <2> QED
    BY <1>4, <2>3, <2>4 DEF ClientInv
<1>6. ASSUME NEW e \in AllEvents, HandOver(c, e),
             \/ e = Broken /\ sent' = sent
             \/ sent' = [sent EXCEPT ![c] = Append(@, e)]
      PROVE  ClientInv(c)'
  <2>1. /\ readCh[c] = <<>> /\ readCh'[c] = <<e>>
        /\ reader'[c] = "done" => e.end # "no"
        /\ sent[c] \in Seq(AllEvents)
    BY <1>6 DEF HandOver, Eof, Broken, Ends, TypeOK, ChannelTypes
  <2>2. /\ ReadText(c) = 0 /\ ReadCall(c) = 0
        /\ ReadText(c)' = IF e.text THEN 1 ELSE 0
        /\ ReadCall(c)' = IF e.call THEN 1 ELSE 0
    BY <2>1 DEF ReadText, ReadCall
  <2>3. CASE e = Broken /\ sent' = sent
    <3>1. /\ Texts(c)' = Texts(c) /\ Fragments(c)' = Fragments(c)
          /\ Settled(c)' = Settled(c)
      BY <2>3, SameAnswer
    <3>2. ReadText(c)' = 0 /\ ReadCall(c)' = 0
      BY <2>2, <2>3 DEF Broken, Ends
    <3>3. ReadInv(c)'
      BY <1>1, <2>1, <2>3 DEF ClientInv, ReadInv
    <3>4. SumInv(c)'
      BY <1>1, <1>2, <2>1, <2>2, <2>3, <3>1, <3>2 DEF ClientInv, SumInv
    <3> QED
      BY <1>4, <3>3, <3>4 DEF ClientInv
  <2>4. CASE sent' = [sent EXCEPT ![c] = Append(@, e)]
    <3>1. /\ sent'[c] = Append(sent[c], e) /\ sent'[c] # <<>>
          /\ Len(sent'[c]) = Len(sent[c]) + 1 /\ sent'[c][Len(sent'[c])] = e
          /\ \A i \in 1 .. Len(sent[c]) : sent'[c][i] = sent[c][i]
          /\ DOMAIN sent'[c] = 1 .. Len(sent[c]) + 1 /\ Len(sent[c]) \in Nat
          /\ DOMAIN sent[c] = 1 .. Len(sent[c])
      <4>1. sent'[c] = Append(sent[c], e) /\ Append(sent[c], e) \in Seq(AllEvents)
        BY <1>6, <2>1, <2>4, AppendProperties DEF TypeOK, ChannelTypes
      <4>2. /\ Append(sent[c], e) # <<>>
            /\ Len(Append(sent[c], e)) = Len(sent[c]) + 1
            /\ Append(sent[c], e)[Len(sent[c]) + 1] = e
            /\ \A i \in 1 .. Len(sent[c]) : Append(sent[c], e)[i] = sent[c][i]
        BY <1>6, <2>1, AppendProperties
      <4>3. /\ DOMAIN Append(sent[c], e) = 1 .. Len(Append(sent[c], e))
            /\ Len(sent[c]) \in Nat /\ DOMAIN sent[c] = 1 .. Len(sent[c])
        BY <2>1, <4>1, LenProperties
      <4> QED
        BY <4>1, <4>2, <4>3
    <3>2. /\ Texts(c) \in Nat /\ Fragments(c) \in Nat
          /\ Settled(c)' <=> Settled(c) \/ e.end # "no"
          /\ Settled(c) => Texts(c)' = Texts(c) /\ Fragments(c)' = Fragments(c)
          /\ ~Settled(c) =>
               /\ Texts(c)' = Texts(c) + (IF e.text THEN 1 ELSE 0)
               /\ Fragments(c)' = Fragments(c) + (IF e.call THEN 1 ELSE 0)
      BY <1>6, <2>4, AnswerGrows
    <3>3. ReadInv(c)'
      BY <1>1, <2>1, <3>1 DEF ClientInv, ReadInv
    <3>4. ASSUME pc[c] \in {"select", "sending"}, ~HasFinal(todo[c])
          PROVE  /\ \A i \in DOMAIN sent'[c] : sent'[c][i].end # "no" =>
                      i = Len(sent'[c]) /\ readCh'[c] = <<sent'[c][i]>>
                 /\ TextChunks(Produced(c)) + Todo(c) + ReadText(c)' = Texts(c)'
                 /\ calls[c] + ReadCall(c)' = Fragments(c)'
      <4>1. ~Settled(c)
        BY <2>1, <3>4 DEF ClientInv, SumInv, Settled
      <4>2. /\ TextChunks(Produced(c)) + Todo(c) + 0 = Texts(c)
            /\ calls[c] + 0 = Fragments(c)
        BY <2>2, <3>4 DEF ClientInv, SumInv
      <4>3. TextChunks(Produced(c)) \in Nat /\ Todo(c) \in Nat /\ calls[c] \in Nat
        BY ProducedType, TextChunksAppend, ChunkValues
           DEF Todo, TypeOK, ChannelTypes
      <4>4. /\ TextChunks(Produced(c)) + Todo(c) + ReadText(c)' = Texts(c)'
            /\ calls[c] + ReadCall(c)' = Fragments(c)'
        BY <2>2, <3>2, <4>1, <4>2, <4>3
      <4>5. \A i \in DOMAIN sent'[c] : sent'[c][i].end # "no" =>
              i = Len(sent'[c]) /\ readCh'[c] = <<sent'[c][i]>>
        BY <2>1, <3>1, <4>1 DEF Settled
      <4> QED
        BY <4>4, <4>5
    <3>5. SumInv(c)'
      BY <1>1, <1>2, <3>2, <3>4 DEF ClientInv, SumInv
    <3> QED
      BY <1>4, <3>3, <3>5 DEF ClientInv
  <2> QED
    BY <1>6, <2>3, <2>4
<1>7. CASE ReadFails(c)
  BY <1>6, <1>7, EventTypes DEF ReadFails
<1>8. ASSUME NEW e \in Events(c), Read(c, e)
      PROVE  ClientInv(c)'
  BY <1>6, <1>8, EventTypes DEF Read
<1> QED
  BY <1>5, <1>7, <1>8

\* Whatever a client does, each of the two keeps its invariant.
LEMMA ClientKeeps ==
  ASSUME TypeOK, NEW c \in Clients, StreamStep(c), NEW d \in Clients,
         ClientInv(d)
  PROVE  ClientInv(d)'
<1>1. CASE d = c
  BY <1>1, RequestKeeps, TakeKeeps, WaitEndsKeeps, SendKeeps, CloseKeeps,
     ReadKeeps DEF StreamStep, Goroutine, Environment, ReadLoop
<1>2. CASE d # c
  <2>1. /\ pc'[d] = pc[d] /\ reader'[d] = reader[d] /\ readCh'[d] = readCh[d]
        /\ calls'[d] = calls[d] /\ todo'[d] = todo[d] /\ sent'[d] = sent[d]
        /\ ch'[d] = ch[d] /\ got'[d] = got[d] /\ UNCHANGED cancelled
    <3>1. CASE Environment(c)
      BY <1>2, <3>1 DEF Environment, RequestFails, RequestRefused, Fail, Retry,
         Respond, Read, HandOver, TypeOK, CallTypes, ChannelTypes
    <3>2. CASE ReadLoop(c) \/ Watch(c)
      BY <1>2, <3>2 DEF ReadLoop, ReadFails, ReadCancelled, HandOver, Watch,
         TypeOK, CallTypes, ChannelTypes
    <3>3. CASE Goroutine(c)
      BY <1>2, <3>3 DEF Goroutine, RequestCancelled, Fail, Take, IdleTimeout,
         SelectCancelled, ReaderGone, Send, SendCancelled, CloseStream, TypeOK,
         CallTypes, ChannelTypes
    <3> QED
      BY <3>1, <3>2, <3>3 DEF StreamStep
  <2> QED
    BY <2>1, UntouchedKeeps DEF Untouched, Produced
<1> QED
  BY <1>1, <1>2

-----------------------------------------------------------------------------
(* One step of the caller or the relay. *)

\* What the steps of the call, the relay and the caller do to the clients:
\* they ask, they receive and they cancel.
LEMMA CallerStep ==
  ASSUME TypeOK, Call \/ Relay \/ CallerReads \/ CallerCancels,
         NEW d \in Clients
  PROVE  Untouched(d)
<1> USE TwoClients
<1>1. /\ UNCHANGED innerVars
      /\ UNCHANGED <<ch, got>> \/ \E c \in Clients : Receive(c)
      /\ pc'[d] = pc[d] \/ (pc[d] = "idle" /\ pc'[d] = "trying")
      /\ d \in cancelled => d \in cancelled'
  <2>1. CASE AskPrimary
    BY <2>1 DEF AskPrimary, Start, TypeOK, CallTypes
  <2>2. CASE PrimaryResponds \/ FallbackResponds \/ FallbackFails
    BY <2>2 DEF PrimaryResponds, FallbackResponds, FallbackFails
  <2>3. CASE PrimaryFails
    BY <2>3 DEF PrimaryFails, AskFallback, Start, CancelPrimary, TypeOK,
       CallTypes
  <2>4. CASE PeekText \/ PeekNoText
    BY <2>4 DEF PeekText, PeekNoText
  <2>5. CASE PeekError \/ PeekClosed \/ PeekTimesOut
    BY <2>5 DEF PeekError, PeekClosed, PeekTimesOut, AskFallback, Start,
       CancelPrimary, TypeOK, CallTypes
  <2>6. CASE PeekCancelled
    BY <2>6 DEF PeekCancelled, CancelPrimary
  <2>7. CASE Relay
    BY <2>7 DEF Relay, Forward, RelayTakes, RelayEnds, RelayCancelled,
       RelayReturns, CloseRelay, CancelPrimary
  <2>8. CASE CallerReads
    BY <2>8 DEF CallerReads, ReadRelay, ReadFallback
  <2>9. CASE CallerCancels
    BY <2>9 DEF CallerCancels
  <2> QED
    BY <2>1, <2>2, <2>3, <2>4, <2>5, <2>6, <2>7, <2>8, <2>9 DEF Call
<1>2. Produced(d)' = Produced(d)
  BY <1>1, ReceiveProduced DEF Produced
<1> QED
  BY <1>1, <1>2 DEF Untouched

\* What one step of a client leaves, and when its stream may grow.
LEMMA StreamShape ==
  ASSUME TypeOK, NEW c \in Clients, StreamStep(c), NEW d \in Clients
  PROVE  /\ UNCHANGED <<got, cancelled>>
         /\ Opened(d) => Opened(d)'
         /\ \/ Produced(d)' = Produced(d)
            \/ /\ pc[d] \in {"select", "sending"} /\ pc'[d] # "done"
               /\ \E x \in Chunks : Produced(d)' = Append(Produced(d), x)
         /\ pc'[d] = "done" => pc[d] \in {"ending", "done"}
         /\ pc[d] = "done" => pc'[d] = "done"
<1>1. /\ UNCHANGED <<got, cancelled>> /\ (Opened(d) => Opened(d)')
      /\ \/ UNCHANGED ch
         \/ /\ pc[c] \in {"select", "sending"} /\ pc'[c] # "done"
            /\ \E x \in Chunks : ch' = [ch EXCEPT ![c] = Append(@, x)]
      /\ pc'[d] = "done" => pc[d] \in {"ending", "done"}
      /\ pc[d] = "done" => pc'[d] = "done"
  <2>1. CASE Environment(c)
    BY <2>1 DEF Environment, RequestFails, RequestRefused, Fail, Retry,
       Respond, Read, Opened, TypeOK, CallTypes
  <2>2. CASE ReadLoop(c) \/ Watch(c)
    BY <2>2 DEF ReadLoop, ReadFails, ReadCancelled, Watch, Opened
  <2>3. CASE RequestCancelled(c) \/ IdleTimeout(c) \/ ReaderGone(c)
             \/ SendCancelled(c) \/ CloseStream(c)
    BY <2>3 DEF RequestCancelled, Fail, IdleTimeout, ReaderGone, SendCancelled,
       CloseStream, Opened, TypeOK, CallTypes
  <2>4. CASE Take(c)
    BY <2>4 DEF Take, Opened, TypeOK, CallTypes
  <2>5. CASE SelectCancelled(c)
    BY <2>5, ChunkValues DEF SelectCancelled, Opened, TypeOK, CallTypes
  <2>6. CASE Send(c)
    <3>1. todo[c] \in Seq(Chunks) /\ todo[c] # <<>>
      BY <2>6 DEF Send, TypeOK, ChannelTypes
    <3>2. Head(todo[c]) \in Chunks
      BY <3>1
    <3> QED
      BY <2>6, <3>2 DEF Send, After, Opened, TypeOK, CallTypes
  <2> QED
    BY <2>1, <2>2, <2>3, <2>4, <2>5, <2>6 DEF StreamStep, Goroutine
<1>2. UNCHANGED ch => Produced(d)' = Produced(d)
  BY <1>1 DEF Produced
<1>3. ASSUME NEW x \in Chunks, ch' = [ch EXCEPT ![c] = Append(@, x)]
      PROVE  Produced(d)' = IF d = c THEN Append(Produced(c), x) ELSE Produced(d)
  BY <1>1, <1>3, AppendProduced
<1> QED
  BY <1>1, <1>2, <1>3

\* Every step keeps what both clients have made.
LEMMA ClientsKeep ==
  ASSUME TypeOK, [Next]_vars, NEW d \in Clients, ClientInv(d)
  PROVE  ClientInv(d)'
<1>1. CASE \E c \in Clients : StreamStep(c)
  BY <1>1, ClientKeeps
<1>2. CASE Call \/ Relay \/ CallerReads \/ CallerCancels
  BY <1>2, CallerStep, UntouchedKeeps
<1>3. CASE UNCHANGED vars
  BY <1>3, UntouchedKeeps DEF vars, Untouched, Produced
<1> QED
  BY <1>1, <1>2, <1>3 DEF Next

\* The beginning of a sequence of chunks whose end alone is final.
LEMMA FinalPrefix ==
  ASSUME NEW s \in Seq(Chunks), NEW t \in Seq(Chunks), FinalLast(s \o t)
  PROVE  FinalLast(s) /\ (HasFinal(s) => t = <<>> /\ s \o t = s)
<1>1. /\ Len(s \o t) = Len(s) + Len(t) /\ Len(s) \in Nat /\ Len(t) \in Nat
      /\ \A i \in 1 .. Len(s) + Len(t) :
           (s \o t)[i] = IF i <= Len(s) THEN s[i] ELSE t[i - Len(s)]
      /\ DOMAIN s = 1 .. Len(s)
  BY ConcatProperties, LenProperties
<1>2. \A i \in 1 .. Len(s) + Len(t) - 1 : ~IsFinal((s \o t)[i])
  BY <1>1 DEF FinalLast
<1>3. FinalLast(s)
  BY <1>1, <1>2 DEF FinalLast
<1>4. ASSUME HasFinal(s)
      PROVE  t = <<>> /\ s \o t = s
  <2>1. PICK i \in 1 .. Len(s) : IsFinal(s[i])
    BY <1>1, <1>4 DEF HasFinal
  <2>2. IsFinal((s \o t)[i])
    BY <1>1, <2>1
  <2>3. Len(t) = 0
    BY <1>1, <1>2, <2>1, <2>2
  <2> QED
    BY <2>3, EmptySeq, ConcatEmptySeq
<1> QED
  BY <1>3, <1>4

\* Once the last chunk has been received the channel is empty; what has been
\* received has its end last.
LEMMA FinalOfGot ==
  ASSUME TypeOK, NEW c \in Clients, ClientInv(c)
  PROVE  /\ FinalLast(got[c])
         /\ HasFinal(got[c]) => ch[c] = <<>> /\ Produced(c) = got[c]
  BY FinalPrefix DEF Produced, ClientInv, OrderInv, TypeOK, ChannelTypes

\* An empty stream has no end.
LEMMA NoFinal == ~HasFinal(<<>>) /\ FinalLast(<<>>)
  BY DEF HasFinal, FinalLast

\* What the caller is given is a sequence of chunks.
LEMMA GivenType ==
  ASSUME TypeOK
  PROVE  /\ Given = IF stream = Primary THEN seen \o relay
                    ELSE IF stream = Fallback THEN Produced(Fallback) ELSE <<>>
         /\ Given \in Seq(Chunks)
<1>1. /\ seen \in Seq(Chunks) /\ relay \in Seq(Chunks)
      /\ seen \o relay \in Seq(Chunks)
  BY ConcatProperties DEF TypeOK, RelayTypes
<1> QED
  BY <1>1, TwoClients, ProducedType DEF Given, Produced

\* A step of a client keeps the relay's invariant: what ends in the relay has
\* ended in the stream.
LEMMA StreamRelay ==
  ASSUME TypeOK, AnswerInv, NEW c \in Clients, StreamStep(c),
         UNCHANGED callerVars
  PROVE  RelayInv'
<1> USE TwoClients
<1>1. /\ UNCHANGED <<got, cancelled>>
      /\ \A d \in Clients : Opened(d) => Opened(d)'
  BY StreamShape
<1>2. \A d \in Clients : ClientInv(d) /\ ClientInv(d)'
  BY ClientKeeps DEF AnswerInv
<1>3. CallerDone' = CallerDone
  BY <1>1 DEF CallerDone
<1>4. CASE stream = Fallback
  <2>1. Given' = Produced(Fallback)' /\ FinalLast(Produced(Fallback)')
    BY <1>2, <1>4 DEF Given, Produced, ClientInv, OrderInv
  <2>2. FinalLast(Given')
    BY <2>1
  <2> QED
    BY <1>1, <1>3, <1>4, <2>2 DEF AnswerInv, RelayInv, Calling, Finishing
<1>5. CASE stream # Fallback
  <2>1. Given' = Given
    BY <1>5 DEF Given
  <2>2. ASSUME stream = Primary, HasFinal(Given)
        PROVE  Produced(Primary)' = Produced(Primary)
    <3>1. HasFinal(Produced(Primary))
      BY <2>2 DEF AnswerInv, RelayInv
    <3>2. pc[Primary] \in {"ending", "done"}
      BY <1>2, <3>1 DEF ClientInv, OrderInv
    <3> QED
      BY <3>2, StreamShape
  <2> QED
    BY <1>1, <1>3, <1>5, <2>1, <2>2 DEF AnswerInv, RelayInv, Calling, Finishing
<1> QED
  BY <1>4, <1>5

\* A step of the call keeps it: nothing has been relayed yet.
LEMMA CallRelay ==
  ASSUME TypeOK, AnswerInv, Call
  PROVE  RelayInv'
<1> USE TwoClients, NoFinal DEF AnswerInv, RelayInv, Calling, Finishing, CallerDone
<1>1. \A d \in Clients : Untouched(d) /\ ClientInv(d) /\ ClientInv(d)'
  BY CallerStep, UntouchedKeeps
<1>2. stream = None /\ seen = <<>> /\ relay = <<>> /\ fpc \in Calling
  BY DEF Call, AskPrimary, PrimaryResponds, PrimaryFails, PeekText, PeekNoText,
     PeekError, PeekClosed, PeekTimesOut, PeekCancelled, FallbackResponds,
     FallbackFails
<1>3. ASSUME UNCHANGED <<stream, relayVars>>
      PROVE  Given' = <<>>
  BY <1>2, <1>3 DEF Given
<1>4. CASE AskPrimary
  BY <1>2, <1>3, <1>4 DEF AskPrimary
<1>5. CASE PrimaryResponds
  BY <1>2, <1>3, <1>5 DEF PrimaryResponds, Opened
<1>6. CASE PrimaryFails
  BY <1>2, <1>3, <1>6 DEF PrimaryFails, AskFallback
<1>7. CASE PeekText
  <2>1. got[Primary] = <<>>
    BY <1>1, <1>7, FinalOfGot DEF PeekText, Receive
  <2>2. /\ got'[Primary] = Append(<<>>, Head(ch[Primary]))
        /\ carry' = Head(ch[Primary]) /\ seen' = <<>> /\ relay' = <<>>
        /\ stream' = Primary /\ fpc' = "carrying" /\ UNCHANGED <<pc, cancelled>>
    BY <1>2, <1>7, <2>1 DEF PeekText, Receive, TypeOK, ChannelTypes
  <2>3. <<>> \o <<>> = <<>> /\ Given' = <<>>
    BY <2>2 DEF Given
  <2> QED
    BY <1>7, <2>2, <2>3 DEF PeekText, Opened
<1>8. CASE PeekNoText
  <2>1. got'[Primary] = Append(got[Primary], Head(ch[Primary]))
        /\ Head(ch[Primary]).kind = "done" /\ Head(ch[Primary]) \in Chunks
        /\ got[Primary] \in Seq(Chunks)
    BY <1>8, ReceiveTypes DEF PeekNoText, Receive, TypeOK, ChannelTypes
  <2>2. HasFinal(got'[Primary])
    BY <2>1, FinalAppend DEF IsFinal
  <2> QED
    BY <1>2, <1>3, <1>8, <2>2 DEF PeekNoText, Opened
<1>9. CASE PeekError \/ PeekClosed \/ PeekTimesOut
  BY <1>2, <1>3, <1>9 DEF PeekError, PeekClosed, PeekTimesOut, AskFallback
<1>10. CASE PeekCancelled
  BY <1>2, <1>3, <1>10 DEF PeekCancelled
<1>11. CASE FallbackResponds
  <2>1. /\ stream' = Fallback /\ fpc' = "given" /\ Opened(Fallback)'
        /\ Given' = Produced(Fallback)'
    BY <1>11 DEF FallbackResponds, Given, Produced, Opened
  <2>2. FinalLast(Given')
    BY <1>1, <2>1 DEF ClientInv, OrderInv
  <2> QED
    BY <2>1, <2>2
<1>12. CASE FallbackFails
  BY <1>2, <1>3, <1>12 DEF FallbackFails
<1> QED
  BY <1>4, <1>5, <1>6, <1>7, <1>8, <1>9, <1>10, <1>11, <1>12 DEF Call

\* A step of the relay keeps it: the relay is the stream as far as it has been
\* received.
LEMMA RelayRelay ==
  ASSUME TypeOK, AnswerInv, Relay
  PROVE  RelayInv'
<1> USE TwoClients, NoFinal DEF AnswerInv, RelayInv, Calling, Finishing, CallerDone
<1>1. \A d \in Clients :
        /\ ClientInv(d) /\ FinalLast(got[d])
        /\ HasFinal(got[d]) => ch[d] = <<>> /\ Produced(d) = got[d]
  BY FinalOfGot
<1>2. stream = Primary
  <2>1. fpc \notin Calling /\ fpc # "given"
    BY DEF Relay, Forward, RelayTakes, RelayEnds, RelayCancelled,
       RelayReturns, CloseRelay
  <2> QED
    BY <2>1, FallbackAssumption DEF TypeOK, RelayTypes
<1>3. /\ seen \in Seq(Chunks) /\ relay \in Seq(Chunks)
      /\ Given = seen \o relay /\ Given \in Seq(Chunks)
  BY <1>2, GivenType DEF TypeOK, RelayTypes
<1>4. CASE Forward
  <2>1. /\ fpc = "carrying" /\ fpc' = "relaying" /\ carry \in Chunks
        /\ relay' = Append(relay, carry) /\ seen' = seen
        /\ UNCHANGED <<streamVars, stream>>
    BY <1>4 DEF Forward, TypeOK, RelayTypes
  <2>2. Given' = seen \o relay'
    BY <1>2, <2>1 DEF Given
  <2>3. got[Primary] = Given' /\ got'[Primary] = seen' \o relay'
    BY <1>3, <2>1, <2>2, ConcatMoves
  <2>4. Produced(Primary)' = Produced(Primary)
    BY <2>1 DEF Produced
  <2> QED
    BY <1>1, <1>2, <2>1, <2>3, <2>4 DEF Opened
<1>5. CASE RelayTakes
  <2>1. /\ fpc = "relaying" /\ fpc' = "carrying" /\ ch[Primary] # <<>>
        /\ got'[Primary] = Append(got[Primary], Head(ch[Primary]))
        /\ carry' = Head(ch[Primary])
        /\ UNCHANGED <<pc, cancelled, stream, relay, seen>>
    BY <1>5 DEF RelayTakes, Receive, TypeOK, ChannelTypes
  <2>2. got[Primary] = Given /\ ~HasFinal(Given)
    BY <1>1, <1>3, <2>1
  <2>3. Given' = Given
    BY <1>2, <2>1 DEF Given
  <2> QED
    BY <1>2, <1>3, <2>1, <2>2, <2>3 DEF Opened
<1>6. ASSUME fpc' \in Finishing, UNCHANGED <<ch, got, relay, seen, stream>>,
             CallerDone' \/ HasFinal(Given)
      PROVE  RelayInv'
  <2>1. Given' = Given /\ Produced(Primary)' = Produced(Primary)
    BY <1>2, <1>6 DEF Given, Produced
  <2> QED
    BY <1>2, <1>6, <2>1
<1>7. CASE RelayEnds
  <2>1. /\ fpc = "relaying" /\ pc[Primary] = "done" /\ ch[Primary] = <<>>
        /\ fpc' = "returning" /\ UNCHANGED <<streamVars, stream, relayVars>>
    BY <1>7 DEF RelayEnds, Exhausted
  <2>2. HasFinal(Produced(Primary)) \/ Primary \in cancelled
    BY <1>1, <2>1 DEF ClientInv, OrderInv
  <2>3. Produced(Primary) = Given
    BY <1>3, <2>1, ConcatEmptySeq DEF Produced
  <2> QED
    BY <1>6, <2>1, <2>2, <2>3
<1>8. CASE RelayCancelled
  BY <1>6, <1>8 DEF RelayCancelled
<1>9. CASE RelayReturns
  BY <1>6, <1>9 DEF RelayReturns, CancelPrimary
<1>10. CASE CloseRelay
  BY <1>6, <1>10 DEF CloseRelay
<1> QED
  BY <1>4, <1>5, <1>7, <1>8, <1>9, <1>10 DEF Relay

\* The caller takes chunks and cancels; what it has been given stays.
LEMMA ReaderRelay ==
  ASSUME TypeOK, AnswerInv, CallerReads \/ CallerCancels
  PROVE  RelayInv' /\ Given' = Given
<1> USE TwoClients, NoFinal DEF AnswerInv, RelayInv, Calling, Finishing, CallerDone
<1>1. \A d \in Clients : Untouched(d) /\ ClientInv(d) /\ ClientInv(d)'
  BY CallerStep, UntouchedKeeps
<1>2. Produced(Primary)' = Produced(Primary)
      /\ Produced(Fallback)' = Produced(Fallback)
  BY <1>1 DEF Untouched
<1>3. CASE ReadRelay
  <2>1. /\ stream = Primary /\ relay # <<>>
        /\ relay' = Tail(relay) /\ seen' = Append(seen, Head(relay))
        /\ seen \in Seq(Chunks) /\ relay \in Seq(Chunks)
        /\ UNCHANGED <<streamVars, fpc, stream, carry>>
    BY <1>3 DEF ReadRelay, TypeOK, RelayTypes
  <2>2. seen' \o relay' = seen \o relay
    BY <2>1, ConcatMoves, ChunkValues
  <2>3. Given' = Given
    BY <2>1, <2>2 DEF Given
  <2> QED
    BY <1>2, <2>1, <2>2, <2>3 DEF Opened
<1>4. CASE ReadFallback
  <2>1. /\ stream = Fallback /\ got'[Primary] = got[Primary]
        /\ UNCHANGED <<pc, cancelled, fpc, stream, relayVars>>
    BY <1>4 DEF ReadFallback, Receive, TypeOK, ChannelTypes
  <2>2. Given' = Given
    BY <1>2, <2>1 DEF Given, Produced
  <2> QED
    BY <1>2, <2>1, <2>2 DEF Opened
<1>5. CASE CallerCancels
  <2>1. Given' = Given
    BY <1>5 DEF CallerCancels, Given
  <2> QED
    BY <1>2, <1>5, <2>1 DEF CallerCancels, Opened
<1> QED
  BY <1>3, <1>4, <1>5 DEF CallerReads

-----------------------------------------------------------------------------
(* The answer. *)

\* In the beginning no client has made anything.
LEMMA AnswerInit == Init => AnswerInv
<1> SUFFICES ASSUME Init
             PROVE  AnswerInv
  OBVIOUS
<1> USE TwoClients, NoFinal
<1>1. \A c \in Clients : /\ Produced(c) = <<>> /\ pc[c] = "idle"
                         /\ todo[c] = <<>> /\ sent[c] = <<>>
                         /\ readCh[c] = <<>> /\ calls[c] = 0
                         /\ reader[c] = "off" /\ got[c] = <<>>
  BY DEF Init, StreamInit, Produced
<1>2. ASSUME NEW c \in Clients
      PROVE  ClientInv(c)
  <2>1. OrderInv(c)
    BY <1>1 DEF OrderInv, Opened, Unused
  <2>2. ReadInv(c)
    BY <1>1 DEF ReadInv
  <2>3. SumInv(c)
    BY <1>1 DEF SumInv
  <2> QED
    BY <2>1, <2>2, <2>3 DEF ClientInv
<1>3. RelayInv
  BY <1>1 DEF Init, StreamInit, RelayInv, Calling, Finishing, Given, CallerDone
<1> QED
  BY <1>2, <1>3 DEF AnswerInv

\* Every step keeps the answer.
LEMMA AnswerStep == TypeOK /\ AnswerInv /\ [Next]_vars => AnswerInv'
<1> SUFFICES ASSUME TypeOK, AnswerInv, [Next]_vars
             PROVE  AnswerInv'
  OBVIOUS
<1>1. \A c \in Clients : ClientInv(c)'
  BY ClientsKeep DEF AnswerInv
<1>2. RelayInv'
  <2>1. CASE UNCHANGED vars
    <3>1. Given' = Given /\ Produced(Primary)' = Produced(Primary)
      BY <2>1 DEF vars, Given, Produced
    <3> QED
      BY <2>1, <3>1 DEF vars, AnswerInv, RelayInv, CallerDone, Opened
  <2> QED
    BY <2>1, StreamRelay, CallRelay, RelayRelay, ReaderRelay DEF Next
<1> QED
  BY <1>1, <1>2 DEF AnswerInv

\* Whatever happens, the answer is kept in order and complete.
LEMMA AnswerInvariant == Spec => []AnswerInv
  BY TypeCorrect, AnswerInit, AnswerStep, PTL DEF Spec

\* A caller that is told "done" has been given the whole answer of that
\* server, however many events it has sent and whatever the two clients, their
\* timers and the relay did (client.go:320-358, fallback.go:91-120).
THEOREM AnswerComplete == Spec => []DoneIsComplete
<1>1. ASSUME TypeOK, AnswerInv
      PROVE  DoneIsComplete
  <2>1. ASSUME NEW i \in DOMAIN Given, Given[i].kind = "done"
        PROVE  TextChunks(Given) = Texts(stream)
               /\ Given[i].calls = Fragments(stream)
    <3>1. HasFinal(Given)
      BY <2>1 DEF HasFinal, IsFinal
    <3>2. stream \in Clients /\ Given = Produced(stream)
      BY <1>1, <3>1, GivenType, NoFinal, TwoClients
         DEF AnswerInv, RelayInv, TypeOK, RelayTypes
    <3> QED
      BY <1>1, <2>1, <3>2 DEF AnswerInv, ClientInv, SumInv
  <2> QED
    BY <2>1 DEF DoneIsComplete
<1> QED
  BY <1>1, TypeCorrect, AnswerInvariant, PTL

-----------------------------------------------------------------------------
(* The refinement of StreamService. *)

\* The abstract stream has ended when its last chunk has been given.
LEMMA EndedIsFinal ==
  ASSUME TypeOK, FinalLast(Given)
  PROVE  Service!Ended <=> HasFinal(Given)
<1>1. /\ Given \in Seq(Chunks) /\ DOMAIN Given = 1 .. Len(Given)
      /\ Len(Given) \in Nat /\ (Given # <<>> <=> Len(Given) # 0)
      /\ \A i \in DOMAIN Given : Given[i] \in Chunks
  BY GivenType, LenProperties, EmptySeq, ElementOfSeq
<1>2. \A x \in Chunks : IsFinal(x) <=> Service!IsLast(x.kind)
  BY DEF IsFinal, Service!IsLast, Chunks
<1> QED
  BY <1>1, <1>2 DEF Service!Ended, HasFinal, FinalLast

\* A chunk more is a chunk put.
LEMMA AppendIsPut ==
  ASSUME TypeOK, NEW x \in Chunks, Given' = Append(Given, x)
  PROVE  /\ Len(Given') = Len(Given) + 1
         /\ SubSeq(Given', 1, Len(Given)) = Given
<1>1. Given \in Seq(Chunks)
  BY GivenType
<1>2. Len(Append(Given, x)) = Len(Given) + 1
  BY <1>1, AppendProperties
<1>3. SubSeq(Append(Given, x), 1, Len(Given)) = Given
  BY <1>1
<1> QED
  BY <1>2, <1>3

\* A step of a client is a step of the stream its caller holds, or nothing to
\* it.
LEMMA StreamRefines ==
  ASSUME TypeOK, AnswerInv, AnswerInv', NEW c \in Clients, StreamStep(c),
         UNCHANGED callerVars
  PROVE  [Service!Next]_Service!vars
<1> USE TwoClients
<1>1. CallerDone' = CallerDone
  BY StreamShape DEF CallerDone
<1>2. CASE stream # Fallback
  <2>1. Given' = Given /\ LifeOf' = LifeOf
    BY <1>2 DEF Given, LifeOf
  <2> QED
    BY <1>1, <2>1 DEF Service!vars
<1>3. CASE stream = Fallback
  <2>1. /\ Given = Produced(Fallback) /\ Given' = Produced(Fallback)'
        /\ LifeOf = IF pc[Fallback] = "done" THEN "closed" ELSE "open"
        /\ LifeOf' = IF pc'[Fallback] = "done" THEN "closed" ELSE "open"
    <3>1. fpc = "given" /\ fpc' = "given"
      BY <1>3 DEF AnswerInv, RelayInv
    <3> QED
      BY <1>3, <3>1 DEF Given, Produced, LifeOf
  <2>2. Service!Ended <=> HasFinal(Given)
    BY EndedIsFinal DEF AnswerInv, RelayInv
  <2>3. IF pc[Fallback] \in {"ending", "done"}
          THEN HasFinal(Given) \/ CallerDone ELSE ~HasFinal(Given)
    BY <2>1 DEF AnswerInv, ClientInv, OrderInv, CallerDone
  <2>4. CASE Given' = Given
    <3>1. CASE LifeOf' = LifeOf
      BY <1>1, <2>4, <3>1 DEF Service!vars
    <3>2. CASE LifeOf' # LifeOf
      <4>1. pc[Fallback] = "ending" /\ LifeOf = "open" /\ LifeOf' = "closed"
        BY <2>1, <3>2, StreamShape
      <4>2. Service!Close
        BY <1>1, <2>2, <2>3, <2>4, <4>1 DEF Service!Close
      <4> QED
        BY <4>2 DEF Service!Next
    <3> QED
      BY <3>1, <3>2
  <2>5. CASE Given' # Given
    <3>1. /\ pc[Fallback] \in {"select", "sending"} /\ pc'[Fallback] # "done"
          /\ \E x \in Chunks : Given' = Append(Given, x)
      BY <2>1, <2>5, StreamShape
    <3>2. Service!Put
      BY <1>1, <2>1, <2>2, <2>3, <3>1, AppendIsPut DEF Service!Put
    <3> QED
      BY <3>2 DEF Service!Next
  <2> QED
    BY <2>4, <2>5
<1> QED
  BY <1>2, <1>3

\* A step of the call opens the stream, or is nothing to it.
LEMMA CallRefines ==
  ASSUME TypeOK, TypeOK', AnswerInv, AnswerInv', Call
  PROVE  [Service!Next]_Service!vars
<1> USE TwoClients
<1>1. stream = None /\ Given = <<>> /\ LifeOf = "none"
  <2>1. fpc \in Calling
    BY DEF Call, AskPrimary, PrimaryResponds, PrimaryFails, PeekText,
       PeekNoText, PeekError, PeekClosed, PeekTimesOut, PeekCancelled,
       FallbackResponds, FallbackFails, Calling
  <2> QED
    BY <2>1 DEF AnswerInv, RelayInv, Given, LifeOf
<1>2. CallerDone' = CallerDone
  BY DEF Call, AskPrimary, PrimaryResponds, PrimaryFails, PeekText,
     PeekNoText, PeekError, PeekClosed, PeekTimesOut, PeekCancelled,
     FallbackResponds, FallbackFails, AskFallback, CancelPrimary, CallerDone
<1>3. CASE stream' = stream
  <2>1. Given' = <<>> /\ LifeOf' = "none"
    BY <1>1, <1>3 DEF Given, LifeOf
  <2> QED
    BY <1>1, <1>2, <2>1 DEF Service!vars
<1>4. CASE stream' # stream
  <2>1. /\ PeekText \/ FallbackResponds
    BY <1>4 DEF Call, AskPrimary, PrimaryResponds, PrimaryFails, PeekNoText,
       PeekError, PeekClosed, PeekTimesOut, PeekCancelled, FallbackFails,
       AskFallback
  <2>2. /\ FinalLast(Given') /\ (Service!Ended' <=> HasFinal(Given'))
    <3>1. FinalLast(Given')
      BY DEF AnswerInv, RelayInv
    <3>2. (FinalLast(Given) /\ TypeOK => (Service!Ended <=> HasFinal(Given)))'
      BY EndedIsFinal, PTL
    <3> QED
      BY <3>1, <3>2
  <2>3. /\ LifeOf' \in {"open", "closed"}
        /\ LifeOf' = "closed" => HasFinal(Given') \/ CallerDone
    <3>1. CASE PeekText
      BY <3>1 DEF PeekText, LifeOf
    <3>2. CASE FallbackResponds
      <4>1. stream' = Fallback /\ fpc' = "given" /\ pc' = pc
            /\ Given' = Produced(Fallback)'
        BY <3>2 DEF FallbackResponds, Given, Produced
      <4>2. pc'[Fallback] = "done" => HasFinal(Produced(Fallback)') \/ CallerDone'
        BY DEF AnswerInv, ClientInv, OrderInv, CallerDone
      <4> QED
        BY <1>2, <4>1, <4>2 DEF LifeOf
    <3> QED
      BY <2>1, <3>1, <3>2
  <2>4. \A i \in 1 .. Len(Given') - 1 : ~Service!IsLast(Given'[i].kind)
    <3>1. (TypeOK => Given \in Seq(Chunks))'
      BY GivenType, PTL
    <3>2. \A i \in 1 .. Len(Given') - 1 : Given'[i] \in Chunks
      BY <3>1
    <3> QED
      BY <2>2, <3>2 DEF FinalLast, IsFinal, Service!IsLast, Chunks
  <2>5. Service!Open
    BY <1>1, <1>2, <2>2, <2>3, <2>4 DEF Service!Open
  <2> QED
    BY <2>5 DEF Service!Next
<1> QED
  BY <1>3, <1>4

\* A step of the relay puts a chunk or closes the stream, or is nothing to it.
LEMMA RelayRefines ==
  ASSUME TypeOK, AnswerInv, AnswerInv', Relay
  PROVE  [Service!Next]_Service!vars
<1> USE TwoClients
<1>1. CallerDone' = CallerDone /\ stream' = stream
  BY DEF Relay, Forward, RelayTakes, RelayEnds, RelayCancelled, RelayReturns,
     CloseRelay, CancelPrimary, CallerDone
<1>2. stream = Primary /\ fpc \notin Calling
  <2>1. fpc \notin Calling /\ fpc # "given"
    BY DEF Relay, Forward, RelayTakes, RelayEnds, RelayCancelled,
       RelayReturns, CloseRelay, Calling
  <2> QED
    BY <2>1, FallbackAssumption DEF AnswerInv, RelayInv, TypeOK, RelayTypes
<1>3. /\ Given = seen \o relay /\ Given' = seen' \o relay'
      /\ LifeOf = IF fpc = "closed" THEN "closed" ELSE "open"
      /\ LifeOf' = IF fpc' = "closed" THEN "closed" ELSE "open"
  BY <1>1, <1>2 DEF Given, LifeOf
<1>4. Service!Ended <=> HasFinal(Given)
  BY EndedIsFinal DEF AnswerInv, RelayInv
<1>5. CASE Forward
  <2>1. /\ fpc = "carrying" /\ fpc' = "relaying" /\ carry \in Chunks
        /\ relay' = Append(relay, carry) /\ seen' = seen
        /\ seen \in Seq(Chunks) /\ relay \in Seq(Chunks)
    BY <1>5 DEF Forward, TypeOK, RelayTypes
  <2>2. Given' = Append(Given, carry) /\ got[Primary] = Append(Given, carry)
    BY <1>3, <2>1, ConcatMoves DEF AnswerInv, RelayInv
  <2>3. ~HasFinal(Given)
    <3>1. FinalLast(Append(Given, carry)) /\ Given \in Seq(Chunks)
      BY <2>2, FinalOfGot, GivenType DEF AnswerInv
    <3>2. Append(Given, carry) = Given \o <<carry>> /\ <<carry>> \in Seq(Chunks)
      BY <2>1, <3>1, AppendIsConcat
    <3> QED
      BY <3>1, <3>2, FinalPrefix
  <2>4. Service!Put
    BY <1>1, <1>3, <1>4, <2>1, <2>2, <2>3, AppendIsPut DEF Service!Put
  <2> QED
    BY <2>4 DEF Service!Next
<1>6. CASE RelayTakes \/ RelayEnds \/ RelayCancelled \/ RelayReturns
  <2>1. Given' = Given /\ LifeOf' = LifeOf
    BY <1>3, <1>6 DEF RelayTakes, RelayEnds, RelayCancelled, RelayReturns
  <2> QED
    BY <1>1, <2>1 DEF Service!vars
<1>7. CASE CloseRelay
  <2>1. fpc = "closing" /\ fpc' = "closed" /\ Given' = Given
    BY <1>3, <1>7 DEF CloseRelay
  <2>2. HasFinal(Given) \/ CallerDone
    BY <2>1 DEF AnswerInv, RelayInv, Finishing
  <2>3. Service!Close
    BY <1>1, <1>3, <1>4, <2>1, <2>2 DEF Service!Close
  <2> QED
    BY <2>3 DEF Service!Next
<1> QED
  BY <1>5, <1>6, <1>7 DEF Relay

\* The caller changes nothing of the stream but that it may end its context.
LEMMA ReaderRefines ==
  ASSUME TypeOK, AnswerInv, CallerReads \/ CallerCancels
  PROVE  [Service!Next]_Service!vars
<1>1. Given' = Given
  BY ReaderRelay
<1>2. CASE CallerReads
  <2>1. LifeOf' = LifeOf /\ CallerDone' = CallerDone
    BY <1>2 DEF CallerReads, ReadRelay, ReadFallback, LifeOf, CallerDone
  <2> QED
    BY <1>1, <2>1 DEF Service!vars
<1>3. CASE CallerCancels
  <2>1. LifeOf' = LifeOf /\ CallerDone' = TRUE
    BY <1>3, TwoClients DEF CallerCancels, LifeOf, CallerDone
  <2> QED
    BY <1>1, <2>1 DEF Service!Cut, Service!Next
<1> QED
  BY <1>2, <1>3

\* The failover client keeps to what the turn engine relies on: for any
\* servers, attempts and capacities a stream is closed with its last chunk,
\* unless the caller's context is done, and nothing follows that chunk
\* (client.go:270-360, fallback.go:70-145).
THEOREM Refinement == Spec => ImplementsService
<1>1. Init => Service!Init
  BY TwoClients DEF Init, StreamInit, Service!Init, LifeOf, Given, CallerDone
<1>2. ASSUME TypeOK, TypeOK', AnswerInv, AnswerInv', [Next]_vars
      PROVE  [Service!Next]_Service!vars
  <2>1. CASE UNCHANGED vars
    BY <2>1 DEF vars, Service!vars, LifeOf, Given, CallerDone
  <2> QED
    BY <1>2, <2>1, StreamRefines, CallRefines, RelayRefines, ReaderRefines
       DEF Next
<1> QED
  BY <1>1, <1>2, TypeCorrect, AnswerInvariant, PTL
     DEF Spec, ImplementsService, Service!Spec

=============================================================================

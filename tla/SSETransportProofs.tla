------------------------ MODULE SSETransportProofs ------------------------
(***************************************************************************)
(* The safety of SSETransport, for any number of calls and any server, and *)
(* its refinement of RpcService for a server that sends no requests of its *)
(* own.                                                                    *)
(***************************************************************************)
EXTENDS SSETransport, TLAPS

USE ConstantsAssumption
USE DEF Enders, callVars, fieldVars, streamVars, tableVars, serverVars, Go, Step

-----------------------------------------------------------------------------
(* Types. *)

\* The initial state is typed.
LEMMA TypeInit == Init => TypeOK
<1> SUFFICES ASSUME Init PROVE TypeOK
  OBVIOUS
<1>1. out \in Seq(Matchable \cup {Garbage}) /\ pc[Reader] # "sending"
  BY DEF Init
<1> QED
  BY <1>1 DEF Init, TypeOK

\* Every step keeps the types.
LEMMA TypeStep == TypeOK /\ [Next]_vars => TypeOK'
<1> SUFFICES ASSUME TypeOK, [Next]_vars PROVE TypeOK'
  OBVIOUS
<1> USE TypeOK
<1>1. ASSUME GetFails PROVE TypeOK'
  BY <1>1 DEF GetFails, TypeOK, Matchable, Garbage
<1>2. ASSUME GetSucceeds PROVE TypeOK'
  BY <1>2 DEF GetSucceeds, TypeOK, Matchable, Garbage
<1>3. ASSUME EndpointFails PROVE TypeOK'
  BY <1>3 DEF EndpointFails, TypeOK, Matchable, Garbage
<1>4. ASSUME EndpointFound PROVE TypeOK'
  BY <1>4 DEF EndpointFound, TypeOK, Matchable, Garbage
<1>5. ASSUME Initialized PROVE TypeOK'
  BY <1>5 DEF Initialized, TypeOK, Matchable, Garbage
<1>6. ASSUME NotifyFails PROVE TypeOK'
  BY <1>6 DEF NotifyFails, TypeOK, Matchable, Garbage
<1>7. ASSUME ConnectReturns PROVE TypeOK'
  BY <1>7 DEF ConnectReturns, TypeOK, Matchable, Garbage
<1>8. ASSUME NEW s \in Senders, SendRefused(s) PROVE TypeOK'
  BY <1>8 DEF SendRefused, Sending, Return, TypeOK, Matchable, Garbage
<1>9. ASSUME NEW s \in Senders, Register(s) PROVE TypeOK'
  BY <1>9 DEF Register, Sending, TypeOK, Matchable, Garbage
<1>10. ASSUME NEW s \in Senders, Posted(s) PROVE TypeOK'
  BY <1>10 DEF Posted, TypeOK, Matchable, Garbage
<1>11. ASSUME NEW s \in Senders, PostFails(s) PROVE TypeOK'
  BY <1>11 DEF PostFails, Withdraw, Return, TypeOK, Matchable, Garbage
<1>12. ASSUME NEW s \in Senders, SendCancelled(s) PROVE TypeOK'
  BY <1>12 DEF SendCancelled, Withdraw, Return, TypeOK, Matchable, Garbage
<1>13. ASSUME NEW s \in Senders, SendClosed(s) PROVE TypeOK'
  BY <1>13 DEF SendClosed, Withdraw, Return, TypeOK, Matchable, Garbage
<1>14. ASSUME NEW s \in Senders, SendAnswered(s) PROVE TypeOK'
  BY <1>14 DEF SendAnswered, Return, TypeOK, Matchable, Garbage
<1>15. ASSUME NEW c \in Enders, CloseAgain(c) PROVE TypeOK'
  BY <1>15 DEF CloseAgain, MayClose, TypeOK, Matchable, Garbage
<1>16. ASSUME NEW c \in Enders, CloseBegins(c) PROVE TypeOK'
  BY <1>16 DEF CloseBegins, MayClose, Sweep, TypeOK, Matchable, Garbage
<1>17. ASSUME NEW c \in Enders, CloseFinishes(c) PROVE TypeOK'
  BY <1>17 DEF CloseFinishes, TypeOK, Matchable, Garbage
<1>18. ASSUME Match PROVE TypeOK'
  BY <1>18 DEF Match, TakeOut, TypeOK, Matchable, Garbage
<1>19. ASSUME Unmatched PROVE TypeOK'
  BY <1>19 DEF Unmatched, TypeOK, Matchable, Garbage
<1>20. ASSUME Deliver PROVE TypeOK'
  BY <1>20 DEF Deliver, TypeOK, Matchable, Garbage
<1>21. ASSUME GiveUp PROVE TypeOK'
  BY <1>21 DEF GiveUp, TypeOK, Matchable, Garbage
<1>22. ASSUME ReadFails PROVE TypeOK'
  BY <1>22 DEF ReadFails, StreamBroken, Sweep, TypeOK, Matchable, Garbage
<1>23. ASSUME NEW s \in Senders, ServerReceives(s) PROVE TypeOK'
  BY <1>23 DEF ServerReceives, TypeOK, Matchable, Garbage
<1>24. ASSUME NEW s \in Senders, ServerAnswers(s) PROVE TypeOK'
  BY <1>24 DEF ServerAnswers, ServerWrites, TypeOK, Matchable, Garbage
<1>25. ASSUME NEW s \in Senders, ServerAsks(s) PROVE TypeOK'
  BY <1>25 DEF ServerAsks, ServerWrites, TypeOK, Matchable, Garbage
<1>26. ASSUME ServerGarbles PROVE TypeOK'
  BY <1>26 DEF ServerGarbles, ServerWrites, TypeOK, Matchable, Garbage
<1>27. ASSUME ServerEnds PROVE TypeOK'
  BY <1>27 DEF ServerEnds, TypeOK, Matchable, Garbage
<1>28. ASSUME Expire PROVE TypeOK'
  BY <1>28 DEF Expire, TypeOK, Matchable, Garbage
<1>29. ASSUME NEW s \in Senders, Cancel(s) PROVE TypeOK'
  BY <1>29 DEF Cancel, TypeOK, Matchable, Garbage
<1>30. CASE UNCHANGED vars
  BY <1>30 DEF vars, TypeOK, Matchable, Garbage
<1> QED
  BY <1>1, <1>2, <1>3, <1>4, <1>5, <1>6, <1>7, <1>8, <1>9, <1>10, <1>11,
     <1>12, <1>13, <1>14, <1>15, <1>16, <1>17, <1>18, <1>19, <1>20, <1>21,
     <1>22, <1>23, <1>24, <1>25, <1>26, <1>27, <1>28, <1>29, <1>30
     DEF Next, Connect, Wait, Close, ReadLoop, Server

\* The variables of the transport keep their types, whatever the callers and
\* the server do (transport_sse.go:24-58).
THEOREM TypeCorrect == Spec => []TypeOK
  BY TypeInit, TypeStep, PTL DEF Spec

-----------------------------------------------------------------------------
(* The call table. *)

\* A call that has not begun has left no trace.
Fresh ==
  \A s \in Senders : pc[s] = "idle" =>
    /\ s \notin pending /\ ch[s] = None
    /\ ~(pc[Reader] = "sending" /\ held.call = s)

\* What the read loop holds has left the table.
HeldIsOut == pc[Reader] = "sending" => held.call \notin pending

\* Calls are made once the read loop runs, and it ends with a read error or
\* because of a Close.
ReaderStarted ==
  /\ pc[Reader] \in {"idle", "reading", "sending", "closing", "finishing", "done"}
  /\ pc[Connector] \in {"initialize", "notify", "ready"} => pc[Reader] # "idle"
  /\ pc[Reader] # "idle" => connected
  /\ pc[Connector] \in {"idle", "endpoint"} => pc[Reader] = "idle"
  /\ readErr => pc[Reader] \notin {"idle", "reading", "sending"}
  /\ pc[Reader] \in {"closing", "finishing", "done"} => readErr \/ closed
  /\ ctxDone => closed
  /\ \A c \in Enders : pc[c] = "finishing" => closed

\* A call that has been registered will hear, wherever it is.
Served ==
  \A s \in Senders : pc[s] \in {"posting", "waiting"} =>
    \/ ch[s] # None \/ closed
    \/ pc[Reader] = "sending" /\ held.call = s
    \/ pc[Reader] \in {"reading", "sending"} /\ s \in pending

Inv == ChannelsOwned /\ Fresh /\ HeldIsOut /\ ReaderStarted /\ Served

\* Before Connect the table, the channels and the read loop are empty.
LEMMA InvInit == Init => Inv
  BY DEF Init, Inv, ChannelsOwned, Fresh, HeldIsOut, ReaderStarted, Served

\* Every step keeps the invariant of the call table.
LEMMA InvStep == TypeOK /\ Inv /\ [Next]_vars => Inv'
<1> SUFFICES ASSUME TypeOK, Inv, [Next]_vars PROVE Inv'
  OBVIOUS
<1> USE TypeOK, Inv
<1>1. ASSUME GetFails PROVE Inv'
  BY <1>1
     DEF GetFails, Inv, ChannelsOwned, Fresh, HeldIsOut, ReaderStarted,
         Served, TypeOK, Matchable, Garbage
<1>2. ASSUME GetSucceeds PROVE Inv'
  BY <1>2
     DEF GetSucceeds, Inv, ChannelsOwned, Fresh, HeldIsOut, ReaderStarted,
         Served, TypeOK, Matchable, Garbage
<1>3. ASSUME EndpointFails PROVE Inv'
  BY <1>3
     DEF EndpointFails, Inv, ChannelsOwned, Fresh, HeldIsOut, ReaderStarted,
         Served, TypeOK, Matchable, Garbage
<1>4. ASSUME EndpointFound PROVE Inv'
  BY <1>4
     DEF EndpointFound, Inv, ChannelsOwned, Fresh, HeldIsOut, ReaderStarted,
         Served, TypeOK, Matchable, Garbage
<1>5. ASSUME Initialized PROVE Inv'
  BY <1>5
     DEF Initialized, Inv, ChannelsOwned, Fresh, HeldIsOut, ReaderStarted,
         Served, TypeOK, Matchable, Garbage
<1>6. ASSUME NotifyFails PROVE Inv'
  BY <1>6
     DEF NotifyFails, Inv, ChannelsOwned, Fresh, HeldIsOut, ReaderStarted,
         Served, TypeOK, Matchable, Garbage
<1>7. ASSUME ConnectReturns PROVE Inv'
  BY <1>7
     DEF ConnectReturns, Inv, ChannelsOwned, Fresh, HeldIsOut, ReaderStarted,
         Served, TypeOK, Matchable, Garbage
<1>8. ASSUME NEW s \in Senders, SendRefused(s) PROVE Inv'
  BY <1>8
     DEF SendRefused, Sending, Return, Inv, ChannelsOwned, Fresh, HeldIsOut,
         ReaderStarted, Served, TypeOK, Matchable, Garbage
<1>9. ASSUME NEW s \in Senders, Register(s) PROVE Inv'
  <2>1. /\ pc[s] = "idle" /\ ch[s] = None
        /\ ~(pc[Reader] = "sending" /\ held.call = s)
    BY <1>9 DEF Register, Sending, Inv, Fresh
  <2>2. pc[Reader] \in {"reading", "sending"} \/ closed
    BY <1>9 DEF Register, Sending, Inv, ReaderStarted, TypeOK
  <2>3. /\ pc' = [pc EXCEPT ![s] = "posting"] /\ pending' = pending \cup {s}
        /\ UNCHANGED <<ch, held, closed, readErr, connected, ctxDone>>
    BY <1>9 DEF Register
  <2>4. s # Reader /\ s # Connector /\ \A c \in Enders : c # s
    OBVIOUS
  <2>5. ChannelsOwned'
    BY <2>1, <2>3, <2>4 DEF Inv, ChannelsOwned, TypeOK
  <2>6. Fresh'
    BY <2>1, <2>3, <2>4 DEF Inv, Fresh, TypeOK
  <2>7. HeldIsOut'
    BY <2>1, <2>3, <2>4 DEF Inv, HeldIsOut, TypeOK
  <2>8. ReaderStarted'
    BY <2>3, <2>4 DEF Inv, ReaderStarted, TypeOK
  <2>9. Served'
    BY <2>2, <2>3, <2>4 DEF Inv, Served, TypeOK
  <2> QED
    BY <2>5, <2>6, <2>7, <2>8, <2>9 DEF Inv
<1>10. ASSUME NEW s \in Senders, Posted(s) PROVE Inv'
  BY <1>10
     DEF Posted, Inv, ChannelsOwned, Fresh, HeldIsOut, ReaderStarted, Served,
         TypeOK, Matchable, Garbage
<1>11. ASSUME NEW s \in Senders, PostFails(s) PROVE Inv'
  BY <1>11
     DEF PostFails, Withdraw, Return, Inv, ChannelsOwned, Fresh, HeldIsOut,
         ReaderStarted, Served, TypeOK, Matchable, Garbage
<1>12. ASSUME NEW s \in Senders, SendCancelled(s) PROVE Inv'
  BY <1>12
     DEF SendCancelled, Withdraw, Return, Inv, ChannelsOwned, Fresh,
         HeldIsOut, ReaderStarted, Served, TypeOK, Matchable, Garbage
<1>13. ASSUME NEW s \in Senders, SendClosed(s) PROVE Inv'
  BY <1>13
     DEF SendClosed, Withdraw, Return, Inv, ChannelsOwned, Fresh, HeldIsOut,
         ReaderStarted, Served, TypeOK, Matchable, Garbage
<1>14. ASSUME NEW s \in Senders, SendAnswered(s) PROVE Inv'
  BY <1>14
     DEF SendAnswered, Return, Inv, ChannelsOwned, Fresh, HeldIsOut,
         ReaderStarted, Served, TypeOK, Matchable, Garbage
<1>15. ASSUME NEW c \in Enders, CloseAgain(c) PROVE Inv'
  BY <1>15
     DEF CloseAgain, MayClose, Inv, ChannelsOwned, Fresh, HeldIsOut,
         ReaderStarted, Served, TypeOK, Matchable, Garbage
<1>16. ASSUME NEW c \in Enders, CloseBegins(c) PROVE Inv'
  BY <1>16
     DEF CloseBegins, MayClose, Sweep, Inv, ChannelsOwned, Fresh, HeldIsOut,
         ReaderStarted, Served, TypeOK, Matchable, Garbage
<1>17. ASSUME NEW c \in Enders, CloseFinishes(c) PROVE Inv'
  BY <1>17
     DEF CloseFinishes, Inv, ChannelsOwned, Fresh, HeldIsOut, ReaderStarted,
         Served, TypeOK, Matchable, Garbage
<1>18. ASSUME Match PROVE Inv'
  BY <1>18
     DEF Match, TakeOut, Inv, ChannelsOwned, Fresh, HeldIsOut, ReaderStarted,
         Served, TypeOK, Matchable, Garbage
<1>19. ASSUME Unmatched PROVE Inv'
  BY <1>19
     DEF Unmatched, Inv, ChannelsOwned, Fresh, HeldIsOut, ReaderStarted,
         Served, TypeOK, Matchable, Garbage
<1>20. ASSUME Deliver PROVE Inv'
  BY <1>20
     DEF Deliver, Inv, ChannelsOwned, Fresh, HeldIsOut, ReaderStarted,
         Served, TypeOK, Matchable, Garbage
<1>21. ASSUME GiveUp PROVE Inv'
  BY <1>21
     DEF GiveUp, Inv, ChannelsOwned, Fresh, HeldIsOut, ReaderStarted, Served,
         TypeOK, Matchable, Garbage
<1>22. ASSUME ReadFails PROVE Inv'
  BY <1>22
     DEF ReadFails, StreamBroken, Sweep, Inv, ChannelsOwned, Fresh,
         HeldIsOut, ReaderStarted, Served, TypeOK, Matchable, Garbage
<1>23. ASSUME NEW s \in Senders, ServerReceives(s) PROVE Inv'
  BY <1>23
     DEF ServerReceives, Inv, ChannelsOwned, Fresh, HeldIsOut, ReaderStarted,
         Served, TypeOK, Matchable, Garbage
<1>24. ASSUME NEW s \in Senders, ServerAnswers(s) PROVE Inv'
  BY <1>24
     DEF ServerAnswers, ServerWrites, Inv, ChannelsOwned, Fresh, HeldIsOut,
         ReaderStarted, Served, TypeOK, Matchable, Garbage
<1>25. ASSUME NEW s \in Senders, ServerAsks(s) PROVE Inv'
  BY <1>25
     DEF ServerAsks, ServerWrites, Inv, ChannelsOwned, Fresh, HeldIsOut,
         ReaderStarted, Served, TypeOK, Matchable, Garbage
<1>26. ASSUME ServerGarbles PROVE Inv'
  BY <1>26
     DEF ServerGarbles, ServerWrites, Inv, ChannelsOwned, Fresh, HeldIsOut,
         ReaderStarted, Served, TypeOK, Matchable, Garbage
<1>27. ASSUME ServerEnds PROVE Inv'
  BY <1>27
     DEF ServerEnds, Inv, ChannelsOwned, Fresh, HeldIsOut, ReaderStarted,
         Served, TypeOK, Matchable, Garbage
<1>28. ASSUME Expire PROVE Inv'
  BY <1>28
     DEF Expire, Inv, ChannelsOwned, Fresh, HeldIsOut, ReaderStarted, Served,
         TypeOK, Matchable, Garbage
<1>29. ASSUME NEW s \in Senders, Cancel(s) PROVE Inv'
  BY <1>29
     DEF Cancel, Inv, ChannelsOwned, Fresh, HeldIsOut, ReaderStarted, Served,
         TypeOK, Matchable, Garbage
<1>30. CASE UNCHANGED vars
  BY <1>30
     DEF vars, Inv, ChannelsOwned, Fresh, HeldIsOut, ReaderStarted, Served,
         TypeOK, Matchable, Garbage
<1> QED
  BY <1>1, <1>2, <1>3, <1>4, <1>5, <1>6, <1>7, <1>8, <1>9, <1>10, <1>11,
     <1>12, <1>13, <1>14, <1>15, <1>16, <1>17, <1>18, <1>19, <1>20, <1>21,
     <1>22, <1>23, <1>24, <1>25, <1>26, <1>27, <1>28, <1>29, <1>30
     DEF Next, Connect, Wait, Close, ReadLoop, Server

\* Whatever happens, the invariant of the call table holds.
LEMMA TableInvariant == Spec => []Inv
  BY TypeCorrect, InvInit, InvStep, PTL DEF Spec

\* The read loop never sends on a closed or a full channel, and no channel
\* is closed twice (transport_sse.go:163-175, 187-191, 304-312).
THEOREM Owned == Spec => []ChannelsOwned
<1>1. Inv => ChannelsOwned
  BY DEF Inv
<1> QED
  BY <1>1, TableInvariant, PTL

\* A waiting call will hear, also one that was registered while the read
\* loop ended or after a Close (transport_sse.go:187-236).
THEOREM NoCallStranded == Spec => []NoneStranded
<1>1. Inv => NoneStranded
  BY DEF Inv, Served, NoneStranded
<1> QED
  BY <1>1, TableInvariant, PTL

-----------------------------------------------------------------------------
(* The refinement of RpcService. *)

\* Where answers come from: the server reads a call once, after it was made,
\* and what the transport takes for an answer to it the server has sent.
Origin ==
  /\ \A i \in 1..Len(out) :
       out[i] # Garbage /\ out[i].kind = "answer" => out[i].call \in replied
  /\ pc[Reader] = "sending" /\ held.kind = "answer" => held.call \in replied
  /\ \A s \in Senders : ch[s] = "answer" => s \in replied
  /\ \A s \in Senders : s \in received => s \notin replied
  /\ \A s \in Senders : s \in received \cup replied => pc[s] # "idle"

\* Before Connect the server has been sent nothing.
LEMMA OriginInit == Init => Origin
  BY DEF Init, Origin

\* Every step keeps Origin, also when the server sends requests of its own.
LEMMA OriginStep ==
  ASSUME TypeOK, Origin, [Next]_vars
  PROVE  Origin'
<1> USE TypeOK, Origin
<1>1. ASSUME GetFails PROVE Origin'
  BY <1>1 DEF GetFails, Origin, TypeOK, Matchable, Garbage
<1>2. ASSUME GetSucceeds PROVE Origin'
  BY <1>2 DEF GetSucceeds, Origin, TypeOK, Matchable, Garbage
<1>3. ASSUME EndpointFails PROVE Origin'
  BY <1>3 DEF EndpointFails, Origin, TypeOK, Matchable, Garbage
<1>4. ASSUME EndpointFound PROVE Origin'
  BY <1>4 DEF EndpointFound, Origin, TypeOK, Matchable, Garbage
<1>5. ASSUME Initialized PROVE Origin'
  BY <1>5 DEF Initialized, Origin, TypeOK, Matchable, Garbage
<1>6. ASSUME NotifyFails PROVE Origin'
  BY <1>6 DEF NotifyFails, Origin, TypeOK, Matchable, Garbage
<1>7. ASSUME ConnectReturns PROVE Origin'
  BY <1>7 DEF ConnectReturns, Origin, TypeOK, Matchable, Garbage
<1>8. ASSUME NEW s \in Senders, SendRefused(s) PROVE Origin'
  BY <1>8 DEF SendRefused, Sending, Return, Origin, TypeOK, Matchable, Garbage
<1>9. ASSUME NEW s \in Senders, Register(s) PROVE Origin'
  BY <1>9 DEF Register, Sending, Origin, TypeOK, Matchable, Garbage
<1>10. ASSUME NEW s \in Senders, Posted(s) PROVE Origin'
  BY <1>10 DEF Posted, Origin, TypeOK, Matchable, Garbage
<1>11. ASSUME NEW s \in Senders, PostFails(s) PROVE Origin'
  BY <1>11 DEF PostFails, Withdraw, Return, Origin, TypeOK, Matchable, Garbage
<1>12. ASSUME NEW s \in Senders, SendCancelled(s) PROVE Origin'
  BY <1>12
     DEF SendCancelled, Withdraw, Return, Origin, TypeOK, Matchable, Garbage
<1>13. ASSUME NEW s \in Senders, SendClosed(s) PROVE Origin'
  BY <1>13 DEF SendClosed, Withdraw, Return, Origin, TypeOK, Matchable, Garbage
<1>14. ASSUME NEW s \in Senders, SendAnswered(s) PROVE Origin'
  BY <1>14 DEF SendAnswered, Return, Origin, TypeOK, Matchable, Garbage
<1>15. ASSUME NEW c \in Enders, CloseAgain(c) PROVE Origin'
  BY <1>15 DEF CloseAgain, MayClose, Origin, TypeOK, Matchable, Garbage
<1>16. ASSUME NEW c \in Enders, CloseBegins(c) PROVE Origin'
  BY <1>16 DEF CloseBegins, MayClose, Sweep, Origin, TypeOK, Matchable, Garbage
<1>17. ASSUME NEW c \in Enders, CloseFinishes(c) PROVE Origin'
  BY <1>17 DEF CloseFinishes, Origin, TypeOK, Matchable, Garbage
<1>18. ASSUME Match PROVE Origin'
  BY <1>18 DEF Match, TakeOut, Origin, TypeOK, Matchable, Garbage
<1>19. ASSUME Unmatched PROVE Origin'
  BY <1>19 DEF Unmatched, Origin, TypeOK, Matchable, Garbage
<1>20. ASSUME Deliver PROVE Origin'
  BY <1>20 DEF Deliver, Origin, TypeOK, Matchable, Garbage
<1>21. ASSUME GiveUp PROVE Origin'
  BY <1>21 DEF GiveUp, Origin, TypeOK, Matchable, Garbage
<1>22. ASSUME ReadFails PROVE Origin'
  BY <1>22
     DEF ReadFails, StreamBroken, Sweep, Origin, TypeOK, Matchable, Garbage
<1>23. ASSUME NEW s \in Senders, ServerReceives(s) PROVE Origin'
  BY <1>23 DEF ServerReceives, Origin, TypeOK, Matchable, Garbage
<1>24. ASSUME NEW s \in Senders, ServerAnswers(s) PROVE Origin'
  BY <1>24 DEF ServerAnswers, ServerWrites, Origin, TypeOK, Matchable, Garbage
<1>25. ASSUME NEW s \in Senders, ServerAsks(s) PROVE Origin'
  BY <1>25 DEF ServerAsks, ServerWrites, Origin, TypeOK, Matchable, Garbage
<1>26. ASSUME ServerGarbles PROVE Origin'
  BY <1>26 DEF ServerGarbles, ServerWrites, Origin, TypeOK, Matchable, Garbage
<1>27. ASSUME ServerEnds PROVE Origin'
  BY <1>27 DEF ServerEnds, Origin, TypeOK, Matchable, Garbage
<1>28. ASSUME Expire PROVE Origin'
  BY <1>28 DEF Expire, Origin, TypeOK, Matchable, Garbage
<1>29. ASSUME NEW s \in Senders, Cancel(s) PROVE Origin'
  BY <1>29 DEF Cancel, Origin, TypeOK, Matchable, Garbage
<1>30. CASE UNCHANGED vars
  BY <1>30 DEF vars, Origin, TypeOK, Matchable, Garbage
<1> QED
  BY <1>1, <1>2, <1>3, <1>4, <1>5, <1>6, <1>7, <1>8, <1>9, <1>10, <1>11,
     <1>12, <1>13, <1>14, <1>15, <1>16, <1>17, <1>18, <1>19, <1>20, <1>21,
     <1>22, <1>23, <1>24, <1>25, <1>26, <1>27, <1>28, <1>29, <1>30
     DEF Next, Connect, Wait, Close, ReadLoop, Server

\* Before Connect every call is idle.
LEMMA MapInit == Init => Rpc!Init
  BY DEF Init, Rpc!Init, LifeOf, Phases, PhaseOf

\* Every step maps to a step of RpcService or to a stutter.
LEMMA MapStep ==
  ASSUME TypeOK, Inv, Origin, [Next]_vars
  PROVE  [Rpc!Next]_(Rpc!vars)
<1> USE TypeOK, Inv, Origin
<1> USE DEF Rpc!Next, Rpc!vars
<1>1. ASSUME GetFails PROVE [Rpc!Next]_(Rpc!vars)
  <2>1. Phases' = Phases /\ LifeOf' = LifeOf
    BY <1>1 DEF GetFails, Phases, PhaseOf, LifeOf, TypeOK, Inv, ReaderStarted
  <2> QED
    BY <1>1, <2>1 DEF GetFails
<1>2. ASSUME GetSucceeds PROVE [Rpc!Next]_(Rpc!vars)
  <2>1. Phases' = Phases /\ LifeOf' = LifeOf
    BY <1>2
       DEF GetSucceeds, Phases, PhaseOf, LifeOf, TypeOK, Inv, ReaderStarted
  <2> QED
    BY <1>2, <2>1 DEF GetSucceeds
<1>3. ASSUME EndpointFails PROVE [Rpc!Next]_(Rpc!vars)
  <2>1. Phases' = Phases /\ LifeOf' = LifeOf
    BY <1>3
       DEF EndpointFails, Phases, PhaseOf, LifeOf, TypeOK, Inv, ReaderStarted
  <2> QED
    BY <1>3, <2>1 DEF EndpointFails
<1>4. ASSUME EndpointFound PROVE [Rpc!Next]_(Rpc!vars)
  <2>1. Phases' = Phases
    BY <1>4 DEF EndpointFound, Phases, PhaseOf, TypeOK
  <2>2. CASE connected
    BY <1>4, <2>1, <2>2 DEF EndpointFound, LifeOf
  <2>3. CASE ~connected
    <3>1. Rpc!Connect
      BY <1>4, <2>1, <2>3
         DEF EndpointFound, Rpc!Connect, LifeOf, Inv, ReaderStarted
    <3> QED
      BY <3>1
  <2> QED
    BY <2>2, <2>3
<1>5. ASSUME Initialized PROVE [Rpc!Next]_(Rpc!vars)
  <2>1. Phases' = Phases /\ LifeOf' = LifeOf
    BY <1>5
       DEF Initialized, Phases, PhaseOf, LifeOf, TypeOK, Inv, ReaderStarted
  <2> QED
    BY <1>5, <2>1 DEF Initialized
<1>6. ASSUME NotifyFails PROVE [Rpc!Next]_(Rpc!vars)
  <2>1. Phases' = Phases /\ LifeOf' = LifeOf
    BY <1>6
       DEF NotifyFails, Phases, PhaseOf, LifeOf, TypeOK, Inv, ReaderStarted
  <2> QED
    BY <1>6, <2>1 DEF NotifyFails
<1>7. ASSUME ConnectReturns PROVE [Rpc!Next]_(Rpc!vars)
  <2>1. Phases' = Phases /\ LifeOf' = LifeOf
    BY <1>7
       DEF ConnectReturns, Phases, PhaseOf, LifeOf, TypeOK, Inv,
           ReaderStarted
  <2> QED
    BY <1>7, <2>1 DEF ConnectReturns
<1>8. ASSUME NEW s \in Senders, SendRefused(s) PROVE [Rpc!Next]_(Rpc!vars)
  <2>1. Phases' = [Phases EXCEPT ![s] = "failed"]
    BY <1>8 DEF SendRefused, Sending, Return, Phases, PhaseOf, TypeOK
  <2>2. Rpc!Refuse(s)
    BY <1>8, <2>1
       DEF SendRefused, Sending, Return, Rpc!Refuse, Phases, PhaseOf, LifeOf,
           TypeOK, Inv, ReaderStarted
  <2> QED
    BY <2>2
<1>9. ASSUME NEW s \in Senders, Register(s) PROVE [Rpc!Next]_(Rpc!vars)
  <2>1. Phases' = [Phases EXCEPT ![s] = "open"]
    BY <1>9 DEF Register, Sending, Phases, PhaseOf, TypeOK
  <2>2. Rpc!Begin(s)
    BY <1>9, <2>1
       DEF Register, Sending, Rpc!Begin, Phases, PhaseOf, LifeOf, TypeOK,
           Inv, ReaderStarted
  <2> QED
    BY <2>2
<1>10. ASSUME NEW s \in Senders, Posted(s) PROVE [Rpc!Next]_(Rpc!vars)
  <2>1. Phases' = Phases /\ LifeOf' = LifeOf
    BY <1>10 DEF Posted, Phases, PhaseOf, LifeOf, TypeOK, Inv, ReaderStarted
  <2> QED
    BY <1>10, <2>1 DEF Posted
<1>11. ASSUME NEW s \in Senders, PostFails(s) PROVE [Rpc!Next]_(Rpc!vars)
  <2>1. Phases' = [Phases EXCEPT ![s] = "failed"]
    BY <1>11 DEF PostFails, Withdraw, Return, Phases, PhaseOf, TypeOK
  <2>2. Rpc!Fail(s)
    BY <1>11, <2>1
       DEF PostFails, Withdraw, Return, Rpc!Fail, Phases, PhaseOf, LifeOf,
           TypeOK, Inv, ReaderStarted
  <2> QED
    BY <2>2
<1>12. ASSUME NEW s \in Senders, SendCancelled(s) PROVE [Rpc!Next]_(Rpc!vars)
  <2>1. Phases' = [Phases EXCEPT ![s] = "failed"]
    BY <1>12 DEF SendCancelled, Withdraw, Return, Phases, PhaseOf, TypeOK
  <2>2. Rpc!Fail(s)
    BY <1>12, <2>1
       DEF SendCancelled, Withdraw, Return, Rpc!Fail, Phases, PhaseOf,
           LifeOf, TypeOK, Inv, ReaderStarted
  <2> QED
    BY <2>2
<1>13. ASSUME NEW s \in Senders, SendClosed(s) PROVE [Rpc!Next]_(Rpc!vars)
  <2>1. Phases' = [Phases EXCEPT ![s] = "failed"]
    BY <1>13 DEF SendClosed, Withdraw, Return, Phases, PhaseOf, TypeOK
  <2>2. Rpc!Fail(s)
    BY <1>13, <2>1
       DEF SendClosed, Withdraw, Return, Rpc!Fail, Phases, PhaseOf, LifeOf,
           TypeOK, Inv, ReaderStarted
  <2> QED
    BY <2>2
<1>14. ASSUME NEW s \in Senders, SendAnswered(s) PROVE [Rpc!Next]_(Rpc!vars)
  <2>1. CASE ch[s] = "answer"
    <3>1. Phases' = [Phases EXCEPT ![s] = "answered"]
      BY <1>14, <2>1 DEF SendAnswered, Return, Phases, PhaseOf, TypeOK
    <3>2. Rpc!Answer(s)
      BY <1>14, <2>1, <3>1
         DEF SendAnswered, Return, Rpc!Answer, Phases, PhaseOf, LifeOf, Origin
    <3> QED
      BY <3>2
  <2>2. CASE ch[s] # "answer"
    <3>1. ch[s] # "answer"
      BY <2>2
    <3>2. Phases' = [Phases EXCEPT ![s] = "failed"]
      BY <1>14, <3>1 DEF SendAnswered, Return, Phases, PhaseOf, TypeOK
    <3>3. Rpc!Fail(s)
      BY <1>14, <3>2 DEF SendAnswered, Return, Rpc!Fail, Phases, PhaseOf, LifeOf
    <3> QED
      BY <3>3
  <2> QED
    BY <2>1, <2>2
<1>15. ASSUME NEW c \in Enders, CloseAgain(c) PROVE [Rpc!Next]_(Rpc!vars)
  <2>1. Phases' = Phases /\ LifeOf' = LifeOf
    BY <1>15
       DEF CloseAgain, MayClose, Phases, PhaseOf, LifeOf, TypeOK, Inv,
           ReaderStarted
  <2> QED
    BY <1>15, <2>1 DEF CloseAgain, MayClose
<1>16. ASSUME NEW c \in Enders, CloseBegins(c) PROVE [Rpc!Next]_(Rpc!vars)
  <2>1. Phases' = Phases /\ LifeOf' = LifeOf
    BY <1>16
       DEF CloseBegins, MayClose, Sweep, Phases, PhaseOf, LifeOf, TypeOK,
           Inv, ReaderStarted
  <2> QED
    BY <1>16, <2>1 DEF CloseBegins, MayClose, Sweep
<1>17. ASSUME NEW c \in Enders, CloseFinishes(c) PROVE [Rpc!Next]_(Rpc!vars)
  <2>1. Phases' = Phases /\ LifeOf' = LifeOf
    BY <1>17
       DEF CloseFinishes, Phases, PhaseOf, LifeOf, TypeOK, Inv, ReaderStarted
  <2> QED
    BY <1>17, <2>1 DEF CloseFinishes
<1>18. ASSUME Match PROVE [Rpc!Next]_(Rpc!vars)
  <2>1. Phases' = Phases /\ LifeOf' = LifeOf
    BY <1>18
       DEF Match, TakeOut, Phases, PhaseOf, LifeOf, TypeOK, Inv,
           ReaderStarted
  <2> QED
    BY <1>18, <2>1 DEF Match, TakeOut
<1>19. ASSUME Unmatched PROVE [Rpc!Next]_(Rpc!vars)
  <2>1. Phases' = Phases /\ LifeOf' = LifeOf
    BY <1>19 DEF Unmatched, Phases, PhaseOf, LifeOf, TypeOK, Inv, ReaderStarted
  <2> QED
    BY <1>19, <2>1 DEF Unmatched
<1>20. ASSUME Deliver PROVE [Rpc!Next]_(Rpc!vars)
  <2>1. Phases' = Phases /\ LifeOf' = LifeOf
    BY <1>20 DEF Deliver, Phases, PhaseOf, LifeOf, TypeOK, Inv, ReaderStarted
  <2> QED
    BY <1>20, <2>1 DEF Deliver
<1>21. ASSUME GiveUp PROVE [Rpc!Next]_(Rpc!vars)
  <2>1. Phases' = Phases /\ LifeOf' = LifeOf
    BY <1>21 DEF GiveUp, Phases, PhaseOf, LifeOf, TypeOK, Inv, ReaderStarted
  <2> QED
    BY <1>21, <2>1 DEF GiveUp
<1>22. ASSUME ReadFails PROVE [Rpc!Next]_(Rpc!vars)
  <2>1. Phases' = Phases
    BY <1>22 DEF ReadFails, Phases, PhaseOf, TypeOK
  <2>2. Rpc!GoDown
    BY <1>22, <2>1 DEF ReadFails, Rpc!GoDown, LifeOf, Inv, ReaderStarted
  <2> QED
    BY <2>2
<1>23. ASSUME NEW s \in Senders, ServerReceives(s) PROVE [Rpc!Next]_(Rpc!vars)
  <2>1. Phases' = Phases /\ LifeOf' = LifeOf
    BY <1>23
       DEF ServerReceives, Phases, PhaseOf, LifeOf, TypeOK, Inv,
           ReaderStarted
  <2> QED
    BY <1>23, <2>1 DEF ServerReceives
<1>24. ASSUME NEW s \in Senders, ServerAnswers(s) PROVE [Rpc!Next]_(Rpc!vars)
  <2>1. Phases' = Phases /\ LifeOf' = LifeOf
    BY <1>24 DEF ServerAnswers, ServerWrites, Phases, PhaseOf, LifeOf
  <2>2. Rpc!Reply(s)
    BY <1>24, <2>1
       DEF ServerAnswers, ServerWrites, Rpc!Reply, Phases, PhaseOf, Origin
  <2> QED
    BY <2>2
<1>25. ASSUME NEW s \in Senders, ServerAsks(s) PROVE [Rpc!Next]_(Rpc!vars)
  <2>1. Phases' = Phases /\ LifeOf' = LifeOf
    BY <1>25
       DEF ServerAsks, ServerWrites, Phases, PhaseOf, LifeOf, TypeOK, Inv,
           ReaderStarted
  <2> QED
    BY <1>25, <2>1 DEF ServerAsks, ServerWrites
<1>26. ASSUME ServerGarbles PROVE [Rpc!Next]_(Rpc!vars)
  <2>1. Phases' = Phases /\ LifeOf' = LifeOf
    BY <1>26
       DEF ServerGarbles, ServerWrites, Phases, PhaseOf, LifeOf, TypeOK, Inv,
           ReaderStarted
  <2> QED
    BY <1>26, <2>1 DEF ServerGarbles, ServerWrites
<1>27. ASSUME ServerEnds PROVE [Rpc!Next]_(Rpc!vars)
  <2>1. Phases' = Phases /\ LifeOf' = LifeOf
    BY <1>27
       DEF ServerEnds, Phases, PhaseOf, LifeOf, TypeOK, Inv, ReaderStarted
  <2> QED
    BY <1>27, <2>1 DEF ServerEnds
<1>28. ASSUME Expire PROVE [Rpc!Next]_(Rpc!vars)
  <2>1. Phases' = Phases /\ LifeOf' = LifeOf
    BY <1>28 DEF Expire, Phases, PhaseOf, LifeOf, TypeOK, Inv, ReaderStarted
  <2> QED
    BY <1>28, <2>1 DEF Expire
<1>29. ASSUME NEW s \in Senders, Cancel(s) PROVE [Rpc!Next]_(Rpc!vars)
  <2>1. Phases' = Phases /\ LifeOf' = LifeOf
    BY <1>29 DEF Cancel, Phases, PhaseOf, LifeOf, TypeOK, Inv, ReaderStarted
  <2> QED
    BY <1>29, <2>1 DEF Cancel
<1>30. CASE UNCHANGED vars
  BY <1>30 DEF vars, Phases, PhaseOf, LifeOf
<1> QED
  BY <1>1, <1>2, <1>3, <1>4, <1>5, <1>6, <1>7, <1>8, <1>9, <1>10, <1>11,
     <1>12, <1>13, <1>14, <1>15, <1>16, <1>17, <1>18, <1>19, <1>20, <1>21,
     <1>22, <1>23, <1>24, <1>25, <1>26, <1>27, <1>28, <1>29, <1>30
     DEF Next, Connect, Wait, Close, ReadLoop, Server

\* The transport does what RpcService promises, whatever the server
\* sends: a call ends once, with the server's answer to that very call or with
\* an error (transport_sse.go:187-236).
THEOREM Refinement == Spec => ImplementsRpc
<1>1. Spec => []Origin
  BY TypeCorrect, OriginInit, OriginStep, PTL DEF Spec
<1> QED
  BY <1>1, TypeCorrect, TableInvariant, MapInit, MapStep, PTL
     DEF Spec, ImplementsRpc, Rpc!Spec

=============================================================================

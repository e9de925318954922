----------------------- MODULE StdioTransportProofs -----------------------
(***************************************************************************)
(* The safety of StdioTransport, for any number of calls, any capacity of  *)
(* the pipe and any server, and its refinement of RpcService for a server  *)
(* that sends no requests of its own.                                      *)
(***************************************************************************)
EXTENDS StdioTransport, TLAPS

USE ConstantsAssumption
USE DEF Writers, Callers, callVars, fieldVars, tableVars, writeVars, readVars,
        procVars, serverVars, Go, Step

-----------------------------------------------------------------------------
(* Types. *)

\* The initial state is typed.
LEMMA TypeInit == Init => TypeOK
<1> SUFFICES ASSUME Init PROVE TypeOK
  OBVIOUS
<1>1. out \in Seq(Matchable \cup {Garbage}) /\ reader # "sending"
  BY DEF Init
<1> QED
  BY <1>1 DEF Init, TypeOK, Matchable, Garbage, Replies

\* Every step keeps the types.
LEMMA TypeStep == TypeOK /\ [Next]_vars => TypeOK'
<1> SUFFICES ASSUME TypeOK, [Next]_vars PROVE TypeOK'
  OBVIOUS
<1> USE TypeOK
<1>1. ASSUME ConnectFails PROVE TypeOK'
  BY <1>1 DEF ConnectFails, TypeOK, Matchable, Garbage, Replies
<1>2. ASSUME Connect PROVE TypeOK'
  BY <1>2 DEF Connect, TypeOK, Matchable, Garbage, Replies
<1>3. ASSUME ConnectExited PROVE TypeOK'
  BY <1>3 DEF ConnectExited, TypeOK, Matchable, Garbage, Replies
<1>4. ASSUME NEW s \in Senders, SendRefused(s) PROVE TypeOK'
  BY <1>4 DEF SendRefused, Accepting, Return, TypeOK, Matchable, Garbage,
           Replies
<1>5. ASSUME NEW s \in Senders, Register(s) PROVE TypeOK'
  BY <1>5 DEF Register, Accepting, TypeOK, Matchable, Garbage, Replies
<1>6. ASSUME NEW s \in Senders, MarshalFails(s) PROVE TypeOK'
  BY <1>6 DEF MarshalFails, Withdraw, Return, TypeOK, Matchable, Garbage,
           Replies
<1>7. ASSUME NEW s \in Senders, SendWrites(s) PROVE TypeOK'
  BY <1>7 DEF SendWrites, StartWrite, TypeOK, Matchable, Garbage, Replies
<1>8. ASSUME NEW s \in Senders, SendCancelledWriting(s) PROVE TypeOK'
  BY <1>8 DEF SendCancelledWriting, UnlockCancelled, Withdraw, Return, TypeOK,
           Matchable, Garbage, Replies
<1>9. ASSUME NEW s \in Senders, SendWritten(s) PROVE TypeOK'
  BY <1>9 DEF SendWritten, TypeOK, Matchable, Garbage, Replies
<1>10. ASSUME NEW s \in Senders, SendWriteFailed(s) PROVE TypeOK'
  BY <1>10 DEF SendWriteFailed, Withdraw, Return, TypeOK, Matchable, Garbage,
           Replies
<1>11. ASSUME NEW s \in Senders, SendAnswered(s) PROVE TypeOK'
  BY <1>11 DEF SendAnswered, Return, TypeOK, Matchable, Garbage, Replies
<1>12. ASSUME NEW s \in Senders, SendCancelled(s) PROVE TypeOK'
  BY <1>12 DEF SendCancelled, Withdraw, Return, TypeOK, Matchable, Garbage,
           Replies
<1>13. ASSUME NEW n \in Notifiers, NotifyCalled(n) PROVE TypeOK'
  BY <1>13 DEF NotifyCalled, TypeOK, Matchable, Garbage, Replies
<1>14. ASSUME NEW n \in Notifiers, NotifyRefused(n) PROVE TypeOK'
  BY <1>14 DEF NotifyRefused, TypeOK, Matchable, Garbage, Replies
<1>15. ASSUME NEW n \in Notifiers, NotifyWrites(n) PROVE TypeOK'
  BY <1>15 DEF NotifyWrites, StartWrite, TypeOK, Matchable, Garbage, Replies
<1>16. ASSUME NEW n \in Notifiers, NotifyReturns(n) PROVE TypeOK'
  BY <1>16 DEF NotifyReturns, TypeOK, Matchable, Garbage, Replies
<1>17. ASSUME NEW c \in Closers \cup {Connector}, CloseAgain(c) PROVE TypeOK'
  BY <1>17 DEF CloseAgain, MayClose, TypeOK, Matchable, Garbage, Replies
<1>18. ASSUME NEW c \in Closers \cup {Connector}, CloseBegins(c)
     PROVE  TypeOK'
  <2>1. ch' \in [Senders -> Replies \cup {None}] /\ pending' \subseteq Senders
    BY <1>18 DEF CloseBegins, FailPending, TypeOK, Replies
  <2>2. pc' \in [Callers -> {"idle", "queued", "writing", "waiting", "closing",
                            "writers", "process", "reader", "done"}]
    BY <1>18 DEF CloseBegins, Go, TypeOK
  <2>3. /\ cmd' \in BOOLEAN /\ stdin' \in BOOLEAN /\ closed' \in BOOLEAN
        /\ readErr' \in BOOLEAN /\ killArmed' \in BOOLEAN
    BY <1>18 DEF CloseBegins, ArmKill, TypeOK
  <2>4. UNCHANGED <<result, cancelled, writeVars, readVars, proc, waited,
                    pipeClosed, serverVars>>
    BY <1>18 DEF CloseBegins
  <2> QED
    BY <2>1, <2>2, <2>3, <2>4
       DEF TypeOK, writeVars, readVars, serverVars
<1>19. ASSUME NEW c \in Closers \cup {Connector}, CloseStdin(c) PROVE TypeOK'
  BY <1>19 DEF CloseStdin, TypeOK, Matchable, Garbage, Replies
<1>20. ASSUME NEW c \in Closers \cup {Connector}, WritersDone(c)
     PROVE  TypeOK'
  BY <1>20 DEF WritersDone, TypeOK, Matchable, Garbage, Replies
<1>21. ASSUME NEW c \in Closers \cup {Connector}, Reaped(c) PROVE TypeOK'
  BY <1>21 DEF Reaped, TypeOK, Matchable, Garbage, Replies
<1>22. ASSUME NEW c \in Closers \cup {Connector}, CloseReturns(c)
     PROVE  TypeOK'
  BY <1>22 DEF CloseReturns, TypeOK, Matchable, Garbage, Replies
<1>23. ASSUME Match PROVE TypeOK'
  BY <1>23 DEF Match, TakeOut, TypeOK, Matchable, Garbage, Replies
<1>24. ASSUME Unmatched PROVE TypeOK'
  BY <1>24 DEF Unmatched, TypeOK, Matchable, Garbage, Replies
<1>25. ASSUME Deliver PROVE TypeOK'
  BY <1>25 DEF Deliver, TypeOK, Matchable, Garbage, Replies
<1>26. ASSUME ReadEnds PROVE TypeOK'
  BY <1>26 DEF ReadEnds, FailPending, TypeOK, Matchable, Garbage, Replies
<1>27. ASSUME NEW c \in Writers, WriteSucceeds(c) PROVE TypeOK'
  BY <1>27 DEF WriteSucceeds, TypeOK, Matchable, Garbage, Replies
<1>28. ASSUME NEW c \in Writers, WriteFails(c) PROVE TypeOK'
  BY <1>28 DEF WriteFails, TypeOK, Matchable, Garbage, Replies
<1>29. ASSUME NEW c \in Writers, Cancel(c) PROVE TypeOK'
  BY <1>29 DEF Cancel, TypeOK, Matchable, Garbage, Replies
<1>30. ASSUME NEW s \in Senders, ServerAnswers(s) PROVE TypeOK'
  BY <1>30 DEF ServerAnswers, ServerWrites, TypeOK, Matchable, Garbage,
           Replies
<1>31. ASSUME NEW s \in Senders, ServerAsks(s) PROVE TypeOK'
  BY <1>31 DEF ServerAsks, ServerWrites, TypeOK, Matchable, Garbage, Replies
<1>32. ASSUME ServerGarbles PROVE TypeOK'
  BY <1>32 DEF ServerGarbles, ServerWrites, TypeOK, Matchable, Garbage,
           Replies
<1>33. ASSUME Dies PROVE TypeOK'
  BY <1>33 DEF Dies, TypeOK, Matchable, Garbage, Replies
<1>34. ASSUME Killed PROVE TypeOK'
  BY <1>34 DEF Killed, Dies, TypeOK, Matchable, Garbage, Replies
<1>35. ASSUME ProcessWaited PROVE TypeOK'
  BY <1>35 DEF ProcessWaited, TypeOK, Matchable, Garbage, Replies
<1>36. CASE UNCHANGED vars
  BY <1>36 DEF vars, TypeOK, Matchable, Garbage, Replies
<1> QED
  BY <1>1, <1>2, <1>3, <1>4, <1>5, <1>6, <1>7, <1>8, <1>9, <1>10,
     <1>11, <1>12, <1>13, <1>14, <1>15, <1>16, <1>17, <1>18, <1>19, <1>20,
     <1>21, <1>22, <1>23, <1>24, <1>25, <1>26, <1>27, <1>28, <1>29, <1>30,
     <1>31, <1>32, <1>33, <1>34, <1>35, <1>36
     DEF Next, Send, Close, ReadLoop, Server

\* The variables of the transport keep their types, whatever the callers and
\* the server do (transport.go:235-260).
THEOREM TypeCorrect == Spec => []TypeOK
  BY TypeInit, TypeStep, PTL DEF Spec

-----------------------------------------------------------------------------
(* The call table. *)

\* A call that has not begun has left no trace.
Fresh ==
  \A s \in Senders : pc[s] = "idle" =>
    /\ s \notin pending /\ ch[s] = None
    /\ ~(reader = "sending" /\ held.call = s)

\* A call that has begun will hear, wherever it is.
Served ==
  \A s \in Senders : pc[s] \in {"queued", "writing", "waiting"} =>
    \/ s \in pending \/ ch[s] # None
    \/ reader = "sending" /\ held.call = s

EndedIsError == reader = "ended" => readErr

\* There is no read loop before Connect.
Unconnected == pc[Connector] = "idle" => reader = "none"

\* Once nobody reads, or the transport is closed, no call is left in the table.
NoneStranded == reader = "ended" \/ closed => pending = {}

Inv ==
  /\ SendsNeverBlock /\ NoneStranded /\ Fresh /\ Served /\ EndedIsError
  /\ Unconnected

\* Before Connect the table, the channels and the read loop are empty
\* (transport.go:262-271).
LEMMA InvInit == Init => Inv
  BY DEF Init, Inv, SendsNeverBlock, NoneStranded, Fresh, Served, EndedIsError,
         Unconnected

\* Every step keeps the invariant of the call table.
LEMMA InvStep == TypeOK /\ Inv /\ [Next]_vars => Inv'
<1> SUFFICES ASSUME TypeOK, Inv, [Next]_vars PROVE Inv'
  OBVIOUS
<1> USE TypeOK, Inv
<1>1. ASSUME ConnectFails PROVE Inv'
  BY <1>1 DEF ConnectFails, Inv, SendsNeverBlock, NoneStranded, Fresh, Served,
           EndedIsError, Unconnected, TypeOK, Matchable, Replies
<1>2. ASSUME Connect PROVE Inv'
  BY <1>2 DEF Connect, Inv, SendsNeverBlock, NoneStranded, Fresh, Served,
           EndedIsError, Unconnected, TypeOK, Matchable, Replies
<1>3. ASSUME ConnectExited PROVE Inv'
  BY <1>3 DEF ConnectExited, Inv, SendsNeverBlock, NoneStranded, Fresh,
           Served, EndedIsError, Unconnected, TypeOK, Matchable, Replies
<1>4. ASSUME NEW s \in Senders, SendRefused(s) PROVE Inv'
  BY <1>4 DEF SendRefused, Accepting, Return, Inv, SendsNeverBlock,
           NoneStranded, Fresh, Served, EndedIsError, Unconnected, TypeOK,
           Matchable, Replies
<1>5. ASSUME NEW s \in Senders, Register(s) PROVE Inv'
  BY <1>5 DEF Register, Accepting, Inv, SendsNeverBlock, NoneStranded, Fresh,
           Served, EndedIsError, Unconnected, TypeOK, Matchable, Replies
<1>6. ASSUME NEW s \in Senders, MarshalFails(s) PROVE Inv'
  BY <1>6 DEF MarshalFails, Withdraw, Return, Inv, SendsNeverBlock,
           NoneStranded, Fresh, Served, EndedIsError, Unconnected, TypeOK,
           Matchable, Replies
<1>7. ASSUME NEW s \in Senders, SendWrites(s) PROVE Inv'
  BY <1>7 DEF SendWrites, StartWrite, Inv, SendsNeverBlock, NoneStranded,
           Fresh, Served, EndedIsError, Unconnected, TypeOK, Matchable,
           Replies
<1>8. ASSUME NEW s \in Senders, SendCancelledWriting(s) PROVE Inv'
  BY <1>8 DEF SendCancelledWriting, UnlockCancelled, Withdraw, Return, Inv,
           SendsNeverBlock, NoneStranded, Fresh, Served, EndedIsError,
           Unconnected, TypeOK, Matchable, Replies
<1>9. ASSUME NEW s \in Senders, SendWritten(s) PROVE Inv'
  BY <1>9 DEF SendWritten, Inv, SendsNeverBlock, NoneStranded, Fresh, Served,
           EndedIsError, Unconnected, TypeOK, Matchable, Replies
<1>10. ASSUME NEW s \in Senders, SendWriteFailed(s) PROVE Inv'
  BY <1>10 DEF SendWriteFailed, Withdraw, Return, Inv, SendsNeverBlock,
           NoneStranded, Fresh, Served, EndedIsError, Unconnected, TypeOK,
           Matchable, Replies
<1>11. ASSUME NEW s \in Senders, SendAnswered(s) PROVE Inv'
  BY <1>11 DEF SendAnswered, Return, Inv, SendsNeverBlock, NoneStranded,
           Fresh, Served, EndedIsError, Unconnected, TypeOK, Matchable,
           Replies
<1>12. ASSUME NEW s \in Senders, SendCancelled(s) PROVE Inv'
  BY <1>12 DEF SendCancelled, Withdraw, Return, Inv, SendsNeverBlock,
           NoneStranded, Fresh, Served, EndedIsError, Unconnected, TypeOK,
           Matchable, Replies
<1>13. ASSUME NEW n \in Notifiers, NotifyCalled(n) PROVE Inv'
  BY <1>13 DEF NotifyCalled, Inv, SendsNeverBlock, NoneStranded, Fresh,
           Served, EndedIsError, Unconnected, TypeOK, Matchable, Replies
<1>14. ASSUME NEW n \in Notifiers, NotifyRefused(n) PROVE Inv'
  BY <1>14 DEF NotifyRefused, Inv, SendsNeverBlock, NoneStranded, Fresh,
           Served, EndedIsError, Unconnected, TypeOK, Matchable, Replies
<1>15. ASSUME NEW n \in Notifiers, NotifyWrites(n) PROVE Inv'
  BY <1>15 DEF NotifyWrites, StartWrite, Inv, SendsNeverBlock, NoneStranded,
           Fresh, Served, EndedIsError, Unconnected, TypeOK, Matchable,
           Replies
<1>16. ASSUME NEW n \in Notifiers, NotifyReturns(n) PROVE Inv'
  BY <1>16 DEF NotifyReturns, Inv, SendsNeverBlock, NoneStranded, Fresh,
           Served, EndedIsError, Unconnected, TypeOK, Matchable, Replies
<1>17. ASSUME NEW c \in Closers \cup {Connector}, CloseAgain(c) PROVE Inv'
  BY <1>17 DEF CloseAgain, MayClose, Inv, SendsNeverBlock, NoneStranded,
           Fresh, Served, EndedIsError, Unconnected, TypeOK, Matchable,
           Replies
<1>18. ASSUME NEW c \in Closers \cup {Connector}, CloseBegins(c) PROVE Inv'
  BY <1>18 DEF CloseBegins, MayClose, FailPending, ArmKill, Inv,
           SendsNeverBlock, NoneStranded, Fresh, Served, EndedIsError,
           Unconnected, TypeOK, Matchable, Replies
<1>19. ASSUME NEW c \in Closers \cup {Connector}, CloseStdin(c) PROVE Inv'
  BY <1>19 DEF CloseStdin, Inv, SendsNeverBlock, NoneStranded, Fresh, Served,
           EndedIsError, Unconnected, TypeOK, Matchable, Replies
<1>20. ASSUME NEW c \in Closers \cup {Connector}, WritersDone(c) PROVE Inv'
  BY <1>20 DEF WritersDone, Inv, SendsNeverBlock, NoneStranded, Fresh, Served,
           EndedIsError, Unconnected, TypeOK, Matchable, Replies
<1>21. ASSUME NEW c \in Closers \cup {Connector}, Reaped(c) PROVE Inv'
  BY <1>21 DEF Reaped, Inv, SendsNeverBlock, NoneStranded, Fresh, Served,
           EndedIsError, Unconnected, TypeOK, Matchable, Replies
<1>22. ASSUME NEW c \in Closers \cup {Connector}, CloseReturns(c) PROVE Inv'
  BY <1>22 DEF CloseReturns, Inv, SendsNeverBlock, NoneStranded, Fresh,
           Served, EndedIsError, Unconnected, TypeOK, Matchable, Replies
<1>23. ASSUME Match PROVE Inv'
  BY <1>23 DEF Match, TakeOut, Inv, SendsNeverBlock, NoneStranded, Fresh,
           Served, EndedIsError, Unconnected, TypeOK, Matchable, Replies
<1>24. ASSUME Unmatched PROVE Inv'
  BY <1>24 DEF Unmatched, Garbage, Inv, SendsNeverBlock, NoneStranded, Fresh,
           Served, EndedIsError, Unconnected, TypeOK, Matchable, Replies
<1>25. ASSUME Deliver PROVE Inv'
  BY <1>25 DEF Deliver, Inv, SendsNeverBlock, NoneStranded, Fresh, Served,
           EndedIsError, Unconnected, TypeOK, Matchable, Replies
<1>26. ASSUME ReadEnds PROVE Inv'
  BY <1>26 DEF ReadEnds, Garbage, FailPending, Inv, SendsNeverBlock,
           NoneStranded, Fresh, Served, EndedIsError, Unconnected, TypeOK,
           Matchable, Replies
<1>27. ASSUME NEW c \in Writers, WriteSucceeds(c) PROVE Inv'
  BY <1>27 DEF WriteSucceeds, Inv, SendsNeverBlock, NoneStranded, Fresh,
           Served, EndedIsError, Unconnected, TypeOK, Matchable, Replies
<1>28. ASSUME NEW c \in Writers, WriteFails(c) PROVE Inv'
  BY <1>28 DEF WriteFails, Inv, SendsNeverBlock, NoneStranded, Fresh, Served,
           EndedIsError, Unconnected, TypeOK, Matchable, Replies
<1>29. ASSUME NEW c \in Writers, Cancel(c) PROVE Inv'
  BY <1>29 DEF Cancel, Inv, SendsNeverBlock, NoneStranded, Fresh, Served,
           EndedIsError, Unconnected, TypeOK, Matchable, Replies
<1>30. ASSUME NEW s \in Senders, ServerAnswers(s) PROVE Inv'
  BY <1>30 DEF ServerAnswers, ServerWrites, Inv, SendsNeverBlock,
           NoneStranded, Fresh, Served, EndedIsError, Unconnected, TypeOK,
           Matchable, Replies
<1>31. ASSUME NEW s \in Senders, ServerAsks(s) PROVE Inv'
  BY <1>31 DEF ServerAsks, ServerWrites, Inv, SendsNeverBlock, NoneStranded,
           Fresh, Served, EndedIsError, Unconnected, TypeOK, Matchable,
           Replies
<1>32. ASSUME ServerGarbles PROVE Inv'
  BY <1>32 DEF ServerGarbles, ServerWrites, Garbage, Inv, SendsNeverBlock,
           NoneStranded, Fresh, Served, EndedIsError, Unconnected, TypeOK,
           Matchable, Replies
<1>33. ASSUME Dies PROVE Inv'
  BY <1>33 DEF Dies, Inv, SendsNeverBlock, NoneStranded, Fresh, Served,
           EndedIsError, Unconnected, TypeOK, Matchable, Replies
<1>34. ASSUME Killed PROVE Inv'
  BY <1>34 DEF Killed, Dies, Inv, SendsNeverBlock, NoneStranded, Fresh,
           Served, EndedIsError, Unconnected, TypeOK, Matchable, Replies
<1>35. ASSUME ProcessWaited PROVE Inv'
  BY <1>35 DEF ProcessWaited, Inv, SendsNeverBlock, NoneStranded, Fresh,
           Served, EndedIsError, Unconnected, TypeOK, Matchable, Replies
<1>36. CASE UNCHANGED vars
  BY <1>36 DEF vars, Inv, SendsNeverBlock, NoneStranded, Fresh, Served,
           EndedIsError, Unconnected, TypeOK, Matchable, Replies
<1> QED
  BY <1>1, <1>2, <1>3, <1>4, <1>5, <1>6, <1>7, <1>8, <1>9, <1>10,
     <1>11, <1>12, <1>13, <1>14, <1>15, <1>16, <1>17, <1>18, <1>19, <1>20,
     <1>21, <1>22, <1>23, <1>24, <1>25, <1>26, <1>27, <1>28, <1>29, <1>30,
     <1>31, <1>32, <1>33, <1>34, <1>35, <1>36
     DEF Next, Send, Close, ReadLoop, Server

\* The invariant of the call table holds.
LEMMA TableInvariant == Spec => []Inv
  BY TypeCorrect, InvInit, InvStep, PTL DEF Spec

\* Nobody ever waits for room in a call's channel: a sweep under t.mu cannot
\* block the transport (transport.go:388, 416, 431, 449, 474, 628).
THEOREM NeverBlock == Spec => []SendsNeverBlock
<1>1. Inv => SendsNeverBlock
  BY DEF Inv
<1> QED
  BY <1>1, TableInvariant, PTL

\* A Send that waits is never forgotten, also one that registers while the read
\* loop ends or Close sweeps the table (transport.go:383-455, 462-498,
\* 624-636).
THEOREM AllHear == Spec => []EveryCallHears
<1>1. Inv => EveryCallHears
  BY DEF Inv, NoneStranded, Served, EveryCallHears
<1> QED
  BY <1>1, TableInvariant, PTL

-----------------------------------------------------------------------------
(* The refinement of RpcService. *)

\* Where answers come from: a call is received once, after it was written,
\* and what the transport takes for an answer to it the server has sent.
Origin ==
  /\ \A i \in 1..Len(out) :
       out[i] # Garbage /\ out[i].kind = "answer" => out[i].call \in replied
  /\ reader = "sending" /\ held.kind = "answer" => held.call \in replied
  /\ \A s \in Senders : ch[s] = "answer" => s \in replied
  /\ \A s \in Senders : s \in received => s \notin replied
  /\ \A s \in Senders : s \in received \cup replied => writer[s] = "ok"
  /\ \A s \in Senders : writer[s] # "none" => pc[s] \notin {"idle", "queued"}

\* Before Connect the server has been sent nothing (transport.go:287-374).
LEMMA OriginInit == Init => Origin
  BY DEF Init, Origin

\* Every step keeps Origin, also when the server sends requests of its own.
LEMMA OriginStep ==
  ASSUME TypeOK, Inv, Origin, [Next]_vars
  PROVE  Origin'
<1> USE TypeOK, Origin
<1>1. ASSUME ConnectFails PROVE Origin'
  BY <1>1 DEF ConnectFails, Origin, TypeOK, Matchable, Garbage, Replies
<1>2. ASSUME Connect PROVE Origin'
  BY <1>2 DEF Connect, Origin, TypeOK, Matchable, Garbage, Replies
<1>3. ASSUME ConnectExited PROVE Origin'
  BY <1>3 DEF ConnectExited, Origin, TypeOK, Matchable, Garbage, Replies
<1>4. ASSUME NEW s \in Senders, SendRefused(s) PROVE Origin'
  BY <1>4 DEF SendRefused, Accepting, Return, Origin, TypeOK, Matchable,
           Garbage, Replies
<1>5. ASSUME NEW s \in Senders, Register(s) PROVE Origin'
  BY <1>5 DEF Register, Accepting, Origin, TypeOK, Matchable, Garbage, Replies
<1>6. ASSUME NEW s \in Senders, MarshalFails(s) PROVE Origin'
  BY <1>6 DEF MarshalFails, Withdraw, Return, Origin, TypeOK, Matchable,
           Garbage, Replies
<1>7. ASSUME NEW s \in Senders, SendWrites(s) PROVE Origin'
  BY <1>7 DEF SendWrites, StartWrite, Origin, TypeOK, Matchable, Garbage,
           Replies
<1>8. ASSUME NEW s \in Senders, SendCancelledWriting(s) PROVE Origin'
  BY <1>8 DEF SendCancelledWriting, UnlockCancelled, Withdraw, Return, Origin,
           TypeOK, Matchable, Garbage, Replies
<1>9. ASSUME NEW s \in Senders, SendWritten(s) PROVE Origin'
  BY <1>9 DEF SendWritten, Origin, TypeOK, Matchable, Garbage, Replies
<1>10. ASSUME NEW s \in Senders, SendWriteFailed(s) PROVE Origin'
  BY <1>10 DEF SendWriteFailed, Withdraw, Return, Origin, TypeOK, Matchable,
           Garbage, Replies
<1>11. ASSUME NEW s \in Senders, SendAnswered(s) PROVE Origin'
  BY <1>11 DEF SendAnswered, Return, Origin, TypeOK, Matchable, Garbage,
           Replies
<1>12. ASSUME NEW s \in Senders, SendCancelled(s) PROVE Origin'
  BY <1>12 DEF SendCancelled, Withdraw, Return, Origin, TypeOK, Matchable,
           Garbage, Replies
<1>13. ASSUME NEW n \in Notifiers, NotifyCalled(n) PROVE Origin'
  BY <1>13 DEF NotifyCalled, Origin, TypeOK, Matchable, Garbage, Replies
<1>14. ASSUME NEW n \in Notifiers, NotifyRefused(n) PROVE Origin'
  BY <1>14 DEF NotifyRefused, Origin, TypeOK, Matchable, Garbage, Replies
<1>15. ASSUME NEW n \in Notifiers, NotifyWrites(n) PROVE Origin'
  BY <1>15 DEF NotifyWrites, StartWrite, Origin, TypeOK, Matchable, Garbage,
           Replies
<1>16. ASSUME NEW n \in Notifiers, NotifyReturns(n) PROVE Origin'
  BY <1>16 DEF NotifyReturns, Origin, TypeOK, Matchable, Garbage, Replies
<1>17. ASSUME NEW c \in Closers \cup {Connector}, CloseAgain(c) PROVE Origin'
  BY <1>17 DEF CloseAgain, MayClose, Origin, TypeOK, Matchable, Garbage,
           Replies
<1>18. ASSUME NEW c \in Closers \cup {Connector}, CloseBegins(c)
     PROVE  Origin'
  BY <1>18 DEF CloseBegins, MayClose, FailPending, ArmKill, Origin, TypeOK,
           Matchable, Garbage, Replies
<1>19. ASSUME NEW c \in Closers \cup {Connector}, CloseStdin(c) PROVE Origin'
  BY <1>19 DEF CloseStdin, Origin, TypeOK, Matchable, Garbage, Replies
<1>20. ASSUME NEW c \in Closers \cup {Connector}, WritersDone(c)
     PROVE  Origin'
  BY <1>20 DEF WritersDone, Origin, TypeOK, Matchable, Garbage, Replies
<1>21. ASSUME NEW c \in Closers \cup {Connector}, Reaped(c) PROVE Origin'
  BY <1>21 DEF Reaped, Origin, TypeOK, Matchable, Garbage, Replies
<1>22. ASSUME NEW c \in Closers \cup {Connector}, CloseReturns(c)
     PROVE  Origin'
  BY <1>22 DEF CloseReturns, Origin, TypeOK, Matchable, Garbage, Replies
<1>23. ASSUME Match PROVE Origin'
  <2>1. out # <<>> /\ out' = Tail(out)
    BY <1>23 DEF Match
  <2>2. \A i \in 1..Len(out') : i + 1 \in 1..Len(out) /\ out'[i] = out[i + 1]
    BY <2>1 DEF TypeOK
  <2>3. Head(out) = out[1] /\ 1 \in 1..Len(out)
    BY <2>1 DEF TypeOK
  <2>4. Head(out) # Garbage
    BY <1>23 DEF Match, TypeOK, Garbage
  <2>5. held' = Head(out) /\ UNCHANGED <<replied, received, ch, writer, pc>>
    BY <1>23 DEF Match, callVars, writeVars
  <2>6. held'.kind = "answer" => held'.call \in replied'
    BY <2>3, <2>4, <2>5 DEF Origin
  <2>7. \A i \in 1..Len(out') :
          out'[i] # Garbage /\ out'[i].kind = "answer"
            => out'[i].call \in replied'
    BY <2>2, <2>5 DEF Origin
  <2> QED
    BY <2>5, <2>6, <2>7 DEF Origin
<1>24. ASSUME Unmatched PROVE Origin'
  <2>1. out # <<>> /\ out' = Tail(out)
    BY <1>24 DEF Unmatched
  <2>2. \A i \in 1..Len(out') : i + 1 \in 1..Len(out) /\ out'[i] = out[i + 1]
    BY <2>1 DEF TypeOK
  <2>3. Head(out) = out[1] /\ 1 \in 1..Len(out)
    BY <2>1 DEF TypeOK
  <2> QED
    BY <1>24, <2>2, <2>3 DEF Unmatched, Origin, TypeOK, Matchable,
       Garbage, Replies
<1>25. ASSUME Deliver PROVE Origin'
  BY <1>25 DEF Deliver, Origin, TypeOK, Matchable, Garbage, Replies
<1>26. ASSUME ReadEnds PROVE Origin'
  BY <1>26 DEF ReadEnds, FailPending, Origin, TypeOK, Matchable, Garbage,
           Replies
<1>27. ASSUME NEW c \in Writers, WriteSucceeds(c) PROVE Origin'
  BY <1>27 DEF WriteSucceeds, Origin, TypeOK, Matchable, Garbage, Replies
<1>28. ASSUME NEW c \in Writers, WriteFails(c) PROVE Origin'
  BY <1>28 DEF WriteFails, Origin, TypeOK, Matchable, Garbage, Replies
<1>29. ASSUME NEW c \in Writers, Cancel(c) PROVE Origin'
  BY <1>29 DEF Cancel, Origin, TypeOK, Matchable, Garbage, Replies
<1>30. ASSUME NEW s \in Senders, ServerAnswers(s) PROVE Origin'
  BY <1>30 DEF ServerAnswers, ServerWrites, Origin, TypeOK, Matchable,
           Garbage, Replies
<1>31. ASSUME NEW s \in Senders, ServerAsks(s) PROVE Origin'
  BY <1>31 DEF ServerAsks, ServerWrites, Origin, TypeOK, Matchable, Garbage,
           Replies
<1>32. ASSUME ServerGarbles PROVE Origin'
  BY <1>32 DEF ServerGarbles, ServerWrites, Origin, TypeOK, Matchable,
           Garbage, Replies
<1>33. ASSUME Dies PROVE Origin'
  BY <1>33 DEF Dies, Origin, TypeOK, Matchable, Garbage, Replies
<1>34. ASSUME Killed PROVE Origin'
  BY <1>34 DEF Killed, Dies, Origin, TypeOK, Matchable, Garbage, Replies
<1>35. ASSUME ProcessWaited PROVE Origin'
  BY <1>35 DEF ProcessWaited, Origin, TypeOK, Matchable, Garbage, Replies
<1>36. CASE UNCHANGED vars
  BY <1>36 DEF vars, Origin, TypeOK, Matchable, Garbage, Replies
<1> QED
  BY <1>1, <1>2, <1>3, <1>4, <1>5, <1>6, <1>7, <1>8, <1>9, <1>10,
     <1>11, <1>12, <1>13, <1>14, <1>15, <1>16, <1>17, <1>18, <1>19, <1>20,
     <1>21, <1>22, <1>23, <1>24, <1>25, <1>26, <1>27, <1>28, <1>29, <1>30,
     <1>31, <1>32, <1>33, <1>34, <1>35, <1>36
     DEF Next, Send, Close, ReadLoop, Server

\* Init maps to the initial state of RpcService.
LEMMA MapInit == Init => Rpc!Init
  BY DEF Init, Rpc!Init, LifeOf, Phases, PhaseOf

\* Every step maps to a step of RpcService or to a stutter.
LEMMA MapStep ==
  ASSUME TypeOK, Origin, [Next]_vars
  PROVE  [Rpc!Next]_(Rpc!vars)
<1> USE TypeOK, Origin
<1> USE DEF Rpc!Next, Rpc!vars
<1>1. ASSUME ConnectFails PROVE [Rpc!Next]_(Rpc!vars)
  BY <1>1 DEF ConnectFails, LifeOf, Phases, PhaseOf, TypeOK, Origin,
           Rpc!Connect, Rpc!GoDown, Rpc!Begin, Rpc!Refuse, Rpc!Reply,
           Rpc!Answer, Rpc!Fail
<1>2. ASSUME Connect PROVE [Rpc!Next]_(Rpc!vars)
  BY <1>2 DEF Connect, LifeOf, Phases, PhaseOf, TypeOK, Origin, Rpc!Connect,
           Rpc!GoDown, Rpc!Begin, Rpc!Refuse, Rpc!Reply, Rpc!Answer, Rpc!Fail
<1>3. ASSUME ConnectExited PROVE [Rpc!Next]_(Rpc!vars)
  BY <1>3 DEF ConnectExited, LifeOf, Phases, PhaseOf, TypeOK, Origin,
           Rpc!Connect, Rpc!GoDown, Rpc!Begin, Rpc!Refuse, Rpc!Reply,
           Rpc!Answer, Rpc!Fail
<1>4. ASSUME NEW s \in Senders, SendRefused(s) PROVE [Rpc!Next]_(Rpc!vars)
  <2>1. Phases' = [Phases EXCEPT ![s] = "failed"]
    BY <1>4 DEF SendRefused,
           Accepting, Return, Phases, PhaseOf, TypeOK
  <2>2. Rpc!Refuse(s)
    BY <1>4, <2>1 DEF SendRefused, Accepting, Return,
           Rpc!Refuse, Phases, PhaseOf, LifeOf, TypeOK
  <2> QED
    BY <2>2
<1>5. ASSUME NEW s \in Senders, Register(s) PROVE [Rpc!Next]_(Rpc!vars)
  <2>1. Phases' = [Phases EXCEPT ![s] = "open"]
    BY <1>5 DEF Register,
           Accepting, Phases, PhaseOf, TypeOK
  <2>2. Rpc!Begin(s)
    BY <1>5, <2>1 DEF Register, Accepting, Rpc!Begin,
           Phases, PhaseOf, LifeOf, TypeOK
  <2> QED
    BY <2>2
<1>6. ASSUME NEW s \in Senders, MarshalFails(s) PROVE [Rpc!Next]_(Rpc!vars)
  <2>1. Phases' = [Phases EXCEPT ![s] = "failed"]
    BY <1>6 DEF MarshalFails,
           Withdraw, Return, Phases, PhaseOf, TypeOK
  <2>2. Rpc!Fail(s)
    BY <1>6, <2>1 DEF MarshalFails, Withdraw, Return,
           Rpc!Fail, Phases, PhaseOf, LifeOf, TypeOK
  <2> QED
    BY <2>2
<1>7. ASSUME NEW s \in Senders, SendWrites(s) PROVE [Rpc!Next]_(Rpc!vars)
  BY <1>7 DEF SendWrites, StartWrite, LifeOf, Phases, PhaseOf, TypeOK, Origin,
           Rpc!Connect, Rpc!GoDown, Rpc!Begin, Rpc!Refuse, Rpc!Reply,
           Rpc!Answer, Rpc!Fail
<1>8. ASSUME NEW s \in Senders, SendCancelledWriting(s)
     PROVE  [Rpc!Next]_(Rpc!vars)
  <2>1. Phases' = [Phases EXCEPT ![s] = "failed"]
    BY <1>8 DEF SendCancelledWriting,
           UnlockCancelled, Withdraw, Return, Phases, PhaseOf, TypeOK
  <2>2. Rpc!Fail(s)
    BY <1>8, <2>1 DEF SendCancelledWriting, UnlockCancelled,
           Withdraw, Return, Rpc!Fail, Phases, PhaseOf, LifeOf, TypeOK
  <2> QED
    BY <2>2
<1>9. ASSUME NEW s \in Senders, SendWritten(s) PROVE [Rpc!Next]_(Rpc!vars)
  BY <1>9 DEF SendWritten, LifeOf, Phases, PhaseOf, TypeOK, Origin,
           Rpc!Connect, Rpc!GoDown, Rpc!Begin, Rpc!Refuse, Rpc!Reply,
           Rpc!Answer, Rpc!Fail
<1>10. ASSUME NEW s \in Senders, SendWriteFailed(s)
     PROVE  [Rpc!Next]_(Rpc!vars)
  <2>1. Phases' = [Phases EXCEPT ![s] = "failed"]
    BY <1>10 DEF SendWriteFailed,
           Withdraw, Return, Phases, PhaseOf, TypeOK
  <2>2. Rpc!Fail(s)
    BY <1>10, <2>1 DEF SendWriteFailed, Withdraw, Return,
           Rpc!Fail, Phases, PhaseOf, LifeOf, TypeOK
  <2> QED
    BY <2>2
<1>11. ASSUME NEW s \in Senders, SendAnswered(s) PROVE [Rpc!Next]_(Rpc!vars)
  <2>1. CASE ch[s] = "answer"
    <3>1. Phases' = [Phases EXCEPT ![s] = "answered"]
      BY <1>11, <2>1 DEF SendAnswered, Return, Phases, PhaseOf, TypeOK
    <3>2. Rpc!Answer(s)
      BY <1>11, <2>1, <3>1 DEF SendAnswered, Return, Rpc!Answer, Phases, PhaseOf,
         LifeOf, TypeOK, Origin
    <3> QED
      BY <3>2
  <2>2. CASE ch[s] # "answer"
    <3>1. ch[s] # "answer"
      BY <2>2
    <3>2. Phases' = [Phases EXCEPT ![s] = "failed"]
      BY <1>11, <3>1 DEF SendAnswered, Return, Phases, PhaseOf, TypeOK
    <3>3. Rpc!Fail(s)
      BY <1>11, <3>2 DEF SendAnswered, Return, Rpc!Fail, Phases, PhaseOf, LifeOf
    <3> QED
      BY <3>3
  <2> QED
    BY <2>1, <2>2
<1>12. ASSUME NEW s \in Senders, SendCancelled(s) PROVE [Rpc!Next]_(Rpc!vars)
  <2>1. Phases' = [Phases EXCEPT ![s] = "failed"]
    BY <1>12 DEF SendCancelled,
           Withdraw, Return, Phases, PhaseOf, TypeOK
  <2>2. Rpc!Fail(s)
    BY <1>12, <2>1 DEF SendCancelled, Withdraw, Return,
           Rpc!Fail, Phases, PhaseOf, LifeOf, TypeOK
  <2> QED
    BY <2>2
<1>13. ASSUME NEW n \in Notifiers, NotifyCalled(n)
     PROVE  [Rpc!Next]_(Rpc!vars)
  <2>1. n \notin Senders
    OBVIOUS
  <2>2. \A s \in Senders : pc'[s] = pc[s]
    BY <1>13, <2>1 DEF NotifyCalled, TypeOK
  <2>3. Phases' = Phases
    BY <1>13, <2>2 DEF NotifyCalled, Phases, PhaseOf
  <2> QED
    BY <1>13, <2>3 DEF NotifyCalled, LifeOf
<1>14. ASSUME NEW n \in Notifiers, NotifyRefused(n)
     PROVE  [Rpc!Next]_(Rpc!vars)
  <2>1. n \notin Senders
    OBVIOUS
  <2>2. \A s \in Senders : pc'[s] = pc[s]
    BY <1>14, <2>1 DEF NotifyRefused, TypeOK
  <2>3. Phases' = Phases
    BY <1>14, <2>2 DEF NotifyRefused, Phases, PhaseOf
  <2> QED
    BY <1>14, <2>3 DEF NotifyRefused, LifeOf
<1>15. ASSUME NEW n \in Notifiers, NotifyWrites(n)
     PROVE  [Rpc!Next]_(Rpc!vars)
  <2>1. n \notin Senders
    OBVIOUS
  <2>2. \A s \in Senders : pc'[s] = pc[s]
    BY <1>15, <2>1 DEF NotifyWrites, TypeOK
  <2>3. Phases' = Phases
    BY <1>15, <2>2 DEF NotifyWrites, Phases, PhaseOf
  <2> QED
    BY <1>15, <2>3 DEF NotifyWrites, LifeOf
<1>16. ASSUME NEW n \in Notifiers, NotifyReturns(n)
     PROVE  [Rpc!Next]_(Rpc!vars)
  <2>1. n \notin Senders
    OBVIOUS
  <2>2. \A s \in Senders : pc'[s] = pc[s]
    BY <1>16, <2>1 DEF NotifyReturns, TypeOK
  <2>3. Phases' = Phases
    BY <1>16, <2>2 DEF NotifyReturns, Phases, PhaseOf
  <2> QED
    BY <1>16, <2>3 DEF NotifyReturns, LifeOf
<1>17. ASSUME NEW c \in Closers \cup {Connector}, CloseAgain(c)
     PROVE  [Rpc!Next]_(Rpc!vars)
  <2>1. c \notin Senders
    OBVIOUS
  <2>2. \A s \in Senders : pc'[s] = pc[s]
    BY <1>17, <2>1 DEF CloseAgain, TypeOK
  <2>3. Phases' = Phases
    BY <1>17, <2>2 DEF CloseAgain, Phases, PhaseOf
  <2> QED
    BY <1>17, <2>3 DEF CloseAgain, LifeOf
<1>18. ASSUME NEW c \in Closers \cup {Connector}, CloseBegins(c)
     PROVE  [Rpc!Next]_(Rpc!vars)
  <2>1. c \notin Senders
    OBVIOUS
  <2>2. \A s \in Senders : pc'[s] = pc[s]
    BY <1>18, <2>1 DEF CloseBegins, TypeOK
  <2>3. Phases' = Phases
    BY <1>18, <2>2 DEF CloseBegins, Phases, PhaseOf
  <2>4. LifeOf' = "down" /\ replied' = replied
    BY <1>18 DEF CloseBegins, LifeOf, serverVars
  <2>5. LifeOf = "down" \/ Rpc!GoDown
    BY <2>3, <2>4 DEF Rpc!GoDown
  <2> QED
    BY <2>3, <2>4, <2>5 DEF Rpc!Next, Rpc!vars
<1>19. ASSUME NEW c \in Closers \cup {Connector}, CloseStdin(c)
     PROVE  [Rpc!Next]_(Rpc!vars)
  <2>1. c \notin Senders
    OBVIOUS
  <2>2. \A s \in Senders : pc'[s] = pc[s]
    BY <1>19, <2>1 DEF CloseStdin, TypeOK
  <2>3. Phases' = Phases
    BY <1>19, <2>2 DEF CloseStdin, Phases, PhaseOf
  <2> QED
    BY <1>19, <2>3 DEF CloseStdin, LifeOf
<1>20. ASSUME NEW c \in Closers \cup {Connector}, WritersDone(c)
     PROVE  [Rpc!Next]_(Rpc!vars)
  <2>1. c \notin Senders
    OBVIOUS
  <2>2. \A s \in Senders : pc'[s] = pc[s]
    BY <1>20, <2>1 DEF WritersDone, TypeOK
  <2>3. Phases' = Phases
    BY <1>20, <2>2 DEF WritersDone, Phases, PhaseOf
  <2> QED
    BY <1>20, <2>3 DEF WritersDone, LifeOf
<1>21. ASSUME NEW c \in Closers \cup {Connector}, Reaped(c)
     PROVE  [Rpc!Next]_(Rpc!vars)
  <2>1. c \notin Senders
    OBVIOUS
  <2>2. \A s \in Senders : pc'[s] = pc[s]
    BY <1>21, <2>1 DEF Reaped, TypeOK
  <2>3. Phases' = Phases
    BY <1>21, <2>2 DEF Reaped, Phases, PhaseOf
  <2> QED
    BY <1>21, <2>3 DEF Reaped, LifeOf
<1>22. ASSUME NEW c \in Closers \cup {Connector}, CloseReturns(c)
     PROVE  [Rpc!Next]_(Rpc!vars)
  <2>1. c \notin Senders
    OBVIOUS
  <2>2. \A s \in Senders : pc'[s] = pc[s]
    BY <1>22, <2>1 DEF CloseReturns, TypeOK
  <2>3. Phases' = Phases
    BY <1>22, <2>2 DEF CloseReturns, Phases, PhaseOf
  <2> QED
    BY <1>22, <2>3 DEF CloseReturns, LifeOf
<1>23. ASSUME Match PROVE [Rpc!Next]_(Rpc!vars)
  BY <1>23 DEF Match, TakeOut, LifeOf, Phases, PhaseOf, TypeOK, Origin,
           Rpc!Connect, Rpc!GoDown, Rpc!Begin, Rpc!Refuse, Rpc!Reply,
           Rpc!Answer, Rpc!Fail
<1>24. ASSUME Unmatched PROVE [Rpc!Next]_(Rpc!vars)
  BY <1>24 DEF Unmatched, Garbage, LifeOf, Phases, PhaseOf, TypeOK, Origin,
           Rpc!Connect, Rpc!GoDown, Rpc!Begin, Rpc!Refuse, Rpc!Reply,
           Rpc!Answer, Rpc!Fail
<1>25. ASSUME Deliver PROVE [Rpc!Next]_(Rpc!vars)
  BY <1>25 DEF Deliver, LifeOf, Phases, PhaseOf, TypeOK, Origin, Rpc!Connect,
           Rpc!GoDown, Rpc!Begin, Rpc!Refuse, Rpc!Reply, Rpc!Answer, Rpc!Fail
<1>26. ASSUME ReadEnds PROVE [Rpc!Next]_(Rpc!vars)
  BY <1>26 DEF ReadEnds, Garbage, FailPending, LifeOf, Phases, PhaseOf,
           TypeOK, Origin, Rpc!Connect, Rpc!GoDown, Rpc!Begin, Rpc!Refuse,
           Rpc!Reply, Rpc!Answer, Rpc!Fail
<1>27. ASSUME NEW c \in Writers, WriteSucceeds(c) PROVE [Rpc!Next]_(Rpc!vars)
  BY <1>27 DEF WriteSucceeds, LifeOf, Phases, PhaseOf, TypeOK, Origin,
           Rpc!Connect, Rpc!GoDown, Rpc!Begin, Rpc!Refuse, Rpc!Reply,
           Rpc!Answer, Rpc!Fail
<1>28. ASSUME NEW c \in Writers, WriteFails(c) PROVE [Rpc!Next]_(Rpc!vars)
  BY <1>28 DEF WriteFails, LifeOf, Phases, PhaseOf, TypeOK, Origin,
           Rpc!Connect, Rpc!GoDown, Rpc!Begin, Rpc!Refuse, Rpc!Reply,
           Rpc!Answer, Rpc!Fail
<1>29. ASSUME NEW c \in Writers, Cancel(c) PROVE [Rpc!Next]_(Rpc!vars)
  BY <1>29 DEF Cancel, LifeOf, Phases, PhaseOf, TypeOK, Origin, Rpc!Connect,
           Rpc!GoDown, Rpc!Begin, Rpc!Refuse, Rpc!Reply, Rpc!Answer, Rpc!Fail
<1>30. ASSUME NEW s \in Senders, ServerAnswers(s) PROVE [Rpc!Next]_(Rpc!vars)
  BY <1>30 DEF ServerAnswers, ServerWrites, LifeOf, Phases, PhaseOf, TypeOK,
           Origin, Rpc!Connect, Rpc!GoDown, Rpc!Begin, Rpc!Refuse, Rpc!Reply,
           Rpc!Answer, Rpc!Fail
<1>31. ASSUME NEW s \in Senders, ServerAsks(s) PROVE [Rpc!Next]_(Rpc!vars)
  BY <1>31 DEF ServerAsks, ServerWrites, LifeOf, Phases, PhaseOf, TypeOK,
           Origin, Rpc!Connect, Rpc!GoDown, Rpc!Begin, Rpc!Refuse, Rpc!Reply,
           Rpc!Answer, Rpc!Fail
<1>32. ASSUME ServerGarbles PROVE [Rpc!Next]_(Rpc!vars)
  BY <1>32 DEF ServerGarbles, ServerWrites, Garbage, LifeOf, Phases, PhaseOf,
           TypeOK, Origin, Rpc!Connect, Rpc!GoDown, Rpc!Begin, Rpc!Refuse,
           Rpc!Reply, Rpc!Answer, Rpc!Fail
<1>33. ASSUME Dies PROVE [Rpc!Next]_(Rpc!vars)
  BY <1>33 DEF Dies, LifeOf, Phases, PhaseOf, TypeOK, Origin, Rpc!Connect,
           Rpc!GoDown, Rpc!Begin, Rpc!Refuse, Rpc!Reply, Rpc!Answer, Rpc!Fail
<1>34. ASSUME Killed PROVE [Rpc!Next]_(Rpc!vars)
  BY <1>34 DEF Killed, Dies, LifeOf, Phases, PhaseOf, TypeOK, Origin,
           Rpc!Connect, Rpc!GoDown, Rpc!Begin, Rpc!Refuse, Rpc!Reply,
           Rpc!Answer, Rpc!Fail
<1>35. ASSUME ProcessWaited PROVE [Rpc!Next]_(Rpc!vars)
  BY <1>35 DEF ProcessWaited, LifeOf, Phases, PhaseOf, TypeOK, Origin,
           Rpc!Connect, Rpc!GoDown, Rpc!Begin, Rpc!Refuse, Rpc!Reply,
           Rpc!Answer, Rpc!Fail
<1>36. CASE UNCHANGED vars
  BY <1>36 DEF vars, LifeOf, Phases, PhaseOf, TypeOK, Origin, Rpc!Connect,
           Rpc!GoDown, Rpc!Begin, Rpc!Refuse, Rpc!Reply, Rpc!Answer, Rpc!Fail
<1> QED
  BY <1>1, <1>2, <1>3, <1>4, <1>5, <1>6, <1>7, <1>8, <1>9, <1>10,
     <1>11, <1>12, <1>13, <1>14, <1>15, <1>16, <1>17, <1>18, <1>19, <1>20,
     <1>21, <1>22, <1>23, <1>24, <1>25, <1>26, <1>27, <1>28, <1>29, <1>30,
     <1>31, <1>32, <1>33, <1>34, <1>35, <1>36
     DEF Next, Send, Close, ReadLoop, Server

\* The transport does what RpcService promises, whatever the server
\* sends: a call ends once, with the server's answer to that very call or with
\* an error (transport.go:74-83, 376-560).
THEOREM Refinement == Spec => ImplementsRpc
<1>1. Spec => []Origin
  BY TypeCorrect, TableInvariant, OriginInit, OriginStep, PTL DEF Spec
<1> QED
  BY <1>1, TypeCorrect, MapInit, MapStep, PTL DEF Spec, ImplementsRpc, Rpc!Spec

=============================================================================

--------------------------- MODULE TurnManagerProofs ---------------------------
(***************************************************************************)
(* Type correctness and safety of TurnManager, for every number of runs,   *)
(* sessions, calls, rounds and steering inputs.  The variables are typed   *)
(* in groups: a step is proved by the groups it changes, and Frames        *)
(* carries over the others.  For safety every action of a run is first     *)
(* summarised by what it does to the lock, to the approval exchange and to *)
(* its own progress; the invariants are proved from the summaries alone.   *)
(***************************************************************************)
EXTENDS TurnManager, TLAPS

USE ConstantsAssumption
USE DEF localVars, callVars, streamVars, roundVars, sharedVars, lockVars,
        turnVars, chanVars, apprVars, planVars, steerVars, effectVars, evVars,
        storeVars, histVars, Go, At, Step

-----------------------------------------------------------------------------
(* Groups of variables, and the names the actions use. *)

\* A group of variables that does not change keeps its types.
LEMMA Frames ==
  /\ CallTypes /\ UNCHANGED callVars => CallTypes'
  /\ StreamTypes /\ UNCHANGED streamVars => StreamTypes'
  /\ RoundTypes /\ UNCHANGED roundVars => RoundTypes'
  /\ LockTypes /\ UNCHANGED lockVars => LockTypes'
  /\ TurnTypes /\ UNCHANGED turnVars => TurnTypes'
  /\ ApprTypes /\ UNCHANGED apprVars => ApprTypes'
  /\ PlanTypes /\ UNCHANGED planVars => PlanTypes'
  /\ SteerTypes /\ UNCHANGED steerVars => SteerTypes'
  /\ EvTypes /\ UNCHANGED evVars => EvTypes'
  /\ StoreTypes /\ UNCHANGED storeVars => StoreTypes'
  /\ HistTypes /\ UNCHANGED histVars => HistTypes'
  <1>1. CallTypes /\ UNCHANGED callVars => CallTypes'
    BY DEF CallTypes
  <1>2. StreamTypes /\ UNCHANGED streamVars => StreamTypes'
    BY DEF StreamTypes
  <1>3. RoundTypes /\ UNCHANGED roundVars => RoundTypes'
    BY DEF RoundTypes
  <1>4. LockTypes /\ UNCHANGED lockVars => LockTypes'
    BY DEF LockTypes
  <1>5. TurnTypes /\ UNCHANGED turnVars => TurnTypes'
    BY DEF TurnTypes
  <1>6. ApprTypes /\ UNCHANGED apprVars => ApprTypes'
    BY DEF ApprTypes
  <1>7. PlanTypes /\ UNCHANGED planVars => PlanTypes'
    BY DEF PlanTypes
  <1>8. SteerTypes /\ UNCHANGED steerVars => SteerTypes'
    BY DEF SteerTypes
  <1>9. EvTypes /\ UNCHANGED evVars => EvTypes'
    BY DEF EvTypes
  <1>10. StoreTypes /\ UNCHANGED storeVars => StoreTypes'
    BY DEF StoreTypes
  <1>11. HistTypes /\ UNCHANGED histVars => HistTypes'
    BY DEF HistTypes
  <1> QED
    BY <1>1, <1>2, <1>3, <1>4, <1>5, <1>6, <1>7, <1>8, <1>9, <1>10, <1>11

\* A run that moves to a pc there is.
LEMMA PcType ==
  ASSUME TypeOK, NEW r, NEW p \in Pcs, pc' = [pc EXCEPT ![r] = p]
  PROVE  pc' \in [Runs -> Pcs]
  BY DEF TypeOK

\* A turn that changes its state, and the row it is saved in.
LEMMA StateType ==
  ASSUME TypeOK, NEW r \in Runs, NEW s \in States
  PROVE  /\ [turnState EXCEPT ![r] = s] \in [Runs -> States]
         /\ [row EXCEPT ![r] = s] \in [Runs -> States]
  BY DEF TypeOK, TurnTypes, StoreTypes

\* The variables of a run that the leaves below compute with.
LEMMA Locals ==
  ASSUME TypeOK, NEW r \in Runs
  PROVE  /\ calls[r] \in 0..MaxCalls /\ idx[r] \in 1..(MaxCalls + 1)
         /\ round[r] \in Nat /\ 1 \in 1..(MaxCalls + 1)
         /\ idx[r] <= calls[r] => /\ idx[r] \in Calls /\ idx[r] \in 0..MaxCalls
                                  /\ idx[r] + 1 \in 1..(MaxCalls + 1)
  <1>1. calls \in [Runs -> 0..MaxCalls] /\ idx \in [Runs -> 1..(MaxCalls + 1)]
        /\ round \in [Runs -> Nat]
    BY DEF TypeOK, StreamTypes, RoundTypes
  <1> QED
    BY <1>1 DEF Calls

-----------------------------------------------------------------------------
(* What the helpers do to the types. *)

\* Appending to one of several sequences, whether or not it is among them.
LEMMA AppendAtType ==
  ASSUME NEW D, NEW S, NEW f \in [D -> Seq(S)], NEW d, NEW x \in S
  PROVE  [f EXCEPT ![d] = Append(@, x)] \in [D -> Seq(S)]
  <1>1. CASE d \in D
    <2>1. Append(f[d], x) \in Seq(S)
      BY <1>1
    <2> QED
      BY <1>1, <2>1
  <1>2. CASE d \notin D
    BY <1>2
  <1> QED
    BY <1>1, <1>2

\* Appending a message keeps the logs sequences of messages.
LEMMA AddMsgType ==
  ASSUME TypeOK, NEW r \in Runs, NEW m \in Messages, AddMsg(r, m)
  PROVE  log' \in [Sessions -> Seq(Messages)]
  <1>1. log \in [Sessions -> Seq(Messages)]
    BY DEF TypeOK, StoreTypes
  <1> QED
    BY <1>1, AppendAtType DEF AddMsg

\* The reply of a run, saved or not, keeps them too.
LEMMA PersistReplyType ==
  ASSUME TypeOK, NEW r \in Runs, PersistReply(r)
  PROVE  log' \in [Sessions -> Seq(Messages)]
  <1>1. CASE AddMsg(r, Msg(r, "assistant", 0, 0))
    <2>1. Msg(r, "assistant", 0, 0) \in Messages
      BY DEF Msg, Messages
    <2> QED
      BY <1>1, <2>1, AddMsgType
  <1>2. CASE UNCHANGED log
    BY <1>2 DEF TypeOK, StoreTypes
  <1> QED
    BY <1>1, <1>2 DEF PersistReply

\* An event that is sent keeps the channels typed,
LEMMA PushType ==
  ASSUME TypeOK, NEW r \in Runs, NEW e \in Events, Push(r, e)
  PROVE  EvTypes'
  <1>1. /\ eventCh \in [Runs -> Seq(Events)]
        /\ outcome \in [Runs -> SUBSET {"done", "error"}]
    BY DEF TypeOK, EvTypes
  <1>2. eventCh' \in [Runs -> Seq(Events)]
    BY <1>1, AppendAtType DEF Push
  <1>3. outcome' \in [Runs -> SUBSET {"done", "error"}]
    BY <1>1 DEF Push
  <1> QED
    BY <1>2, <1>3 DEF EvTypes

\* and so does one that may be dropped.
LEMMA OfferType ==
  ASSUME TypeOK, NEW r \in Runs, NEW e \in Events, Offer(r, e)
  PROVE  EvTypes'
  <1>1. CASE Push(r, e)
    BY <1>1, PushType
  <1>2. CASE UNCHANGED evVars
    BY <1>2, Frames DEF TypeOK
  <1> QED
    BY <1>1, <1>2 DEF Offer

\* A row is saved with a state or kept.
LEMMA SaveRowType ==
  ASSUME TypeOK, NEW r \in Runs, NEW s \in States, SaveRow(r, s)
  PROVE  row' \in [Runs -> States]
  <1>1. row \in [Runs -> States]
    BY DEF TypeOK, StoreTypes
  <1> QED
    BY <1>1, StateType DEF SaveRow

\* setError, wherever it goes on.
LEMMA SetErrorType ==
  ASSUME TypeOK, NEW r \in Runs, NEW p \in Pcs, SetError(r, p),
         planCh' \in {"yes", "no", None}, EvTypes',
         log' \in [Sessions -> Seq(Messages)]
  PROVE  TypeOK'
  <1>1. "error" \in States
    BY DEF States
  <1>2. TurnTypes'
    BY <1>1, StateType DEF TypeOK, SetError, TurnTypes
  <1>3. StoreTypes'
    BY <1>1, SaveRowType DEF SetError, StoreTypes
  <1>4. ApprTypes'
    BY DEF TypeOK, SetError, Withdraw, ApprTypes
  <1>5. PlanTypes'
    BY DEF TypeOK, SetError, Withdraw, PlanTypes
  <1>6. pc' \in [Runs -> Pcs]
    BY PcType DEF SetError
  <1> QED
    BY <1>2, <1>3, <1>4, <1>5, <1>6, Frames DEF TypeOK, SetError

\* A helper that fails keeps the types.
LEMMA FailType ==
  ASSUME TypeOK, NEW r \in Runs, Fail(r), log' \in [Sessions -> Seq(Messages)]
  PROVE  TypeOK'
  <1>1. "errEvent" \in Pcs
    BY DEF Pcs, RunPcs
  <1>2. EvTypes'
    BY Frames DEF TypeOK, Fail
  <1>3. planCh' \in {"yes", "no", None}
    BY DEF TypeOK, PlanTypes, Fail
  <1> QED
    BY <1>1, <1>2, <1>3, SetErrorType DEF Fail

\* ... and it leaves the log alone.
LEMMA FailOnlyType ==
  ASSUME TypeOK, NEW r \in Runs, Fail(r), UNCHANGED log
  PROVE  TypeOK'
  BY FailType DEF TypeOK, StoreTypes

\* A message, an event or a request on the way to the next step.
LEMMA AppendThenType ==
  ASSUME TypeOK, NEW r \in Runs, NEW m \in Messages, NEW p \in Pcs,
         NEW i \in 1..(MaxCalls + 1), AppendThen(r, m, p, i)
  PROVE  TypeOK'
  <1>1. CASE /\ AddMsg(r, m) /\ At(r, i) /\ Go(r, p)
             /\ UNCHANGED <<callVars, streamVars, round, results, pend, dec,
                            sharedVars, evVars, row, histVars>>
    <2>1. StoreTypes'
      BY <1>1, AddMsgType DEF TypeOK, StoreTypes
    <2>2. RoundTypes'
      BY <1>1 DEF TypeOK, RoundTypes
    <2>3. pc' \in [Runs -> Pcs]
      BY <1>1, PcType
    <2> QED
      BY <1>1, <2>1, <2>2, <2>3, Frames DEF TypeOK
  <1>2. CASE Fail(r) /\ UNCHANGED log
    BY <1>2, FailOnlyType
  <1> QED
    BY <1>1, <1>2 DEF AppendThen

\* An event on the way to the next step keeps the types.
LEMMA OfferThenType ==
  ASSUME TypeOK, NEW r \in Runs, NEW e \in Events, NEW p \in Pcs,
         NEW i \in 1..(MaxCalls + 1), OfferThen(r, e, p, i)
  PROVE  TypeOK'
  <1>1. CASE /\ Push(r, e) /\ At(r, i) /\ Go(r, p)
             /\ UNCHANGED <<callVars, streamVars, round, results, pend, dec,
                            sharedVars, storeVars, histVars>>
    <2>1. EvTypes'
      BY <1>1, PushType
    <2>2. RoundTypes'
      BY <1>1 DEF TypeOK, RoundTypes
    <2>3. pc' \in [Runs -> Pcs]
      BY <1>1, PcType
    <2> QED
      BY <1>1, <2>1, <2>2, <2>3, Frames DEF TypeOK
  <1>2. CASE Fail(r) /\ UNCHANGED log
    BY <1>2, FailOnlyType
  <1> QED
    BY <1>1, <1>2 DEF OfferThen

\* Opening a stream keeps the types.
LEMMA OpenThenType ==
  ASSUME TypeOK, NEW r \in Runs, NEW n \in Nat, OpenThen(r, n)
  PROVE  TypeOK'
  <1>1. CASE Fail(r) /\ UNCHANGED log
    BY <1>1, FailOnlyType
  <1>2. CASE ~(Fail(r) /\ UNCHANGED log)
    <2>1. "stream" \in Pcs
      BY DEF Pcs, RunPcs
    <2>2. /\ plan' = [plan EXCEPT ![r] = FALSE]
          /\ partial' = [partial EXCEPT ![r] = FALSE]
          /\ steerOf' = [steerOf EXCEPT ![r] = None]
          /\ round' = [round EXCEPT ![r] = n]
          /\ Go(r, "stream")
          /\ UNCHANGED <<callVars, calls, idx, results, pend, dec, sharedVars,
                         effectVars>>
      BY <1>2 DEF OpenThen
    <2>3. StreamTypes'
      BY <2>2 DEF TypeOK, StreamTypes
    <2>4. RoundTypes'
      BY <2>2 DEF TypeOK, RoundTypes
    <2>5. pc' \in [Runs -> Pcs]
      BY <2>1, <2>2, PcType
    <2> QED
      BY <2>2, <2>3, <2>4, <2>5, Frames DEF TypeOK
  <1> QED
    BY <1>1, <1>2

\* The result of a call.
LEMMA ResultType ==
  ASSUME TypeOK, NEW r \in Runs, NEW kind \in Results, idx[r] <= calls[r],
         Result(r, kind), pc' \in [Runs -> Pcs], EvTypes', HistTypes',
         UNCHANGED storeVars
  PROVE  TypeOK'
  <1>1. results' \in [Runs -> [Calls -> Results]]
    BY Locals DEF TypeOK, RoundTypes, Result
  <1>2. idx' \in [Runs -> 1..(MaxCalls + 1)]
    BY Locals DEF TypeOK, RoundTypes, Result
  <1>3. RoundTypes'
    BY <1>1, <1>2 DEF TypeOK, RoundTypes, Result
  <1> QED
    BY <1>3, Frames DEF TypeOK, Result

-----------------------------------------------------------------------------
(* Type correctness: one lemma per group of actions, one step per action. *)

\* An answer to calls that are among the calls of a response is an answer.
LEMMA AnswersToType ==
  ASSUME NEW cs \in SUBSET Calls, NEW d \in AnswersTo(cs)
  PROVE  d \in Answers /\ DOMAIN d \subseteq Calls
  <1>1. CASE \E D \in SUBSET cs : d \in [D -> {"yes", "no"}]
    <2>1. PICK D \in SUBSET cs : d \in [D -> {"yes", "no"}]
      BY <1>1
    <2>2. D \in SUBSET Calls /\ d \in [D -> Decisions]
      BY <2>1 DEF Decisions
    <2> QED
      BY <2>2 DEF Answers
  <1>2. CASE \E c \in cs : d \in [{c} -> {"diff"}]
    <2>1. PICK c \in cs : d \in [{c} -> {"diff"}]
      BY <1>2
    <2>2. {c} \in SUBSET Calls /\ d \in [{c} -> Decisions]
      BY <2>1 DEF Decisions
    <2> QED
      BY <2>2 DEF Answers
  <1> QED
    BY <1>1, <1>2 DEF AnswersTo

\* The initial state is typed.
LEMMA InitType == Init => TypeOK
  <1> SUFFICES ASSUME Init PROVE TypeOK
    OBVIOUS
  <1>1. [c \in {} |-> "no"] \in Answers
    <2>1. [c \in {} |-> "no"] \in [{} -> Decisions] /\ {} \in SUBSET Calls
      OBVIOUS
    <2> QED
      BY <2>1 DEF Answers
  <1>2. RoundTypes
    <2>1. dec \in [Runs -> Answers]
      BY <1>1 DEF Init
    <2>2. /\ results \in [Runs -> [Calls -> Results]]
          /\ pend \in [Runs -> SUBSET Calls]
      BY DEF Init, Results
    <2>3. idx \in [Runs -> 1..(MaxCalls + 1)] /\ round \in [Runs -> Nat]
      BY DEF Init
    <2> QED
      BY <2>1, <2>2, <2>3 DEF RoundTypes
  <1>3. EvTypes
    BY DEF Init, EvTypes
  <1>4. StoreTypes
    BY DEF Init, StoreTypes, States
  <1>5. pc \in [Runs -> Pcs]
    BY DEF Init, Pcs
  <1>6. CallTypes /\ StreamTypes
    BY DEF Init, CallTypes, StreamTypes
  <1>7. LockTypes
    BY DEF Init, LockTypes
  <1>8. TurnTypes
    BY DEF Init, TurnTypes, States
  <1>9. ApprTypes
    BY DEF Init, ApprTypes
  <1>10. PlanTypes
    BY DEF Init, PlanTypes
  <1>11. SteerTypes
    BY DEF Init, SteerTypes
  <1>12. HistTypes
    BY DEF Init, HistTypes
  <1> QED
    BY <1>2, <1>3, <1>4, <1>5, <1>6, <1>7, <1>8, <1>9, <1>10, <1>11, <1>12
    DEF TypeOK

\* The types over the start of a run.
LEMMA StartingType ==
  ASSUME TypeOK, NEW r \in Runs, Start(r) \/ Starting(r)
  PROVE  TypeOK'
  <1>1. ASSUME NEW s \in Sessions, NEW p \in PlanModes, Claim(r, s, p)
        PROVE  TypeOK'
    <2>1. "claimed" \in Pcs
      BY DEF Pcs, StartPcs
    <2>2. pc' \in [Runs -> Pcs]
      BY <1>1, <2>1, PcType DEF Claim
    <2>3. CallTypes' /\ StreamTypes' /\ LockTypes'
      BY <1>1 DEF TypeOK, Claim, CallTypes, StreamTypes, LockTypes
    <2> QED
      BY <1>1, <2>2, <2>3, Frames DEF TypeOK, Claim
  <1>2. CASE Reject(r)
    <2>1. "rejected" \in Pcs
      BY DEF Pcs, StartPcs, RunPcs, AskPcs, EndPcs
    <2>2. pc' \in [Runs -> Pcs]
      BY <1>2, <2>1, PcType DEF Reject
    <2> QED
      BY <1>2, <2>2, Frames DEF TypeOK, Reject
  <1>3. CASE SetCancel(r)
    <2>1. "starting" \in Pcs
      BY DEF Pcs, StartPcs, RunPcs, AskPcs, EndPcs
    <2>2. pc' \in [Runs -> Pcs]
      BY <1>3, <2>1, PcType DEF SetCancel
    <2>3. LockTypes'
      BY <1>3 DEF TypeOK, SetCancel, LockTypes
    <2> QED
      BY <1>3, <2>2, <2>3, Frames DEF TypeOK, SetCancel
  <1>4. CASE DrainStale(r)
    <2>1. "begin" \in Pcs
      BY DEF Pcs, StartPcs, RunPcs, AskPcs, EndPcs
    <2>2. pc' \in [Runs -> Pcs]
      BY <1>4, <2>1, PcType DEF DrainStale
    <2>3. ApprTypes'
      BY <1>4 DEF TypeOK, DrainStale, ApprTypes
    <2>4. PlanTypes'
      BY <1>4 DEF TypeOK, DrainStale, PlanTypes
    <2>5. SteerTypes'
      BY <1>4 DEF TypeOK, DrainStale, SteerTypes
    <2> QED
      BY <1>4, <2>2, <2>3, <2>4, <2>5, Frames DEF TypeOK, DrainStale
  <1>5. CASE StartFails(r)
    <2>1. "startFailed" \in Pcs
      BY DEF Pcs, StartPcs, RunPcs, AskPcs, EndPcs
    <2>2. pc' \in [Runs -> Pcs]
      BY <1>5, <2>1, PcType DEF StartFails
    <2> QED
      BY <1>5, <2>2, Frames DEF TypeOK, StartFails
  <1>6. CASE BeginPlan(r)
    <2>1. "seq" \in Pcs
      BY DEF Pcs, StartPcs
    <2>2. pc' \in [Runs -> Pcs]
      BY <1>6, <2>1, PcType DEF BeginPlan
    <2>3. PlanTypes'
      BY <1>6 DEF TypeOK, BeginPlan, PlanTypes, CallTypes, StreamTypes
    <2> QED
      BY <1>6, <2>2, <2>3, Frames DEF TypeOK, BeginPlan
  <1>7. CASE BeginTurn(r)
    <2>1. /\ "saving" \in Pcs /\ "startFailed" \in Pcs
          /\ "streaming" \in States
      BY DEF Pcs, StartPcs, EndPcs, States
    <2>2. pc' \in [Runs -> Pcs]
      BY <1>7, <2>1, PcType DEF BeginTurn
    <2>3. TurnTypes'
      BY <1>7, <2>1, StateType DEF TypeOK, BeginTurn, TurnTypes
    <2> QED
      BY <1>7, <2>2, <2>3, Frames DEF TypeOK, BeginTurn
  <1>8. CASE SaveNewTurn(r)
    <2>1. "user" \in Pcs /\ "streaming" \in States
      BY DEF Pcs, StartPcs, States
    <2>2. pc' \in [Runs -> Pcs]
      BY <1>8, <2>1, PcType DEF SaveNewTurn
    <2>3. StoreTypes'
      BY <1>8, <2>1, StateType DEF TypeOK, SaveNewTurn, StoreTypes
    <2> QED
      BY <1>8, <2>2, <2>3, Frames DEF TypeOK, SaveNewTurn
  <1>9. CASE AppendUser(r)
    <2>1. "open" \in Pcs /\ Msg(r, "user", 0, 0) \in Messages
      BY DEF Pcs, StartPcs, Msg, Messages
    <2>2. pc' \in [Runs -> Pcs]
      BY <1>9, <2>1, PcType DEF AppendUser
    <2>3. StoreTypes'
      BY <1>9, <2>1, AddMsgType DEF TypeOK, AppendUser, StoreTypes
    <2> QED
      BY <1>9, <2>2, <2>3, Frames DEF TypeOK, AppendUser
  <1>10. CASE OpenFirst(r)
    <2>1. "stream" \in Pcs
      BY DEF Pcs, StartPcs, RunPcs, AskPcs, EndPcs
    <2>2. pc' \in [Runs -> Pcs]
      BY <1>10, <2>1, PcType DEF OpenFirst
    <2> QED
      BY <1>10, <2>2, Frames DEF TypeOK, OpenFirst
  <1>11. CASE RefuseFirst(r)
    <2>1. "startFailed" \in Pcs
      BY DEF Pcs, EndPcs
    <2>2. EvTypes' /\ planCh' \in {"yes", "no", None}
      BY <1>11, Frames DEF TypeOK, RefuseFirst, PlanTypes
    <2>3. log' \in [Sessions -> Seq(Messages)]
      BY <1>11 DEF TypeOK, RefuseFirst, StoreTypes
    <2> QED
      BY <1>11, <2>1, <2>2, <2>3, SetErrorType DEF RefuseFirst
  <1>12. CASE FreeRunning(r)
    <2>1. "failing" \in Pcs
      BY DEF Pcs, StartPcs, RunPcs, AskPcs, EndPcs
    <2>2. pc' \in [Runs -> Pcs]
      BY <1>12, <2>1, PcType DEF FreeRunning
    <2>3. LockTypes'
      BY <1>12 DEF TypeOK, FreeRunning, LockTypes
    <2> QED
      BY <1>12, <2>2, <2>3, Frames DEF TypeOK, FreeRunning
  <1>13. CASE ClearFailedCancel(r)
    <2>1. "failed" \in Pcs
      BY DEF Pcs, StartPcs, RunPcs, AskPcs, EndPcs
    <2>2. pc' \in [Runs -> Pcs]
      BY <1>13, <2>1, PcType DEF ClearFailedCancel
    <2>3. LockTypes'
      BY <1>13 DEF TypeOK, ClearFailedCancel, LockTypes
    <2> QED
      BY <1>13, <2>2, <2>3, Frames DEF TypeOK, ClearFailedCancel
  <1> QED
    BY <1>1, <1>2, <1>3, <1>4, <1>5, <1>6, <1>7, <1>8, <1>9, <1>10, <1>11,
       <1>12, <1>13 DEF Start, Starting

\* The types over reading a stream.
LEMMA StreamingType ==
  ASSUME TypeOK, NEW r \in Runs, Streaming(r)
  PROVE  TypeOK'
  <1>1. CASE Chunk(r)
    <2>1. "content" \in Events
      BY DEF Events
    <2>2. EvTypes'
      BY <1>1, <2>1, PushType DEF Chunk
    <2>3. StreamTypes'
      BY <1>1 DEF TypeOK, Chunk, StreamTypes
    <2> QED
      BY <1>1, <2>2, <2>3, Frames DEF TypeOK, Chunk
  <1>2. ASSUME NEW n \in 0..MaxCalls, StreamDone(r, n)
        PROVE  TypeOK'
    <2>1. "streamed" \in Pcs
      BY DEF Pcs, RunPcs
    <2>2. pc' \in [Runs -> Pcs]
      BY <1>2, <2>1, PcType DEF StreamDone
    <2>3. StreamTypes'
      BY <1>2 DEF TypeOK, StreamDone, StreamTypes
    <2> QED
      BY <1>2, <2>2, <2>3, Frames DEF TypeOK, StreamDone
  <1>3. CASE StreamFails(r)
    <2>1. "abort" \in Pcs /\ "error" \in Events
      BY DEF Pcs, RunPcs, Events
    <2>2. pc' \in [Runs -> Pcs]
      BY <1>3, <2>1, PcType DEF StreamFails
    <2>3. EvTypes'
      BY <1>3, <2>1, OfferType DEF StreamFails
    <2> QED
      BY <1>3, <2>2, <2>3, Frames DEF TypeOK, StreamFails
  <1>4. CASE Abort(r)
    BY <1>4, PersistReplyType, FailType DEF Abort
  <1>5. CASE TakeSteer(r)
    <2>1. "drain" \in Pcs
      BY DEF Pcs, RunPcs
    <2>2. pc' \in [Runs -> Pcs]
      BY <1>5, <2>1, PcType DEF TakeSteer
    <2>3. StreamTypes' /\ SteerTypes'
      BY <1>5 DEF TypeOK, TakeSteer, StreamTypes, SteerTypes
    <2> QED
      BY <1>5, <2>2, <2>3, Frames DEF TypeOK, TakeSteer
  <1>6. CASE Drained(r)
    <2>1. "steer" \in Pcs
      BY DEF Pcs, StartPcs, RunPcs, AskPcs, EndPcs
    <2>2. pc' \in [Runs -> Pcs]
      BY <1>6, <2>1, PcType DEF Drained
    <2>3. StreamTypes'
      BY <1>6 DEF TypeOK, Drained, StreamTypes
    <2>4. PlanTypes'
      BY <1>6 DEF TypeOK, Drained, PlanTypes, StreamTypes
    <2> QED
      BY <1>6, <2>2, <2>3, <2>4, Frames DEF TypeOK, Drained
  <1>7. CASE SteerPartial(r)
    <2>1. "steerAppend" \in Pcs
      BY DEF Pcs, RunPcs
    <2>2. pc' \in [Runs -> Pcs]
      BY <1>7, <2>1, PcType DEF SteerPartial
    <2>3. StoreTypes'
      BY <1>7, PersistReplyType DEF TypeOK, SteerPartial, StoreTypes
    <2> QED
      BY <1>7, <2>2, <2>3, Frames DEF TypeOK, SteerPartial
  <1>8. CASE SteerAppend(r)
    <2>1. "steerEvent" \in Pcs /\ Msg(r, "steer", 0, 0) \in Messages
      BY DEF Pcs, RunPcs, Msg, Messages
    <2> QED
      BY <1>8, <2>1, Locals, AppendThenType DEF SteerAppend
  <1>9. CASE SteerEvent(r)
    <2>1. "steerOpen" \in Pcs /\ "steered" \in Events
      BY DEF Pcs, RunPcs, AskPcs, Events
    <2> QED
      BY <1>9, <2>1, Locals, OfferThenType DEF SteerEvent
  <1>10. CASE SteerOpen(r)
    BY <1>10, Locals, OpenThenType DEF SteerOpen
  <1> QED
    BY <1>1, <1>2, <1>3, <1>4, <1>5, <1>6, <1>7, <1>8, <1>9, <1>10 DEF
       Streaming

\* The types over the plan gate.
LEMMA PlanningType ==
  ASSUME TypeOK, NEW r \in Runs, Planning(r)
  PROVE  TypeOK'
  <1>1. CASE PlanWithCalls(r)
    <2>1. "abort" \in Pcs
      BY DEF Pcs, StartPcs, RunPcs, AskPcs, EndPcs
    <2>2. pc' \in [Runs -> Pcs]
      BY <1>1, <2>1, PcType DEF PlanWithCalls
    <2> QED
      BY <1>1, <2>2, Frames DEF TypeOK, PlanWithCalls
  <1>2. CASE PlanReady(r)
    <2>1. "planEvent" \in Pcs /\ "waiting_plan" \in States
      BY DEF Pcs, RunPcs, AskPcs, States
    <2>2. pc' \in [Runs -> Pcs]
      BY <1>2, <2>1, PcType DEF PlanReady
    <2>3. TurnTypes'
      BY <1>2, <2>1, StateType DEF TypeOK, PlanReady, TurnTypes
    <2>4. StoreTypes'
      BY <1>2, <2>1, SaveRowType DEF TypeOK, PlanReady, StoreTypes
    <2> QED
      BY <1>2, <2>2, <2>3, <2>4, Frames DEF TypeOK, PlanReady
  <1>3. CASE PlanEvent(r)
    <2>1. "planWait" \in Pcs /\ "plan" \in Events
      BY DEF Pcs, RunPcs, AskPcs, Events
    <2> QED
      BY <1>3, <2>1, Locals, OfferThenType DEF PlanEvent
  <1>4. CASE PlanApproved(r)
    <2>1. "planAppend" \in Pcs
      BY DEF Pcs, StartPcs, RunPcs, AskPcs, EndPcs
    <2>2. pc' \in [Runs -> Pcs]
      BY <1>4, <2>1, PcType DEF PlanApproved
    <2>3. PlanTypes'
      BY <1>4 DEF TypeOK, PlanApproved, PlanTypes
    <2> QED
      BY <1>4, <2>2, <2>3, Frames DEF TypeOK, PlanApproved
  <1>5. CASE PlanRejected(r)
    <2>1. "errEvent" \in Pcs
      BY DEF Pcs, RunPcs
    <2>2. EvTypes' /\ log' \in [Sessions -> Seq(Messages)]
      BY <1>5, Frames DEF TypeOK, PlanRejected, StoreTypes
    <2>3. planCh' \in {"yes", "no", None}
      BY <1>5 DEF PlanRejected
    <2> QED
      BY <1>5, <2>1, <2>2, <2>3, SetErrorType DEF PlanRejected
  <1>6. CASE PlanAppend(r)
    <2>1. "planContinue" \in Pcs /\ Msg(r, "assistant", 0, 0) \in Messages
      BY DEF Pcs, RunPcs, Msg, Messages
    <2> QED
      BY <1>6, <2>1, Locals, AppendThenType DEF PlanAppend
  <1>7. CASE PlanContinue(r)
    <2>1. "planOpen" \in Pcs /\ Msg(r, "system", 0, 0) \in Messages
      BY DEF Pcs, RunPcs, Msg, Messages
    <2> QED
      BY <1>7, <2>1, Locals, AppendThenType DEF PlanContinue
  <1>8. CASE PlanOpen(r)
    BY <1>8, Locals, OpenThenType DEF PlanOpen
  <1>9. CASE WaitCancelled(r)
    BY <1>9, FailOnlyType DEF WaitCancelled
  <1> QED
    BY <1>1, <1>2, <1>3, <1>4, <1>5, <1>6, <1>7, <1>8, <1>9 DEF Planning

\* Running a tool keeps the types, whoever allowed it.
LEMMA ExecuteType ==
  ASSUME TypeOK, NEW r \in Runs, NEW req \in Nat, NEW p \in Pcs,
         Execute(r, req, p)
  PROVE  TypeOK'
  <1>1. EvTypes'
    <2>1. CASE Offer(r, "status")
      <3>1. "status" \in Events
        BY DEF Events
      <3> QED
        BY <2>1, <3>1, OfferType
    <2>2. CASE UNCHANGED evVars
      BY <2>2, Frames DEF TypeOK
    <2> QED
      BY <2>1, <2>2 DEF Execute
  <1>2. HistTypes'
    <2>1. idx[r] \in Calls
      BY Locals DEF Execute
    <2> QED
      BY <2>1 DEF TypeOK, Execute, HistTypes
  <1>3. pc' \in [Runs -> Pcs]
    BY PcType DEF Execute
  <1>4. "ok" \in Results
    BY DEF Results
  <1> QED
    BY <1>1, <1>2, <1>3, <1>4, ResultType DEF Execute

\* A call whose result is known, or that is set aside, in either loop.
LEMMA NextCallType ==
  ASSUME TypeOK, NEW r \in Runs, idx[r] <= calls[r], UNCHANGED effectVars
  PROVE  /\ \A kind \in Results : Result(r, kind) /\ UNCHANGED pc => TypeOK'
         /\ /\ pend' \in [Runs -> SUBSET Calls] /\ At(r, idx[r] + 1)
            /\ UNCHANGED <<pc, callVars, streamVars, round, results, dec,
                           sharedVars>>
            => TypeOK'
  <1>1. EvTypes' /\ HistTypes'
    BY Frames DEF TypeOK
  <1>2. ASSUME NEW kind \in Results, Result(r, kind), UNCHANGED pc
        PROVE  TypeOK'
    BY <1>1, <1>2, ResultType DEF TypeOK
  <1>3. ASSUME pend' \in [Runs -> SUBSET Calls], At(r, idx[r] + 1),
               UNCHANGED <<pc, callVars, streamVars, round, results, dec,
                           sharedVars>>
        PROVE  TypeOK'
    <2>1. RoundTypes'
      BY <1>3, Locals DEF TypeOK, RoundTypes
    <2> QED
      BY <1>3, <2>1, Frames DEF TypeOK
  <1> QED
    BY <1>2, <1>3

\* One round of executeToolCalls keeps the types (turn.go:937).
LEMMA CallToolType ==
  ASSUME TypeOK, NEW r \in Runs, NEW v \in Verdicts, CallTool(r, v)
  PROVE  TypeOK'
  <1>1. "cancelled" \in Results /\ "denied" \in Results
    BY DEF Results
  <1>2. CASE Result(r, "cancelled") /\ UNCHANGED pc
    BY <1>1, <1>2, NextCallType DEF CallTool
  <1>3. CASE Result(r, "denied") /\ UNCHANGED pc
    BY <1>1, <1>3, NextCallType DEF CallTool
  <1>4. CASE /\ pend' = [pend EXCEPT ![r] = @ \cup {idx[r]}]
             /\ At(r, idx[r] + 1)
             /\ UNCHANGED <<pc, callVars, streamVars, round, results, dec,
                            sharedVars>>
    <2>1. pend' \in [Runs -> SUBSET Calls]
      BY <1>4, Locals DEF TypeOK, CallTool, RoundTypes
    <2> QED
      BY <1>4, <2>1, NextCallType DEF CallTool
  <1>5. CASE Go(r, "execute") /\ UNCHANGED <<localVars, sharedVars>>
    <2>1. "execute" \in Pcs
      BY DEF Pcs, RunPcs
    <2>2. pc' \in [Runs -> Pcs]
      BY <1>5, <2>1, PcType
    <2> QED
      BY <1>5, <2>2, Frames DEF TypeOK, CallTool
  <1> QED
    BY <1>2, <1>3, <1>4, <1>5 DEF CallTool

\* One step of the decision loop keeps the types (turn.go:639).
LEMMA DecideType ==
  ASSUME TypeOK, NEW r \in Runs, Decide(r)
  PROVE  TypeOK'
  <1>1. "cancelled" \in Results /\ "denied" \in Results
    BY DEF Results
  <1>2. CASE Result(r, "cancelled") /\ UNCHANGED pc
    BY <1>1, <1>2, NextCallType DEF Decide
  <1>3. CASE Result(r, "denied") /\ UNCHANGED pc
    BY <1>1, <1>3, NextCallType DEF Decide
  <1>4. CASE /\ At(r, idx[r] + 1)
             /\ UNCHANGED <<pc, callVars, streamVars, round, results, pend,
                            dec, sharedVars>>
    <2>1. pend' \in [Runs -> SUBSET Calls]
      BY <1>4 DEF TypeOK, RoundTypes
    <2> QED
      BY <1>4, <2>1, NextCallType DEF Decide
  <1>5. CASE Go(r, "execAsked") /\ UNCHANGED <<localVars, sharedVars>>
    <2>1. "execAsked" \in Pcs
      BY DEF Pcs, RunPcs, AskPcs
    <2>2. pc' \in [Runs -> Pcs]
      BY <1>5, <2>1, PcType
    <2> QED
      BY <1>5, <2>2, Frames DEF TypeOK, Decide
  <1> QED
    BY <1>2, <1>3, <1>4, <1>5 DEF Decide

\* The types over a round of tool calls.
LEMMA CallingToolsType ==
  ASSUME TypeOK, NEW r \in Runs, CallingTools(r)
  PROVE  TypeOK'
  <1>1. CASE Settle(r)
    <2>1. /\ "round" \in Pcs /\ "finish" \in Pcs
          /\ "tool_calls" \in States /\ "streaming" \in States
      BY DEF Pcs, RunPcs, States
    <2>2. pc' \in [Runs -> Pcs]
      BY <1>1, <2>1, PcType DEF Settle
    <2>3. TurnTypes' /\ turnState'[r] \in States
      <3>1. turnState \in [Runs -> States]
        BY DEF TypeOK, TurnTypes
      <3> QED
        BY <1>1, <2>1, <3>1 DEF TypeOK, Settle, TurnTypes
    <2>4. StoreTypes'
      <3>1. CASE SaveRow(r, turnState'[r])
        BY <1>1, <2>3, <3>1, SaveRowType DEF TypeOK, Settle, StoreTypes
      <3>2. CASE UNCHANGED row
        BY <1>1, <3>2 DEF TypeOK, Settle, StoreTypes
      <3> QED
        BY <1>1, <3>1, <3>2 DEF Settle
    <2> QED
      BY <1>1, <2>2, <2>3, <2>4, Frames DEF TypeOK, Settle
  <1>2. CASE RoundStart(r)
    <2>1. "call" \in Pcs
      BY DEF Pcs, RunPcs
    <2>2. pc' \in [Runs -> Pcs]
      BY <1>2, <2>1, PcType DEF RoundStart
    <2>3. [c \in Calls |-> "none"] \in [Calls -> Results]
      BY DEF Results
    <2>4. RoundTypes'
      BY <1>2, <2>3, Locals DEF TypeOK, RoundStart, RoundTypes
    <2> QED
      BY <1>2, <2>2, <2>4, Frames DEF TypeOK, RoundStart
  <1>3. CASE RoundLimit(r)
    BY <1>3, FailOnlyType DEF RoundLimit
  <1>4. CASE \E v \in Verdicts : CallTool(r, v)
    BY <1>4, CallToolType
  <1>5. CASE ExecuteAllowed(r)
    <2>1. "call" \in Pcs /\ 0 \in Nat
      BY DEF Pcs, RunPcs
    <2> QED
      BY <1>5, <2>1, ExecuteType DEF ExecuteAllowed
  <1>6. CASE NothingPending(r)
    <2>1. "emit" \in Pcs
      BY DEF Pcs, StartPcs, RunPcs, AskPcs, EndPcs
    <2>2. pc' \in [Runs -> Pcs]
      BY <1>6, <2>1, PcType DEF NothingPending
    <2>3. RoundTypes'
      BY <1>6, Locals DEF TypeOK, NothingPending, RoundTypes
    <2> QED
      BY <1>6, <2>2, <2>3, Frames DEF TypeOK, NothingPending
  <1>7. CASE Publish(r)
    <2>1. "ask" \in Pcs /\ "waiting_approval" \in States
      BY DEF Pcs, RunPcs, AskPcs, States
    <2>2. pc' \in [Runs -> Pcs]
      BY <1>7, <2>1, PcType DEF Publish
    <2>3. TurnTypes'
      BY <1>7, <2>1, StateType DEF TypeOK, Publish, TurnTypes
    <2>4. StoreTypes'
      BY <1>7, <2>1, SaveRowType DEF TypeOK, Publish, StoreTypes
    <2>5. ApprTypes'
      BY <1>7 DEF TypeOK, Publish, ApprTypes, RoundTypes
    <2> QED
      BY <1>7, <2>2, <2>3, <2>4, <2>5, Frames DEF TypeOK, Publish
  <1>8. CASE Ask(r)
    <2>1. "await" \in Pcs /\ "ask" \in Events
      BY DEF Pcs, RunPcs, AskPcs, Events
    <2> QED
      BY <1>8, <2>1, Locals, OfferThenType DEF Ask
  <1>9. CASE TakeStale(r)
    <2>1. "clear" \in Pcs /\ "stale" \in Results
      BY DEF Pcs, RunPcs, AskPcs, Results
    <2>2. pc' \in [Runs -> Pcs]
      BY <1>9, <2>1, PcType DEF TakeStale
    <2>3. results \in [Runs -> [Calls -> Results]]
      BY DEF TypeOK, RoundTypes
    <2>4. [c \in Calls |-> IF c \in pend[r] THEN "stale" ELSE results[r][c]]
            \in [Calls -> Results]
      BY <2>1, <2>3
    <2>5. results' \in [Runs -> [Calls -> Results]]
      BY <1>9, <2>3, <2>4 DEF TakeStale
    <2>6. RoundTypes'
      BY <1>9, <2>5 DEF TypeOK, TakeStale, RoundTypes
    <2>7. ApprTypes'
      BY <1>9 DEF TypeOK, TakeStale, ApprTypes
    <2> QED
      BY <1>9, <2>2, <2>6, <2>7, Frames DEF TypeOK, TakeStale
  <1>10. CASE TakePayload(r)
    <2>1. "diff" \in Pcs /\ "decide" \in Pcs
      BY DEF Pcs, RunPcs, AskPcs
    <2>2. pc' \in [Runs -> Pcs]
      BY <1>10, <2>1, PcType DEF TakePayload
    <2>3. approvalCh.dec \in Answers
      BY <1>10 DEF TypeOK, TakePayload, ApprTypes, Payloads
    <2>4. RoundTypes'
      BY <1>10, <2>3, Locals DEF TypeOK, TakePayload, RoundTypes
    <2>5. ApprTypes'
      BY <1>10 DEF TypeOK, TakePayload, ApprTypes
    <2> QED
      BY <1>10, <2>2, <2>4, <2>5, Frames DEF TypeOK, TakePayload
  <1>11. CASE Diff(r)
    <2>1. "await" \in Pcs /\ "diff" \in Events
      BY DEF Pcs, RunPcs, AskPcs, Events
    <2> QED
      BY <1>11, <2>1, Locals, OfferThenType DEF Diff
  <1>12. CASE Decide(r)
    BY <1>12, DecideType
  <1>13. CASE ExecuteApproved(r)
    <2>1. "decide" \in Pcs
      BY DEF Pcs, RunPcs, AskPcs
    <2>2. requestID \in Nat
      BY DEF TypeOK, ApprTypes
    <2> QED
      BY <1>13, <2>1, <2>2, ExecuteType DEF ExecuteApproved
  <1>14. CASE Decided(r)
    <2>1. "clear" \in Pcs
      BY DEF Pcs, StartPcs, RunPcs, AskPcs, EndPcs
    <2>2. pc' \in [Runs -> Pcs]
      BY <1>14, <2>1, PcType DEF Decided
    <2> QED
      BY <1>14, <2>2, Frames DEF TypeOK, Decided
  <1>15. CASE ClearPending(r)
    <2>1. "emit" \in Pcs
      BY DEF Pcs, StartPcs, RunPcs, AskPcs, EndPcs
    <2>2. pc' \in [Runs -> Pcs]
      BY <1>15, <2>1, PcType DEF ClearPending
    <2>3. RoundTypes'
      BY <1>15, Locals DEF TypeOK, ClearPending, RoundTypes
    <2>4. ApprTypes'
      BY <1>15 DEF TypeOK, ClearPending, ApprTypes
    <2> QED
      BY <1>15, <2>2, <2>3, <2>4, Frames DEF TypeOK, ClearPending
  <1>16. CASE Emit(r)
    <2>1. "emit" \in Pcs /\ "result" \in Events
      BY DEF Pcs, RunPcs, Events
    <2>2. idx[r] + 1 \in 1..(MaxCalls + 1)
      BY <1>16, Locals DEF Emit
    <2> QED
      BY <1>16, <2>1, <2>2, OfferThenType DEF Emit
  <1>17. CASE AppendCalls(r)
    <2>1. "appendResult" \in Pcs
      BY DEF Pcs, RunPcs
    <2>2. Msg(r, "assistant", calls[r], 0) \in Messages
      BY Locals DEF Msg, Messages
    <2> QED
      BY <1>17, <2>1, <2>2, Locals, AppendThenType DEF AppendCalls
  <1>18. CASE AppendResult(r)
    <2>1. "chat" \in Pcs /\ "appendResult" \in Pcs
      BY DEF Pcs, RunPcs
    <2>2. idx[r] \in 0..MaxCalls /\ idx[r] + 1 \in 1..(MaxCalls + 1)
      BY <1>18, Locals DEF AppendResult
    <2>3. Msg(r, "tool", 0, idx[r]) \in Messages
      BY <2>2 DEF Msg, Messages
    <2> QED
      BY <1>18, <2>1, <2>2, <2>3, AppendThenType DEF AppendResult
  <1>19. CASE ChatNext(r)
    <2>1. round[r] + 1 \in Nat
      BY Locals
    <2> QED
      BY <1>19, <2>1, OpenThenType DEF ChatNext
  <1> QED
    BY <1>1, <1>2, <1>3, <1>4, <1>5, <1>6, <1>7, <1>8, <1>9, <1>10, <1>11,
       <1>12, <1>13, <1>14, <1>15, <1>16, <1>17, <1>18, <1>19 DEF CallingTools

\* The types over the end of a run.
LEMMA EndingType ==
  ASSUME TypeOK, NEW r \in Runs, Ending(r)
  PROVE  TypeOK'
  <1>1. CASE Finish(r)
    <2>1. "final" \in Pcs /\ "done" \in Events
      BY DEF Pcs, RunPcs, Events
    <2>2. pc' \in [Runs -> Pcs]
      BY <1>1, <2>1, PcType DEF Finish
    <2>3. EvTypes'
      BY <1>1, <2>1, OfferType DEF Finish
    <2> QED
      BY <1>1, <2>2, <2>3, Frames DEF TypeOK, Finish
  <1>2. CASE AppendFinal(r)
    <2>1. "save" \in Pcs
      BY DEF Pcs, RunPcs
    <2>2. pc' \in [Runs -> Pcs]
      BY <1>2, <2>1, PcType DEF AppendFinal
    <2>3. StoreTypes'
      BY <1>2, PersistReplyType DEF TypeOK, AppendFinal, StoreTypes
    <2> QED
      BY <1>2, <2>2, <2>3, Frames DEF TypeOK, AppendFinal
  <1>3. CASE SaveIdle(r)
    <2>1. "release" \in Pcs /\ "idle" \in States
      BY DEF Pcs, RunPcs, AskPcs, States
    <2>2. pc' \in [Runs -> Pcs]
      BY <1>3, <2>1, PcType DEF SaveIdle
    <2>3. TurnTypes'
      BY <1>3, <2>1, StateType DEF TypeOK, SaveIdle, TurnTypes
    <2>4. StoreTypes'
      BY <1>3, <2>1, SaveRowType DEF TypeOK, SaveIdle, StoreTypes
    <2> QED
      BY <1>3, <2>2, <2>3, <2>4, Frames DEF TypeOK, SaveIdle
  <1>4. CASE ErrorEvent(r)
    <2>1. "release" \in Pcs /\ "error" \in Events
      BY DEF Pcs, RunPcs, Events
    <2>2. pc' \in [Runs -> Pcs]
      BY <1>4, <2>1, PcType DEF ErrorEvent
    <2>3. EvTypes'
      BY <1>4, <2>1, OfferType DEF ErrorEvent
    <2> QED
      BY <1>4, <2>2, <2>3, Frames DEF TypeOK, ErrorEvent
  <1>5. CASE Release(r)
    <2>1. "stop" \in Pcs
      BY DEF Pcs, StartPcs, RunPcs, AskPcs, EndPcs
    <2>2. pc' \in [Runs -> Pcs]
      BY <1>5, <2>1, PcType DEF Release
    <2>3. LockTypes'
      BY <1>5 DEF TypeOK, Release, LockTypes
    <2>4. PlanTypes'
      BY <1>5 DEF TypeOK, Release, PlanTypes
    <2>5. StreamTypes'
      BY <1>5, ConstantsAssumption DEF TypeOK, Release, Return, StreamTypes
    <2>6. [c \in {} |-> "no"] \in Answers
      <3>1. [c \in {} |-> "no"] \in [{} -> Decisions]
        OBVIOUS
      <3> QED
        BY <3>1 DEF Answers
    <2>7. "none" \in Results /\ 1 \in 1..(MaxCalls + 1)
      BY ConstantsAssumption DEF Results
    <2>8. RoundTypes'
      BY <1>5, <2>6, <2>7 DEF TypeOK, Release, Return, RoundTypes
    <2> QED
      BY <1>5, <2>2, <2>3, <2>4, <2>5, <2>8, Frames DEF TypeOK, Release
  <1>6. CASE StopRunning(r)
    <2>1. "closing" \in Pcs
      BY DEF Pcs, StartPcs, RunPcs, AskPcs, EndPcs
    <2>2. pc' \in [Runs -> Pcs]
      BY <1>6, <2>1, PcType DEF StopRunning
    <2>3. LockTypes'
      BY <1>6 DEF TypeOK, StopRunning, LockTypes
    <2> QED
      BY <1>6, <2>2, <2>3, Frames DEF TypeOK, StopRunning
  <1>7. CASE CloseEvents(r)
    <2>1. "done" \in Pcs
      BY DEF Pcs, StartPcs, RunPcs, AskPcs, EndPcs
    <2>2. pc' \in [Runs -> Pcs]
      BY <1>7, <2>1, PcType DEF CloseEvents
    <2> QED
      BY <1>7, <2>2, Frames DEF TypeOK, CloseEvents
  <1> QED
    BY <1>1, <1>2, <1>3, <1>4, <1>5, <1>6, <1>7 DEF Ending

\* The types over the calls of other goroutines.
LEMMA CallersType ==
  ASSUME TypeOK, Callers
  PROVE  TypeOK'
  <1>1. ASSUME NEW s \in Sessions, NEW d \in AnswersTo(pending),
               ResumeWithApproval(s, d)
        PROVE  TypeOK'
    <2>1. pending \in SUBSET Calls /\ requestID \in Nat
      BY DEF TypeOK, ApprTypes
    <2>2. d \in Answers /\ DOMAIN d \subseteq Calls
      BY <2>1, AnswersToType
    <2>3. [id |-> requestID, dec |-> d] \in Payloads
      BY <2>1, <2>2 DEF Payloads
    <2>4. ApprTypes'
      BY <1>1, <2>3 DEF TypeOK, ResumeWithApproval, ApprTypes
    <2>5. {<<requestID, c>> : c \in {x \in DOMAIN d : d[x] = "yes"}}
            \subseteq Nat \X Calls
      BY <2>1, <2>2
    <2>6. HistTypes'
      BY <1>1, <2>5 DEF TypeOK, ResumeWithApproval, HistTypes
    <2> QED
      BY <1>1, <2>4, <2>6, Frames DEF TypeOK, ResumeWithApproval
  <1>2. ASSUME NEW s \in Sessions, NEW a \in {"yes", "no"}, ResumeWithPlan(s, a)
        PROVE  TypeOK'
    <2>1. PlanTypes'
      BY <1>2 DEF TypeOK, ResumeWithPlan, PlanTypes
    <2>2. HistTypes'
      BY <1>2 DEF TypeOK, ResumeWithPlan, HistTypes, TurnTypes
    <2> QED
      BY <1>2, <2>1, <2>2, Frames DEF TypeOK, ResumeWithPlan
  <1>3. ASSUME NEW s \in Sessions, SteerCheck(s)
        PROVE  TypeOK'
    <2>1. steers \in 0..MaxSteers
      BY DEF TypeOK, SteerTypes
    <2>2. steers' \in 0..MaxSteers
      BY <1>3, <2>1 DEF SteerCheck
    <2>3. SteerTypes'
      BY <1>3, <2>2 DEF TypeOK, SteerCheck, SteerTypes, TurnTypes
    <2> QED
      BY <1>3, <2>3, Frames DEF TypeOK, SteerCheck
  <1>4. CASE SteerSend
    <2>1. SteerTypes'
      BY <1>4 DEF TypeOK, SteerSend, SteerTypes
    <2> QED
      BY <1>4, <2>1, Frames DEF TypeOK, SteerSend
  <1>5. CASE CancelAll
    <2>1. LockTypes'
      BY <1>5 DEF TypeOK, CancelAll, LockTypes
    <2> QED
      BY <1>5, <2>1, Frames DEF TypeOK, CancelAll
  <1>6. ASSUME NEW r \in Runs, CallerCancel(r)
        PROVE  TypeOK'
    <2>1. LockTypes'
      BY <1>6 DEF TypeOK, CallerCancel, LockTypes
    <2> QED
      BY <1>6, <2>1, Frames DEF TypeOK, CallerCancel
  <1>7. ASSUME NEW r \in Runs, Read(r)
        PROVE  TypeOK'
    <2>1. eventCh \in [Runs -> Seq(Events)]
      BY DEF TypeOK, EvTypes
    <2>2. Tail(eventCh[r]) \in Seq(Events)
      BY <1>7, <2>1 DEF Read
    <2>3. EvTypes'
      BY <1>7, <2>1, <2>2 DEF TypeOK, Read, EvTypes
    <2> QED
      BY <1>7, <2>3, Frames DEF TypeOK, Read
  <1> QED
    BY <1>1, <1>2, <1>3, <1>4, <1>5, <1>6, <1>7 DEF Callers

\* Every variable keeps its type in every run of the manager.
THEOREM TypeCorrect == Spec => []TypeOK
  <1>1. TypeOK /\ [Next]_vars => TypeOK'
    <2>1. CASE UNCHANGED vars
      BY <2>1, Frames DEF TypeOK, vars
    <2> QED
      BY <2>1, StartingType, StreamingType, PlanningType, CallingToolsType,
         EndingType, CallersType DEF Next, Running
  <1> QED
    BY InitType, <1>1, PTL DEF Spec

-----------------------------------------------------------------------------
(* What the helpers do to the program counter and the shared fields. *)

\* setError moves on to pc p, withdraws what is pending and touches neither
\* the lock nor the approval exchange.
Errs(r, p) ==
  /\ pc' = [pc EXCEPT ![r] = p]
  /\ pending' = {} /\ turn' = r
  /\ UNCHANGED <<localVars, lockVars, requestID, approvalCh, histVars>>

\* A step to pc p that touches no field of the manager.
Passes(r, p) ==
  /\ pc' = [pc EXCEPT ![r] = p]
  /\ \A q \in Runs \ {r} : idx'[q] = idx[q]
  /\ UNCHANGED <<callVars, pend, dec, sharedVars, histVars>>

\* setError moves one run on; it touches no lock and no approval (turn.go:1057).
LEMMA SetErrorStep ==
  ASSUME NEW r, NEW p, SetError(r, p)
  PROVE  Errs(r, p)
  BY DEF SetError, Errs, Withdraw

\* A failing helper does what setError does, and nothing else shared.
LEMMA FailStep ==
  ASSUME NEW r, Fail(r)
  PROVE  Errs(r, "errEvent")
  BY SetErrorStep DEF Fail

\* Appending a message moves one run on, to the next step or to its error path.
LEMMA AppendThenStep ==
  ASSUME TypeOK, NEW r, NEW m, NEW p, NEW i, AppendThen(r, m, p, i)
  PROVE  Passes(r, p) \/ Errs(r, "errEvent")
  <1>1. idx \in [Runs -> 1..(MaxCalls + 1)]
    BY DEF TypeOK, RoundTypes
  <1> QED
    BY <1>1, FailStep DEF AppendThen, Passes

\* Sending an event moves one run on, to the next step or to its error path.
LEMMA OfferThenStep ==
  ASSUME TypeOK, NEW r, NEW e, NEW p, NEW i, OfferThen(r, e, p, i)
  PROVE  Passes(r, p) \/ Errs(r, "errEvent")
  <1>1. idx \in [Runs -> 1..(MaxCalls + 1)]
    BY DEF TypeOK, RoundTypes
  <1> QED
    BY <1>1, FailStep DEF OfferThen, Passes

\* Opening a stream moves one run on, to the next step or to its error path.
LEMMA OpenThenStep ==
  ASSUME NEW r, NEW n, OpenThen(r, n)
  PROVE  Passes(r, "stream") \/ Errs(r, "errEvent")
  BY FailStep DEF OpenThen, Passes

-----------------------------------------------------------------------------
(* The lock. *)

\* The runs whose context CancelAll may reach for.
LivePcs == StartPcs \cup RunPcs \cup {"startFailed", "failing"}

\* One step of run r: it takes the lock, keeps it, gives it back or has
\* nothing to do with it, and the cancel function follows.
LockStep(r) ==
  LET p == pc'[r] IN
  /\ pc' = [pc EXCEPT ![r] = p]
  /\ \/ pc[r] = "idle" /\ p \in HoldPcs /\ ~running /\ running'
     \/ pc[r] = "idle" /\ p = "rejected" /\ running /\ running' = running
     \/ pc[r] \in HoldPcs /\ p \in HoldPcs /\ running' = running
     \/ pc[r] \in HoldPcs /\ p \in {"failing", "closing"} /\ running' = FALSE
     \/ pc[r] \in {"failing", "closing"} /\ p \in {"failed", "done"}
          /\ running' = running
  /\ \/ activeCancel' = None
     \/ activeCancel' = r /\ p \in LivePcs
     \/ activeCancel' = activeCancel /\ (pc[r] \in LivePcs => p \in LivePcs)

\* Locks and contexts over the start of a run.
LEMMA StartingLock ==
  ASSUME TypeOK, NEW r \in Runs, Start(r) \/ Starting(r)
  PROVE  LockStep(r)
  <1> USE DEF LockStep, HoldPcs, LivePcs, StartPcs, RunPcs, AskPcs, EndPcs, Pcs,
              Passes, Errs
  <1>0. pc \in [Runs -> Pcs]
    BY DEF TypeOK
  <1>1. CASE \E s \in Sessions, p \in PlanModes : Claim(r, s, p)
    BY <1>0, <1>1 DEF Claim
  <1>2. CASE Reject(r)
    BY <1>0, <1>2 DEF Reject
  <1>3. CASE SetCancel(r)
    BY <1>0, <1>3 DEF SetCancel
  <1>4. CASE DrainStale(r)
    BY <1>0, <1>4 DEF DrainStale
  <1>5. CASE StartFails(r)
    BY <1>0, <1>5 DEF StartFails
  <1>6. CASE BeginPlan(r)
    BY <1>0, <1>6 DEF BeginPlan
  <1>7. CASE BeginTurn(r)
    BY <1>0, <1>7 DEF BeginTurn
  <1>8. CASE SaveNewTurn(r)
    BY <1>0, <1>8 DEF SaveNewTurn
  <1>9. CASE AppendUser(r)
    BY <1>0, <1>9 DEF AppendUser
  <1>10. CASE OpenFirst(r)
    BY <1>0, <1>10 DEF OpenFirst
  <1>11. CASE RefuseFirst(r)
    BY <1>0, <1>11, SetErrorStep DEF RefuseFirst
  <1>12. CASE FreeRunning(r)
    BY <1>0, <1>12 DEF FreeRunning
  <1>13. CASE ClearFailedCancel(r)
    BY <1>0, <1>13 DEF ClearFailedCancel
  <1> QED
    BY <1>1, <1>2, <1>3, <1>4, <1>5, <1>6, <1>7, <1>8, <1>9, <1>10, <1>11,
       <1>12, <1>13
    DEF Start, Starting

\* Locks and contexts over reading a stream.
LEMMA StreamingLock ==
  ASSUME TypeOK, NEW r \in Runs, Streaming(r)
  PROVE  LockStep(r)
  <1> USE DEF LockStep, HoldPcs, LivePcs, StartPcs, RunPcs, AskPcs, EndPcs, Pcs,
              Passes, Errs
  <1>0. pc \in [Runs -> Pcs]
    BY DEF TypeOK
  <1>1. CASE Chunk(r)
    BY <1>0, <1>1 DEF Chunk
  <1>2. CASE \E n \in 0..MaxCalls : StreamDone(r, n)
    BY <1>0, <1>2 DEF StreamDone
  <1>3. CASE StreamFails(r)
    BY <1>0, <1>3 DEF StreamFails
  <1>4. CASE Abort(r)
    BY <1>0, <1>4, FailStep DEF Abort
  <1>5. CASE TakeSteer(r)
    BY <1>0, <1>5 DEF TakeSteer
  <1>6. CASE Drained(r)
    BY <1>0, <1>6 DEF Drained
  <1>7. CASE SteerPartial(r)
    BY <1>0, <1>7 DEF SteerPartial
  <1>8. CASE SteerAppend(r)
    BY <1>0, <1>8, AppendThenStep DEF SteerAppend
  <1>9. CASE SteerEvent(r)
    BY <1>0, <1>9, OfferThenStep DEF SteerEvent
  <1>10. CASE SteerOpen(r)
    BY <1>0, <1>10, OpenThenStep DEF SteerOpen
  <1> QED
    BY <1>1, <1>2, <1>3, <1>4, <1>5, <1>6, <1>7, <1>8, <1>9, <1>10
    DEF Streaming

\* Locks and contexts over the plan gate.
LEMMA PlanningLock ==
  ASSUME TypeOK, NEW r \in Runs, Planning(r)
  PROVE  LockStep(r)
  <1> USE DEF LockStep, HoldPcs, LivePcs, StartPcs, RunPcs, AskPcs, EndPcs, Pcs,
              Passes, Errs
  <1>0. pc \in [Runs -> Pcs]
    BY DEF TypeOK
  <1>1. CASE PlanWithCalls(r)
    BY <1>0, <1>1 DEF PlanWithCalls
  <1>2. CASE PlanReady(r)
    BY <1>0, <1>2 DEF PlanReady
  <1>3. CASE PlanEvent(r)
    BY <1>0, <1>3, OfferThenStep DEF PlanEvent
  <1>4. CASE PlanApproved(r)
    BY <1>0, <1>4 DEF PlanApproved
  <1>5. CASE PlanRejected(r)
    BY <1>0, <1>5, SetErrorStep DEF PlanRejected
  <1>6. CASE PlanAppend(r)
    BY <1>0, <1>6, AppendThenStep DEF PlanAppend
  <1>7. CASE PlanContinue(r)
    BY <1>0, <1>7, AppendThenStep DEF PlanContinue
  <1>8. CASE PlanOpen(r)
    BY <1>0, <1>8, OpenThenStep DEF PlanOpen
  <1>9. CASE WaitCancelled(r)
    BY <1>0, <1>9, FailStep DEF WaitCancelled
  <1> QED
    BY <1>1, <1>2, <1>3, <1>4, <1>5, <1>6, <1>7, <1>8, <1>9
    DEF Planning

\* Locks and contexts over a round of tool calls.
LEMMA CallingToolsLock ==
  ASSUME TypeOK, NEW r \in Runs, CallingTools(r)
  PROVE  LockStep(r)
  <1> USE DEF LockStep, HoldPcs, LivePcs, StartPcs, RunPcs, AskPcs, EndPcs, Pcs,
              Passes, Errs
  <1>0. pc \in [Runs -> Pcs]
    BY DEF TypeOK
  <1>1. CASE Settle(r)
    BY <1>0, <1>1 DEF Settle
  <1>2. CASE RoundStart(r)
    BY <1>0, <1>2 DEF RoundStart
  <1>3. CASE RoundLimit(r)
    BY <1>0, <1>3, FailStep DEF RoundLimit
  <1>4. CASE \E v \in Verdicts : CallTool(r, v)
    BY <1>0, <1>4 DEF CallTool, Result
  <1>5. CASE ExecuteAllowed(r)
    BY <1>0, <1>5 DEF ExecuteAllowed, Execute, Result
  <1>6. CASE NothingPending(r)
    BY <1>0, <1>6 DEF NothingPending
  <1>7. CASE Publish(r)
    BY <1>0, <1>7 DEF Publish
  <1>8. CASE Ask(r)
    BY <1>0, <1>8, OfferThenStep DEF Ask
  <1>9. CASE TakeStale(r)
    BY <1>0, <1>9 DEF TakeStale
  <1>10. CASE TakePayload(r)
    BY <1>0, <1>10 DEF TakePayload
  <1>11. CASE Diff(r)
    BY <1>0, <1>11, OfferThenStep DEF Diff
  <1>12. CASE Decide(r)
    BY <1>0, <1>12 DEF Decide, Result
  <1>13. CASE ExecuteApproved(r)
    BY <1>0, <1>13 DEF ExecuteApproved, Execute, Result
  <1>14. CASE Decided(r)
    BY <1>0, <1>14 DEF Decided
  <1>15. CASE ClearPending(r)
    BY <1>0, <1>15 DEF ClearPending
  <1>16. CASE Emit(r)
    BY <1>0, <1>16, OfferThenStep DEF Emit
  <1>17. CASE AppendCalls(r)
    BY <1>0, <1>17, AppendThenStep DEF AppendCalls
  <1>18. CASE AppendResult(r)
    BY <1>0, <1>18, AppendThenStep DEF AppendResult
  <1>19. CASE ChatNext(r)
    BY <1>0, <1>19, OpenThenStep DEF ChatNext
  <1> QED
    BY <1>1, <1>2, <1>3, <1>4, <1>5, <1>6, <1>7, <1>8, <1>9, <1>10, <1>11,
       <1>12, <1>13, <1>14, <1>15, <1>16, <1>17, <1>18, <1>19
    DEF CallingTools

\* Locks and contexts over the end of a run.
LEMMA EndingLock ==
  ASSUME TypeOK, NEW r \in Runs, Ending(r)
  PROVE  LockStep(r)
  <1> USE DEF LockStep, HoldPcs, LivePcs, StartPcs, RunPcs, AskPcs, EndPcs, Pcs,
              Passes, Errs
  <1>0. pc \in [Runs -> Pcs]
    BY DEF TypeOK
  <1>1. CASE Finish(r)
    BY <1>0, <1>1 DEF Finish
  <1>2. CASE AppendFinal(r)
    BY <1>0, <1>2 DEF AppendFinal
  <1>3. CASE SaveIdle(r)
    BY <1>0, <1>3 DEF SaveIdle
  <1>4. CASE ErrorEvent(r)
    BY <1>0, <1>4 DEF ErrorEvent
  <1>5. CASE Release(r)
    BY <1>0, <1>5 DEF Release, Return
  <1>6. CASE StopRunning(r)
    BY <1>0, <1>6 DEF StopRunning
  <1>7. CASE CloseEvents(r)
    BY <1>0, <1>7 DEF CloseEvents
  <1> QED
    BY <1>1, <1>2, <1>3, <1>4, <1>5, <1>6, <1>7
    DEF Ending

-----------------------------------------------------------------------------
(* The turn in flight and the calls that wait for a decision. *)

\* The places where tm.turn points to the run's own turn.
OwnPcs == RunPcs \cup {"saving", "user", "open"}

\* One step of run r: tm.turn and pendingCalls change only in the hands of
\* the run that holds the lock, calls become pending as the run begins to
\* ask about them, and it stops asking only by withdrawing them.
WindowStep(r) ==
  LET p == pc'[r] IN
  /\ \/ turn' = r /\ pc[r] \in HoldPcs
     \/ turn' = turn /\ (p \in OwnPcs => pc[r] \in OwnPcs)
  /\ \A q \in Runs \ {r} : pend'[q] = pend[q]
  /\ \/ pending' = {}
     \/ pending' = pend'[r] /\ p = "ask"
     \/ /\ pending' = pending
        /\ pc[r] \in AskPcs => p \in AskPcs /\ pend'[r] = pend[r]

\* What is pending over the start of a run.
LEMMA StartingWindow ==
  ASSUME TypeOK, NEW r \in Runs, Start(r) \/ Starting(r)
  PROVE  WindowStep(r)
  <1> USE DEF WindowStep, OwnPcs, HoldPcs, StartPcs, RunPcs, AskPcs, EndPcs, Pcs,
              Passes, Errs
  <1>0. pc \in [Runs -> Pcs] /\ pend \in [Runs -> SUBSET Calls]
    BY DEF TypeOK, RoundTypes
  <1>1. CASE \E s \in Sessions, p \in PlanModes : Claim(r, s, p)
    BY <1>0, <1>1 DEF Claim
  <1>2. CASE Reject(r)
    BY <1>0, <1>2 DEF Reject
  <1>3. CASE SetCancel(r)
    BY <1>0, <1>3 DEF SetCancel
  <1>4. CASE DrainStale(r)
    BY <1>0, <1>4 DEF DrainStale
  <1>5. CASE StartFails(r)
    BY <1>0, <1>5 DEF StartFails
  <1>6. CASE BeginPlan(r)
    BY <1>0, <1>6 DEF BeginPlan
  <1>7. CASE BeginTurn(r)
    BY <1>0, <1>7 DEF BeginTurn
  <1>8. CASE SaveNewTurn(r)
    BY <1>0, <1>8 DEF SaveNewTurn
  <1>9. CASE AppendUser(r)
    BY <1>0, <1>9 DEF AppendUser
  <1>10. CASE OpenFirst(r)
    BY <1>0, <1>10 DEF OpenFirst
  <1>11. CASE RefuseFirst(r)
    BY <1>0, <1>11, SetErrorStep DEF RefuseFirst
  <1>12. CASE FreeRunning(r)
    BY <1>0, <1>12 DEF FreeRunning
  <1>13. CASE ClearFailedCancel(r)
    BY <1>0, <1>13 DEF ClearFailedCancel
  <1> QED
    BY <1>1, <1>2, <1>3, <1>4, <1>5, <1>6, <1>7, <1>8, <1>9, <1>10, <1>11,
       <1>12, <1>13
    DEF Start, Starting

\* What is pending over reading a stream.
LEMMA StreamingWindow ==
  ASSUME TypeOK, NEW r \in Runs, Streaming(r)
  PROVE  WindowStep(r)
  <1> USE DEF WindowStep, OwnPcs, HoldPcs, StartPcs, RunPcs, AskPcs, EndPcs, Pcs,
              Passes, Errs
  <1>0. pc \in [Runs -> Pcs] /\ pend \in [Runs -> SUBSET Calls]
    BY DEF TypeOK, RoundTypes
  <1>1. CASE Chunk(r)
    BY <1>0, <1>1 DEF Chunk
  <1>2. CASE \E n \in 0..MaxCalls : StreamDone(r, n)
    BY <1>0, <1>2 DEF StreamDone
  <1>3. CASE StreamFails(r)
    BY <1>0, <1>3 DEF StreamFails
  <1>4. CASE Abort(r)
    BY <1>0, <1>4, FailStep DEF Abort
  <1>5. CASE TakeSteer(r)
    BY <1>0, <1>5 DEF TakeSteer
  <1>6. CASE Drained(r)
    BY <1>0, <1>6 DEF Drained
  <1>7. CASE SteerPartial(r)
    BY <1>0, <1>7 DEF SteerPartial
  <1>8. CASE SteerAppend(r)
    BY <1>0, <1>8, AppendThenStep DEF SteerAppend
  <1>9. CASE SteerEvent(r)
    BY <1>0, <1>9, OfferThenStep DEF SteerEvent
  <1>10. CASE SteerOpen(r)
    BY <1>0, <1>10, OpenThenStep DEF SteerOpen
  <1> QED
    BY <1>1, <1>2, <1>3, <1>4, <1>5, <1>6, <1>7, <1>8, <1>9, <1>10
    DEF Streaming

\* What is pending over the plan gate.
LEMMA PlanningWindow ==
  ASSUME TypeOK, NEW r \in Runs, Planning(r)
  PROVE  WindowStep(r)
  <1> USE DEF WindowStep, OwnPcs, HoldPcs, StartPcs, RunPcs, AskPcs, EndPcs, Pcs,
              Passes, Errs
  <1>0. pc \in [Runs -> Pcs] /\ pend \in [Runs -> SUBSET Calls]
    BY DEF TypeOK, RoundTypes
  <1>1. CASE PlanWithCalls(r)
    BY <1>0, <1>1 DEF PlanWithCalls
  <1>2. CASE PlanReady(r)
    BY <1>0, <1>2 DEF PlanReady
  <1>3. CASE PlanEvent(r)
    BY <1>0, <1>3, OfferThenStep DEF PlanEvent
  <1>4. CASE PlanApproved(r)
    BY <1>0, <1>4 DEF PlanApproved
  <1>5. CASE PlanRejected(r)
    BY <1>0, <1>5, SetErrorStep DEF PlanRejected
  <1>6. CASE PlanAppend(r)
    BY <1>0, <1>6, AppendThenStep DEF PlanAppend
  <1>7. CASE PlanContinue(r)
    BY <1>0, <1>7, AppendThenStep DEF PlanContinue
  <1>8. CASE PlanOpen(r)
    BY <1>0, <1>8, OpenThenStep DEF PlanOpen
  <1>9. CASE WaitCancelled(r)
    BY <1>0, <1>9, FailStep DEF WaitCancelled
  <1> QED
    BY <1>1, <1>2, <1>3, <1>4, <1>5, <1>6, <1>7, <1>8, <1>9
    DEF Planning

\* What is pending over a round of tool calls.
LEMMA CallingToolsWindow ==
  ASSUME TypeOK, NEW r \in Runs, CallingTools(r)
  PROVE  WindowStep(r)
  <1> USE DEF WindowStep, OwnPcs, HoldPcs, StartPcs, RunPcs, AskPcs, EndPcs, Pcs,
              Passes, Errs
  <1>0. pc \in [Runs -> Pcs] /\ pend \in [Runs -> SUBSET Calls]
    BY DEF TypeOK, RoundTypes
  <1>1. CASE Settle(r)
    BY <1>0, <1>1 DEF Settle
  <1>2. CASE RoundStart(r)
    BY <1>0, <1>2 DEF RoundStart
  <1>3. CASE RoundLimit(r)
    BY <1>0, <1>3, FailStep DEF RoundLimit
  <1>4. CASE \E v \in Verdicts : CallTool(r, v)
    BY <1>0, <1>4 DEF CallTool, Result
  <1>5. CASE ExecuteAllowed(r)
    BY <1>0, <1>5 DEF ExecuteAllowed, Execute, Result
  <1>6. CASE NothingPending(r)
    BY <1>0, <1>6 DEF NothingPending
  <1>7. CASE Publish(r)
    BY <1>0, <1>7 DEF Publish
  <1>8. CASE Ask(r)
    BY <1>0, <1>8, OfferThenStep DEF Ask
  <1>9. CASE TakeStale(r)
    BY <1>0, <1>9 DEF TakeStale
  <1>10. CASE TakePayload(r)
    BY <1>0, <1>10 DEF TakePayload
  <1>11. CASE Diff(r)
    BY <1>0, <1>11, OfferThenStep DEF Diff
  <1>12. CASE Decide(r)
    BY <1>0, <1>12 DEF Decide, Result
  <1>13. CASE ExecuteApproved(r)
    BY <1>0, <1>13 DEF ExecuteApproved, Execute, Result
  <1>14. CASE Decided(r)
    BY <1>0, <1>14 DEF Decided
  <1>15. CASE ClearPending(r)
    BY <1>0, <1>15 DEF ClearPending
  <1>16. CASE Emit(r)
    BY <1>0, <1>16, OfferThenStep DEF Emit
  <1>17. CASE AppendCalls(r)
    BY <1>0, <1>17, AppendThenStep DEF AppendCalls
  <1>18. CASE AppendResult(r)
    BY <1>0, <1>18, AppendThenStep DEF AppendResult
  <1>19. CASE ChatNext(r)
    BY <1>0, <1>19, OpenThenStep DEF ChatNext
  <1> QED
    BY <1>1, <1>2, <1>3, <1>4, <1>5, <1>6, <1>7, <1>8, <1>9, <1>10, <1>11,
       <1>12, <1>13, <1>14, <1>15, <1>16, <1>17, <1>18, <1>19
    DEF CallingTools

\* What is pending over the end of a run.
LEMMA EndingWindow ==
  ASSUME TypeOK, NEW r \in Runs, Ending(r)
  PROVE  WindowStep(r)
  <1> USE DEF WindowStep, OwnPcs, HoldPcs, StartPcs, RunPcs, AskPcs, EndPcs, Pcs,
              Passes, Errs
  <1>0. pc \in [Runs -> Pcs] /\ pend \in [Runs -> SUBSET Calls]
    BY DEF TypeOK, RoundTypes
  <1>1. CASE Finish(r)
    BY <1>0, <1>1 DEF Finish
  <1>2. CASE AppendFinal(r)
    BY <1>0, <1>2 DEF AppendFinal
  <1>3. CASE SaveIdle(r)
    BY <1>0, <1>3 DEF SaveIdle
  <1>4. CASE ErrorEvent(r)
    BY <1>0, <1>4 DEF ErrorEvent
  <1>5. CASE Release(r)
    BY <1>0, <1>5 DEF Release, Return
  <1>6. CASE StopRunning(r)
    BY <1>0, <1>6 DEF StopRunning
  <1>7. CASE CloseEvents(r)
    BY <1>0, <1>7 DEF CloseEvents
  <1> QED
    BY <1>1, <1>2, <1>3, <1>4, <1>5, <1>6, <1>7
    DEF Ending

-----------------------------------------------------------------------------
(* Requests, answers and executions. *)

\* One step of run r: it only takes answers, a new request id is drawn
\* before anything is decided, decisions are those of the current request,
\* and a tool runs because the gate allowed it or because of a decision.
ConsentStep(r) ==
  LET p == pc'[r]
      deciding == {"decide", "execAsked"}
  IN
  /\ approvalCh' \in {approvalCh, None} /\ granted' = granted
  /\ \/ requestID' = requestID
     \/ requestID' \in Nat /\ pc[r] \in HoldPcs /\ p \notin deciding
  /\ \A q \in Runs \ {r} : dec'[q] = dec[q] /\ idx'[q] = idx[q]
  /\ p \in deciding =>
       \/ pc[r] \in deciding /\ dec'[r] = dec[r]
       \/ /\ approvalCh # None /\ approvalCh.id = requestID
          /\ dec'[r] = approvalCh.dec /\ ~DiffOnly(approvalCh.dec)
  /\ p = "execAsked" =>
       /\ DecisionFor(dec[r], idx[r]) # "no"
       /\ idx'[r] = idx[r] /\ dec'[r] = dec[r]
  /\ \/ ran' = ran
     \/ /\ pc[r] = "execute" /\ p = "call"
        /\ ran' = ran \cup {[run |-> r, req |-> 0, call |-> idx[r]]}
     \/ /\ pc[r] = "execAsked" /\ p = "decide"
        /\ ran' = ran \cup {[run |-> r, req |-> requestID, call |-> idx[r]]}

\* Answers, decisions and executions over the start of a run.
LEMMA StartingConsent ==
  ASSUME TypeOK, NEW r \in Runs, Start(r) \/ Starting(r)
  PROVE  ConsentStep(r)
  <1> USE DEF ConsentStep, HoldPcs, StartPcs, RunPcs, AskPcs, EndPcs, Pcs,
              Passes, Errs
  <1>0. /\ pc \in [Runs -> Pcs] /\ dec \in [Runs -> Answers]
        /\ idx \in [Runs -> 1..(MaxCalls + 1)] /\ requestID \in Nat
    BY DEF TypeOK, RoundTypes, ApprTypes
  <1>1. CASE \E s \in Sessions, p \in PlanModes : Claim(r, s, p)
    BY <1>0, <1>1 DEF Claim
  <1>2. CASE Reject(r)
    BY <1>0, <1>2 DEF Reject
  <1>3. CASE SetCancel(r)
    BY <1>0, <1>3 DEF SetCancel
  <1>4. CASE DrainStale(r)
    BY <1>0, <1>4 DEF DrainStale
  <1>5. CASE StartFails(r)
    BY <1>0, <1>5 DEF StartFails
  <1>6. CASE BeginPlan(r)
    BY <1>0, <1>6 DEF BeginPlan
  <1>7. CASE BeginTurn(r)
    BY <1>0, <1>7 DEF BeginTurn
  <1>8. CASE SaveNewTurn(r)
    BY <1>0, <1>8 DEF SaveNewTurn
  <1>9. CASE AppendUser(r)
    BY <1>0, <1>9 DEF AppendUser
  <1>10. CASE OpenFirst(r)
    BY <1>0, <1>10 DEF OpenFirst
  <1>11. CASE RefuseFirst(r)
    BY <1>0, <1>11, SetErrorStep DEF RefuseFirst
  <1>12. CASE FreeRunning(r)
    BY <1>0, <1>12 DEF FreeRunning
  <1>13. CASE ClearFailedCancel(r)
    BY <1>0, <1>13 DEF ClearFailedCancel
  <1> QED
    BY <1>1, <1>2, <1>3, <1>4, <1>5, <1>6, <1>7, <1>8, <1>9, <1>10, <1>11,
       <1>12, <1>13
    DEF Start, Starting

\* Answers, decisions and executions over reading a stream.
LEMMA StreamingConsent ==
  ASSUME TypeOK, NEW r \in Runs, Streaming(r)
  PROVE  ConsentStep(r)
  <1> USE DEF ConsentStep, HoldPcs, StartPcs, RunPcs, AskPcs, EndPcs, Pcs,
              Passes, Errs
  <1>0. /\ pc \in [Runs -> Pcs] /\ dec \in [Runs -> Answers]
        /\ idx \in [Runs -> 1..(MaxCalls + 1)] /\ requestID \in Nat
    BY DEF TypeOK, RoundTypes, ApprTypes
  <1>1. CASE Chunk(r)
    BY <1>0, <1>1 DEF Chunk
  <1>2. CASE \E n \in 0..MaxCalls : StreamDone(r, n)
    BY <1>0, <1>2 DEF StreamDone
  <1>3. CASE StreamFails(r)
    BY <1>0, <1>3 DEF StreamFails
  <1>4. CASE Abort(r)
    BY <1>0, <1>4, FailStep DEF Abort
  <1>5. CASE TakeSteer(r)
    BY <1>0, <1>5 DEF TakeSteer
  <1>6. CASE Drained(r)
    BY <1>0, <1>6 DEF Drained
  <1>7. CASE SteerPartial(r)
    BY <1>0, <1>7 DEF SteerPartial
  <1>8. CASE SteerAppend(r)
    BY <1>0, <1>8, AppendThenStep DEF SteerAppend
  <1>9. CASE SteerEvent(r)
    BY <1>0, <1>9, OfferThenStep DEF SteerEvent
  <1>10. CASE SteerOpen(r)
    BY <1>0, <1>10, OpenThenStep DEF SteerOpen
  <1> QED
    BY <1>1, <1>2, <1>3, <1>4, <1>5, <1>6, <1>7, <1>8, <1>9, <1>10
    DEF Streaming

\* Answers, decisions and executions over the plan gate.
LEMMA PlanningConsent ==
  ASSUME TypeOK, NEW r \in Runs, Planning(r)
  PROVE  ConsentStep(r)
  <1> USE DEF ConsentStep, HoldPcs, StartPcs, RunPcs, AskPcs, EndPcs, Pcs,
              Passes, Errs
  <1>0. /\ pc \in [Runs -> Pcs] /\ dec \in [Runs -> Answers]
        /\ idx \in [Runs -> 1..(MaxCalls + 1)] /\ requestID \in Nat
    BY DEF TypeOK, RoundTypes, ApprTypes
  <1>1. CASE PlanWithCalls(r)
    BY <1>0, <1>1 DEF PlanWithCalls
  <1>2. CASE PlanReady(r)
    BY <1>0, <1>2 DEF PlanReady
  <1>3. CASE PlanEvent(r)
    BY <1>0, <1>3, OfferThenStep DEF PlanEvent
  <1>4. CASE PlanApproved(r)
    BY <1>0, <1>4 DEF PlanApproved
  <1>5. CASE PlanRejected(r)
    BY <1>0, <1>5, SetErrorStep DEF PlanRejected
  <1>6. CASE PlanAppend(r)
    BY <1>0, <1>6, AppendThenStep DEF PlanAppend
  <1>7. CASE PlanContinue(r)
    BY <1>0, <1>7, AppendThenStep DEF PlanContinue
  <1>8. CASE PlanOpen(r)
    BY <1>0, <1>8, OpenThenStep DEF PlanOpen
  <1>9. CASE WaitCancelled(r)
    BY <1>0, <1>9, FailStep DEF WaitCancelled
  <1> QED
    BY <1>1, <1>2, <1>3, <1>4, <1>5, <1>6, <1>7, <1>8, <1>9
    DEF Planning

\* Answers, decisions and executions over a round of tool calls.
LEMMA CallingToolsConsent ==
  ASSUME TypeOK, NEW r \in Runs, CallingTools(r)
  PROVE  ConsentStep(r)
  <1> USE DEF ConsentStep, HoldPcs, StartPcs, RunPcs, AskPcs, EndPcs, Pcs,
              Passes, Errs
  <1>0. /\ pc \in [Runs -> Pcs] /\ dec \in [Runs -> Answers]
        /\ idx \in [Runs -> 1..(MaxCalls + 1)] /\ requestID \in Nat
    BY DEF TypeOK, RoundTypes, ApprTypes
  <1>1. CASE Settle(r)
    BY <1>0, <1>1 DEF Settle
  <1>2. CASE RoundStart(r)
    BY <1>0, <1>2 DEF RoundStart
  <1>3. CASE RoundLimit(r)
    BY <1>0, <1>3, FailStep DEF RoundLimit
  <1>4. CASE \E v \in Verdicts : CallTool(r, v)
    BY <1>0, <1>4 DEF CallTool, Result
  <1>5. CASE ExecuteAllowed(r)
    BY <1>0, <1>5 DEF ExecuteAllowed, Execute, Result
  <1>6. CASE NothingPending(r)
    BY <1>0, <1>6 DEF NothingPending
  <1>7. CASE Publish(r)
    BY <1>0, <1>7 DEF Publish
  <1>8. CASE Ask(r)
    BY <1>0, <1>8, OfferThenStep DEF Ask
  <1>9. CASE TakeStale(r)
    BY <1>0, <1>9 DEF TakeStale
  <1>10. CASE TakePayload(r)
    <2>1. /\ pc' = [pc EXCEPT ![r] = IF DiffOnly(approvalCh.dec) THEN "diff"
                                     ELSE "decide"]
          /\ approvalCh # None /\ approvalCh.id = requestID
          /\ dec' = [dec EXCEPT ![r] = approvalCh.dec]
          /\ idx' = [idx EXCEPT ![r] = 1]
      BY <1>10 DEF TakePayload, IsCurrent
    <2>2. pc'[r] = "decide" => ~DiffOnly(approvalCh.dec)
      BY <1>0, <2>1
    <2>3. pc'[r] \in {"diff", "decide"} /\ dec'[r] = approvalCh.dec
      BY <1>0, <2>1
    <2>4. \A q \in Runs \ {r} : dec'[q] = dec[q] /\ idx'[q] = idx[q]
      BY <1>0, <2>1
    <2> QED
      BY <1>10, <2>1, <2>2, <2>3, <2>4 DEF TakePayload
  <1>11. CASE Diff(r)
    BY <1>0, <1>11, OfferThenStep DEF Diff
  <1>12. CASE Decide(r)
    BY <1>0, <1>12 DEF Decide, Result
  <1>13. CASE ExecuteApproved(r)
    BY <1>0, <1>13 DEF ExecuteApproved, Execute, Result
  <1>14. CASE Decided(r)
    BY <1>0, <1>14 DEF Decided
  <1>15. CASE ClearPending(r)
    BY <1>0, <1>15 DEF ClearPending
  <1>16. CASE Emit(r)
    BY <1>0, <1>16, OfferThenStep DEF Emit
  <1>17. CASE AppendCalls(r)
    BY <1>0, <1>17, AppendThenStep DEF AppendCalls
  <1>18. CASE AppendResult(r)
    BY <1>0, <1>18, AppendThenStep DEF AppendResult
  <1>19. CASE ChatNext(r)
    BY <1>0, <1>19, OpenThenStep DEF ChatNext
  <1> QED
    BY <1>1, <1>2, <1>3, <1>4, <1>5, <1>6, <1>7, <1>8, <1>9, <1>10, <1>11,
       <1>12, <1>13, <1>14, <1>15, <1>16, <1>17, <1>18, <1>19
    DEF CallingTools

\* Answers, decisions and executions over the end of a run.
LEMMA EndingConsent ==
  ASSUME TypeOK, NEW r \in Runs, Ending(r)
  PROVE  ConsentStep(r)
  <1> USE DEF ConsentStep, HoldPcs, StartPcs, RunPcs, AskPcs, EndPcs, Pcs,
              Passes, Errs
  <1>0. /\ pc \in [Runs -> Pcs] /\ dec \in [Runs -> Answers]
        /\ idx \in [Runs -> 1..(MaxCalls + 1)] /\ requestID \in Nat
    BY DEF TypeOK, RoundTypes, ApprTypes
  <1>1. CASE Finish(r)
    BY <1>0, <1>1 DEF Finish
  <1>2. CASE AppendFinal(r)
    BY <1>0, <1>2 DEF AppendFinal
  <1>3. CASE SaveIdle(r)
    BY <1>0, <1>3 DEF SaveIdle
  <1>4. CASE ErrorEvent(r)
    BY <1>0, <1>4 DEF ErrorEvent
  <1>5. CASE Release(r)
    BY <1>0, <1>5 DEF Release, Return
  <1>6. CASE StopRunning(r)
    BY <1>0, <1>6 DEF StopRunning
  <1>7. CASE CloseEvents(r)
    BY <1>0, <1>7 DEF CloseEvents
  <1> QED
    BY <1>1, <1>2, <1>3, <1>4, <1>5, <1>6, <1>7
    DEF Ending

-----------------------------------------------------------------------------
(* The callers of a running turn change neither the program counters nor    *)
(* the lock.                                                               *)

\* What the calls of other goroutines leave alone.
LEMMA CallersStep ==
  ASSUME TypeOK, Callers
  PROVE  /\ UNCHANGED <<pc, localVars, running, activeCancel, turn, pending,
                        requestID, ran>>
         /\ \/ UNCHANGED <<approvalCh, granted>>
            \/ \E s \in Sessions : \E d \in AnswersTo(pending) :
                 ResumeWithApproval(s, d)
  <1>1. ASSUME NEW s \in Sessions, NEW d \in AnswersTo(pending),
               ResumeWithApproval(s, d)
        PROVE  UNCHANGED <<pc, localVars, running, activeCancel, turn, pending,
                           requestID, ran>>
    BY <1>1 DEF ResumeWithApproval
  <1>2. ASSUME NEW s \in Sessions, NEW a \in {"yes", "no"}, ResumeWithPlan(s, a)
        PROVE  UNCHANGED <<pc, localVars, running, activeCancel, turn, pending,
                           requestID, ran, approvalCh, granted>>
    BY <1>2 DEF ResumeWithPlan
  <1>3. ASSUME NEW s \in Sessions, SteerCheck(s)
        PROVE  UNCHANGED <<pc, localVars, running, activeCancel, turn, pending,
                           requestID, ran, approvalCh, granted>>
    BY <1>3 DEF SteerCheck
  <1>4. ASSUME SteerSend \/ CancelAll
        PROVE  UNCHANGED <<pc, localVars, running, activeCancel, turn, pending,
                           requestID, ran, approvalCh, granted>>
    BY <1>4 DEF SteerSend, CancelAll
  <1>5. ASSUME NEW r \in Runs, CallerCancel(r) \/ Read(r)
        PROVE  UNCHANGED <<pc, localVars, running, activeCancel, turn, pending,
                           requestID, ran, approvalCh, granted>>
    BY <1>5 DEF CallerCancel, Read
  <1> QED
    BY <1>1, <1>2, <1>3, <1>4, <1>5 DEF Callers

\* Every step is one of a run, one of a caller, or a stutter.
LEMMA StepKinds ==
  ASSUME TypeOK, [Next]_vars
  PROVE  \/ \E r \in Runs : LockStep(r) /\ WindowStep(r) /\ ConsentStep(r)
         \/ Callers
         \/ UNCHANGED vars
  BY StartingLock, StreamingLock, PlanningLock, CallingToolsLock, EndingLock,
     StartingWindow, StreamingWindow, PlanningWindow, CallingToolsWindow,
     EndingWindow, StartingConsent, StreamingConsent, PlanningConsent,
     CallingToolsConsent, EndingConsent DEF Next, Running

-----------------------------------------------------------------------------
(* Mutual exclusion. *)

\* The flag is set exactly while some run holds it, and only one does.
Mutex == OneRunAtATime /\ (running <=> \E r \in Runs : HoldsRunning(r))

\* No run holds the flag before the first call.
LEMMA InitMutex == Init => Mutex
  BY DEF Init, Mutex, OneRunAtATime, HoldsRunning, HoldPcs, StartPcs, RunPcs,
         AskPcs

\* Every step of a run, and every call of a user, keeps the invariant.
LEMMA NextMutex ==
  ASSUME TypeOK, Mutex, [Next]_vars
  PROVE  Mutex'
  <1> USE DEF Mutex, OneRunAtATime, HoldsRunning
  <1>0. pc \in [Runs -> Pcs] /\ running \in BOOLEAN
    BY DEF TypeOK, LockTypes
  <1>1. {"idle", "rejected", "failing", "closing", "failed", "done"}
         \cap HoldPcs = {}
    BY DEF HoldPcs, StartPcs, RunPcs, AskPcs
  <1>2. ASSUME NEW r \in Runs, LockStep(r)
        PROVE  Mutex'
    <2>1. \A q \in Runs \ {r} : pc'[q] = pc[q]
      BY <1>0, <1>2 DEF LockStep
    <2> QED
      BY <1>0, <1>1, <1>2, <2>1 DEF LockStep
  <1>3. CASE UNCHANGED <<pc, running>>
    BY <1>3
  <1> QED
    BY <1>2, <1>3, CallersStep, StepKinds DEF vars

\* The flag, the run that holds it and the live contexts agree for ever.
THEOREM MutexInvariant == Spec => []Mutex
  <1>1. TypeOK /\ Mutex /\ [Next]_vars => Mutex'
    BY NextMutex
  <1> QED
    BY InitMutex, TypeCorrect, <1>1, PTL DEF Spec

\* One run at a time, for every number of callers (turn.go:276).
THEOREM OneRun == Spec => []OneRunAtATime
  <1>1. Mutex => OneRunAtATime
    BY DEF Mutex
  <1> QED
    BY MutexInvariant, <1>1, PTL

\* CancelAll never reaches for the context of a turn that is over.
THEOREM CancelTargets == Spec => []CancelTargetsLiveRun
  <1> USE DEF CancelTargetsLiveRun
  <1>1. Init => CancelTargetsLiveRun
    BY DEF Init
  <1>2. ASSUME TypeOK, CancelTargetsLiveRun, [Next]_vars
        PROVE  CancelTargetsLiveRun'
    <2>0. pc \in [Runs -> Pcs] /\ activeCancel \in Runs \cup {None}
      BY <1>2 DEF TypeOK, LockTypes
    <2>1. ASSUME NEW r \in Runs, LockStep(r)
          PROVE  CancelTargetsLiveRun'
      BY <1>2, <2>0, <2>1 DEF LockStep, LivePcs
    <2>2. CASE UNCHANGED <<pc, activeCancel>>
      BY <1>2, <2>2
    <2> QED
      BY <1>2, <2>1, <2>2, CallersStep, StepKinds DEF vars
  <1> QED
    BY <1>1, <1>2, TypeCorrect, PTL DEF Spec

-----------------------------------------------------------------------------
(* The window in which calls are pending. *)

\* tm.turn is the turn of the run that has begun one, and pendingCalls are
\* the calls of a run that is asking about them.
Window ==
  /\ \A r \in Runs : pc[r] \in OwnPcs => turn = r
  /\ pending # {} => \E r \in Runs : pc[r] \in AskPcs /\ pending = pend[r]

\* Every step keeps what is pending inside the run that asks.
LEMMA NextWindow ==
  ASSUME TypeOK, Mutex, Window, [Next]_vars
  PROVE  Window'
  <1>0. /\ pc \in [Runs -> Pcs]
        /\ OwnPcs \subseteq HoldPcs /\ AskPcs \subseteq OwnPcs
        /\ "ask" \in AskPcs
    BY DEF TypeOK, OwnPcs, HoldPcs, StartPcs, RunPcs, AskPcs
  <1>1. ASSUME NEW r \in Runs, LockStep(r), WindowStep(r)
        PROVE  Window'
    <2>1. /\ pc' = [pc EXCEPT ![r] = pc'[r]]
          /\ \A q \in Runs \ {r} : pc'[q] = pc[q]
      BY <1>0, <1>1 DEF LockStep
    <2>2. ASSUME NEW q \in Runs, pc'[q] \in OwnPcs
          PROVE  turn' = q
      <3>1. CASE q = r
        BY <1>1, <2>2, <3>1 DEF WindowStep, Window
      <3>2. CASE q # r
        <4>1. pc[q] \in OwnPcs /\ turn = q
          BY <2>1, <2>2, <3>2 DEF Window
        <4>2. pc[r] \notin HoldPcs
          BY <1>0, <3>2, <4>1 DEF Mutex, OneRunAtATime, HoldsRunning
        <4> QED
          BY <1>1, <4>1, <4>2 DEF WindowStep
      <3> QED
        BY <3>1, <3>2
    <2>3. ASSUME pending' # {}
          PROVE  \E q \in Runs : pc'[q] \in AskPcs /\ pending' = pend'[q]
      <3>1. CASE pending' = pend'[r] /\ pc'[r] = "ask"
        BY <1>0, <3>1
      <3>2. CASE /\ pending' = pending
                 /\ pc[r] \in AskPcs => pc'[r] \in AskPcs /\ pend'[r] = pend[r]
        <4>1. PICK q \in Runs : pc[q] \in AskPcs /\ pending = pend[q]
          BY <2>3, <3>2 DEF Window
        <4>2. CASE q = r
          BY <3>2, <4>1, <4>2
        <4>3. CASE q # r
          BY <1>1, <2>1, <3>2, <4>1, <4>3 DEF WindowStep
        <4> QED
          BY <4>2, <4>3
      <3> QED
        BY <1>1, <2>3, <3>1, <3>2 DEF WindowStep
    <2> QED
      BY <2>2, <2>3 DEF Window
  <1>2. CASE UNCHANGED <<pc, turn, pending, pend>>
    BY <1>2 DEF Window
  <1> QED
    BY <1>1, <1>2, CallersStep, StepKinds DEF vars

\* What is pending belongs to the run in flight, for ever.
THEOREM WindowInvariant == Spec => []Window
  <1>1. Init => Window
    BY DEF Init, Window, OwnPcs, RunPcs, AskPcs
  <1>2. TypeOK /\ Mutex /\ Window /\ [Next]_vars => Window'
    BY NextWindow
  <1> QED
    BY <1>1, <1>2, TypeCorrect, MutexInvariant, PTL DEF Spec

\* Calls are pending only while the run in flight asks about them.
THEOREM ApprovalsInWindow == Spec => []ApprovalWindow
  <1>1. Window => ApprovalWindow
    BY DEF Window, ApprovalWindow, OwnPcs, RunPcs
  <1> QED
    BY WindowInvariant, <1>1, PTL

-----------------------------------------------------------------------------
(* Consent. *)

NoDiff(d) == \A c \in DOMAIN d : d[c] # "diff"

\* Every yes in d, an answer to request id, was said by a user.
Consented(id, d) == \A c \in DOMAIN d : d[c] = "yes" => <<id, c>> \in granted

\* A late answer can be in the channel and an old one in a run that decided
\* long ago; what matters is that the answer a run is acting on belongs to
\* the request whose id is current, and that nobody draws a new id meanwhile.
Consent ==
  /\ OnlyApprovedToolsRun
  /\ approvalCh # None =>
       /\ Consented(approvalCh.id, approvalCh.dec)
       /\ NoDiff(approvalCh.dec) \/ DiffOnly(approvalCh.dec)
  /\ \A r \in Runs : pc[r] \in {"decide", "execAsked"} =>
       Consented(requestID, dec[r]) /\ NoDiff(dec[r])
  /\ \A r \in Runs : pc[r] = "execAsked" => DecisionFor(dec[r], idx[r]) # "no"

\* An answer a user interface sends has no diff requests or nothing else.
LEMMA AnswerShape ==
  ASSUME NEW cs, NEW d \in AnswersTo(cs)
  PROVE  NoDiff(d) \/ DiffOnly(d)
  <1>1. CASE \E D \in SUBSET cs : d \in [D -> {"yes", "no"}]
    BY <1>1 DEF NoDiff
  <1>2. CASE \E c \in cs : d \in [{c} -> {"diff"}]
    BY <1>2 DEF DiffOnly
  <1> QED
    BY <1>1, <1>2 DEF AnswersTo

\* Every step keeps what ran below what was granted.
LEMMA NextConsent ==
  ASSUME TypeOK, Mutex, Consent, [Next]_vars
  PROVE  Consent'
  <1>0. /\ pc \in [Runs -> Pcs] /\ requestID \in Nat
        /\ dec \in [Runs -> Answers]
        /\ approvalCh \in Payloads \cup {None}
        /\ {"decide", "execAsked"} \subseteq HoldPcs
    BY DEF TypeOK, RoundTypes, ApprTypes, HoldPcs, RunPcs, AskPcs
  <1>1. ASSUME NEW r \in Runs, LockStep(r), ConsentStep(r)
        PROVE  Consent'
    <2>1. /\ \A q \in Runs \ {r} : pc'[q] = pc[q]
          /\ granted' = granted
          /\ approvalCh' \in {approvalCh, None}
      BY <1>0, <1>1 DEF LockStep, ConsentStep
    <2>2. OnlyApprovedToolsRun'
      <3>1. ASSUME pc[r] = "execAsked"
            PROVE  <<requestID, idx[r]>> \in granted
        <4>1. DecisionFor(dec[r], idx[r]) # "no"
          BY <3>1 DEF Consent
        <4>2. Consented(requestID, dec[r]) /\ NoDiff(dec[r])
          BY <3>1 DEF Consent
        <4>3. idx[r] \in DOMAIN dec[r] /\ dec[r][idx[r]] # "no"
          BY <4>1 DEF DecisionFor
        <4>4. dec[r][idx[r]] \in Decisions
          <5>1. PICK D \in SUBSET Calls : dec[r] \in [D -> Decisions]
            BY <1>0 DEF Answers
          <5> QED
            BY <4>3, <5>1
        <4> QED
          BY <4>2, <4>3, <4>4 DEF Consented, NoDiff, Decisions
      <3> QED
        BY <1>1, <2>1, <3>1 DEF ConsentStep, Consent, OnlyApprovedToolsRun
    <2>3. approvalCh' # None =>
            /\ Consented(approvalCh.id, approvalCh.dec)'
            /\ (NoDiff(approvalCh.dec) \/ DiffOnly(approvalCh.dec))'
      BY <2>1 DEF Consent, Consented, NoDiff, DiffOnly
    <2>4. ASSUME NEW q \in Runs, pc'[q] \in {"decide", "execAsked"}
          PROVE  /\ Consented(requestID, dec[q])' /\ NoDiff(dec[q])'
                 /\ pc'[q] = "execAsked" => DecisionFor(dec'[q], idx'[q]) # "no"
      <3>1. CASE q # r
        <4>1. /\ pc[q] \in {"decide", "execAsked"}
              /\ dec'[q] = dec[q] /\ idx'[q] = idx[q]
          BY <1>1, <2>1, <2>4, <3>1 DEF ConsentStep
        <4>2. pc[r] \notin HoldPcs
          BY <1>0, <3>1, <4>1 DEF Mutex, OneRunAtATime, HoldsRunning
        <4>3. requestID' = requestID
          BY <1>1, <4>2 DEF ConsentStep
        <4> QED
          BY <2>1, <3>1, <4>1, <4>3 DEF Consent, Consented, NoDiff
      <3>2. CASE q = r
        <4>1. requestID' = requestID
          BY <1>1, <2>4, <3>2 DEF ConsentStep
        <4>2. Consented(requestID, dec'[r]) /\ NoDiff(dec'[r])
          BY <1>1, <2>4, <3>2 DEF ConsentStep, Consent
        <4>3. pc'[r] = "execAsked" => DecisionFor(dec'[r], idx'[r]) # "no"
          BY <1>1 DEF ConsentStep
        <4> QED
          BY <2>1, <3>2, <4>1, <4>2, <4>3 DEF Consented, NoDiff
      <3> QED
        BY <3>1, <3>2
    <2> QED
      BY <2>2, <2>3, <2>4 DEF Consent
  <1>2. ASSUME NEW s \in Sessions, NEW d \in AnswersTo(pending),
               ResumeWithApproval(s, d)
        PROVE  Consent'
    <2>1. /\ UNCHANGED <<pc, dec, idx, requestID, ran>>
          /\ granted \subseteq granted'
          /\ approvalCh' = [id |-> requestID, dec |-> d]
          /\ \A c \in DOMAIN d : d[c] = "yes" => <<requestID, c>> \in granted'
      BY <1>2 DEF ResumeWithApproval
    <2>2. (NoDiff(approvalCh.dec) \/ DiffOnly(approvalCh.dec))'
      BY <2>1, AnswerShape DEF NoDiff, DiffOnly
    <2>3. Consented(approvalCh.id, approvalCh.dec)'
      BY <2>1 DEF Consented
    <2> QED
      BY <2>1, <2>2, <2>3 DEF Consent, OnlyApprovedToolsRun, Consented, NoDiff
  <1>3. CASE UNCHANGED <<pc, dec, idx, requestID, ran, approvalCh, granted>>
    BY <1>3 DEF Consent, OnlyApprovedToolsRun, Consented, NoDiff, DiffOnly
  <1> QED
    BY <1>1, <1>2, <1>3, CallersStep, StepKinds DEF vars

\* What ran, and what is being decided, was granted, for ever.
THEOREM ConsentInvariant == Spec => []Consent
  <1>1. Init => Consent
    BY DEF Init, Consent, OnlyApprovedToolsRun
  <1>2. TypeOK /\ Mutex /\ Consent /\ [Next]_vars => Consent'
    BY NextConsent
  <1> QED
    BY <1>1, <1>2, TypeCorrect, MutexInvariant, PTL DEF Spec

\* No tool runs without the consent it needs, however many runs, rounds,
\* calls and answers there are.
THEOREM OnlyApproved == Spec => []OnlyApprovedToolsRun
  <1>1. Consent => OnlyApprovedToolsRun
    BY DEF Consent
  <1> QED
    BY ConsentInvariant, <1>1, PTL

-----------------------------------------------------------------------------
(* Refinement. *)

Phase == [r \in Runs |-> PhaseOf(pc[r])]

\* How the phase of a run reads off its program counter.
LEMMA PhaseFacts ==
  /\ PhaseOf("idle") = "idle" /\ PhaseOf("rejected") = "refused"
  /\ \A p \in HoldPcs : PhaseOf(p) = "busy"
  /\ \A p \in {"failing", "failed", "closing", "done"} : PhaseOf(p) = "over"
  BY DEF PhaseOf, HoldPcs, StartPcs, RunPcs, AskPcs

\* A step of a run changes the phase of that run alone.
LEMMA PhaseStep ==
  ASSUME TypeOK, NEW r \in Runs, LockStep(r)
  PROVE  Phase' = [Phase EXCEPT ![r] = PhaseOf(pc'[r])]
  <1>1. pc \in [Runs -> Pcs] /\ pc' = [pc EXCEPT ![r] = pc'[r]]
    BY DEF TypeOK, LockStep
  <1> QED
    BY <1>1 DEF Phase

\* The manager does what TurnService says.
THEOREM Refinement == Spec => ImplementsService
  <1> USE DEF Service!Accept, Service!Refuse, Service!End, Service!Grant,
              Service!RunTool, Service!Next, Service!vars, Phase
  <1>1. Init => Service!Init
    BY PhaseFacts DEF Init, Service!Init
  <1>2. ASSUME TypeOK, TypeOK', Mutex, Window, Consent, Consent', [Next]_vars
        PROVE  [Service!Next]_(Service!vars)
    <2>0. /\ pc \in [Runs -> Pcs]
          /\ {"execute", "execAsked"} \subseteq HoldPcs
          /\ AskPcs \subseteq HoldPcs
      BY <1>2 DEF TypeOK, HoldPcs, StartPcs, RunPcs, AskPcs
    <2>1. ASSUME NEW r \in Runs, LockStep(r), ConsentStep(r)
          PROVE  [Service!Next]_(Service!vars)
      <3>0. Phase' = [Phase EXCEPT ![r] = PhaseOf(pc'[r])] /\ granted' = granted
        BY <1>2, <2>1, PhaseStep DEF ConsentStep
      <3>1. CASE pc[r] = "idle" /\ pc'[r] \in HoldPcs /\ ~running
        <4>1. \A q \in Runs : Phase[q] # "busy"
          BY <1>2, <3>1 DEF Mutex, HoldsRunning, PhaseOf, Pcs, EndPcs, HoldPcs
        <4>2. ran' = ran
          BY <2>1, <3>1 DEF ConsentStep
        <4>3. Service!Accept(r)
          BY <2>0, PhaseFacts, <3>0, <3>1, <4>1, <4>2
        <4> QED
          BY <4>3
      <3>2. CASE pc[r] = "idle" /\ pc'[r] = "rejected" /\ running
        <4>1. \E q \in Runs : Phase[q] = "busy"
          BY <1>2, <2>0, PhaseFacts, <3>2 DEF Mutex, HoldsRunning
        <4>2. ran' = ran
          BY <2>1, <3>2 DEF ConsentStep
        <4>3. Service!Refuse(r)
          BY <2>0, PhaseFacts, <3>0, <3>2, <4>1, <4>2
        <4> QED
          BY <4>3
      <3>3. CASE pc[r] \in HoldPcs /\ pc'[r] \in HoldPcs
        <4>1. Phase' = Phase
          BY <2>0, PhaseFacts, <3>0, <3>3
        <4>2. ASSUME NEW req \in Nat,
                     ran' = ran \cup {[run |-> r, req |-> req, call |-> idx[r]]}
              PROVE  [Service!Next]_(Service!vars)
          <5> DEFINE x == [run |-> r, req |-> req, call |-> idx[r]]
          <5>0. x \in ran' /\ x.run = r /\ x.req = req /\ x.call = idx[r]
            BY <4>2
          <5>1. req > 0 => <<req, idx[r]>> \in granted
            <6>1. OnlyApprovedToolsRun'
              BY <1>2 DEF Consent
            <6> QED
              BY <3>0, <5>0, <6>1 DEF OnlyApprovedToolsRun
          <5>2. Service!RunTool(r, idx[r], req)
            BY <2>0, PhaseFacts, <3>0, <3>3, <4>1, <4>2, <5>1
          <5>3. Service!RunTool(x.run, x.call, x.req)
            BY <5>0, <5>2
          <5> HIDE DEF x
          <5>4. \E y \in ran' : Service!RunTool(y.run, y.call, y.req)
            BY ONLY <5>0, <5>3
          <5> QED
            BY <5>4
        <4>3. CASE ran' = ran
          BY <3>0, <4>1, <4>3
        <4>4. requestID \in Nat
          BY <1>2 DEF TypeOK, ApprTypes
        <4>6. \/ ran' = ran
              \/ ran' = ran \cup {[run |-> r, req |-> 0, call |-> idx[r]]}
              \/ ran' = ran
                     \cup {[run |-> r, req |-> requestID, call |-> idx[r]]}
          BY ONLY <2>1 DEF ConsentStep
        <4>7. CASE ran' = ran \cup {[run |-> r, req |-> 0, call |-> idx[r]]}
          BY <4>2, <4>7
        <4>8. CASE ran' = ran
                       \cup {[run |-> r, req |-> requestID, call |-> idx[r]]}
          BY <4>2, <4>4, <4>8
        <4> QED
          BY <4>3, <4>6, <4>7, <4>8
      <3>4. CASE pc[r] \in HoldPcs /\ pc'[r] \in {"failing", "closing"}
        <4>1. ran' = ran
          BY <2>1, <3>4 DEF ConsentStep
        <4>2. PhaseOf(pc'[r]) = "over"
          BY <2>0, PhaseFacts, <3>4
        <4>3. Service!End(r)
          BY <2>0, PhaseFacts, <3>0, <3>4, <4>1, <4>2
        <4> QED
          BY <4>3
      <3>5. CASE /\ pc[r] \in {"failing", "closing"}
                 /\ pc'[r] \in {"failed", "done"}
        <4>1. ran' = ran
          BY <2>1, <3>5 DEF ConsentStep
        <4>2. Phase' = Phase
          <5>1. PhaseOf(pc[r]) = "over" /\ PhaseOf(pc'[r]) = "over"
            BY PhaseFacts, <3>5
          <5>2. Phase[r] = "over"
            BY <5>1
          <5> QED
            BY <3>0, <5>1, <5>2
        <4> QED
          BY <3>0, <4>1, <4>2
      <3> QED
        BY <2>1, <3>1, <3>2, <3>3, <3>4, <3>5 DEF LockStep
    <2>2. ASSUME NEW s \in Sessions, NEW d \in AnswersTo(pending),
                 ResumeWithApproval(s, d)
          PROVE  [Service!Next]_(Service!vars)
      <3>1. \E r \in Runs : Phase[r] = "busy"
        BY <1>2, <2>0, PhaseFacts, <2>2 DEF ResumeWithApproval, Window
      <3>2. /\ granted \subseteq granted' /\ granted' \subseteq Nat \X Calls
            /\ Phase' = Phase /\ ran' = ran
        BY <1>2, <2>2 DEF TypeOK, HistTypes, ResumeWithApproval
      <3> QED
        BY <3>1, <3>2
    <2>3. CASE UNCHANGED <<pc, granted, ran>>
      BY <2>3
    <2> QED
      BY <1>2, <2>1, <2>2, <2>3, CallersStep, StepKinds DEF vars
  <1> QED
    BY <1>1, <1>2, TypeCorrect, MutexInvariant, WindowInvariant,
       ConsentInvariant, PTL DEF Spec, ImplementsService, Service!Spec

-----------------------------------------------------------------------------
(* What a run has answered and what it has reported. *)

\* Whether call c of the round has its result.
Settled(r, c) == results[r][c] # "none"

\* The results of a round, step by step: while the calls are looked at, those
\* passed have a result unless they were set aside; while the user is asked,
\* exactly those set aside have none; while the decisions are carried out,
\* those passed have one; afterwards all have.
RoundOK(r) ==
  /\ pc[r] \in {"call", "execute"} =>
       /\ \A c \in 1..calls[r] : Settled(r, c) <=> c < idx[r] /\ c \notin pend[r]
       /\ \A c \in pend[r] : c < idx[r]
  /\ pc[r] \in {"ask", "await", "diff"} =>
       \A c \in 1..calls[r] : Settled(r, c) <=> c \notin pend[r]
  /\ pc[r] \in {"decide", "execAsked"} =>
       \A c \in 1..calls[r] : Settled(r, c) <=> c \notin pend[r] \/ c < idx[r]
  /\ pc[r] = "execute" => idx[r] <= calls[r]
  /\ pc[r] = "execAsked" => idx[r] <= calls[r] /\ idx[r] \in pend[r]
  /\ pc[r] \in {"clear", "emit"} => \A c \in 1..calls[r] : Settled(r, c)

\* The terminal events sent so far: none before the run knows how it ends;
\* then one kind, which only a done context may keep from being sent.
OutcomeOK(r) ==
  /\ outcome[r] # {"done", "error"}
  /\ pc[r] \notin {"abort", "errEvent", "final", "save", "release", "stop",
                   "closing", "done"} => outcome[r] = {}
  /\ pc[r] \in {"abort", "errEvent"} => outcome[r] \subseteq {"error"}
  /\ pc[r] \in {"final", "save"} => outcome[r] \subseteq {"done"}
  /\ pc[r] \in {"final", "save", "release"} /\ r \notin cancelled =>
       outcome[r] # {}

\* One step of run r keeps both, and those of the other runs.
ProgressStep(r) ==
  /\ \A q \in Runs \ {r} :
       /\ pc'[q] = pc[q] /\ idx'[q] = idx[q] /\ calls'[q] = calls[q]
       /\ pend'[q] = pend[q] /\ results'[q] = results[q]
       /\ outcome'[q] = outcome[q]
  /\ cancelled \subseteq cancelled'
  /\ RoundOK(r) => RoundOK(r)'
  /\ OutcomeOK(r) => OutcomeOK(r)'

\* The part of the type invariant that the proofs below use.
ProgressTypes ==
  /\ pc \in [Runs -> Pcs] /\ idx \in [Runs -> 1..(MaxCalls + 1)]
  /\ calls \in [Runs -> 0..MaxCalls] /\ pend \in [Runs -> SUBSET Calls]
  /\ results \in [Runs -> [Calls -> Results]]
  /\ outcome \in [Runs -> SUBSET {"done", "error"}]

\* The type invariant gives the types these proofs use.
LEMMA ProgressTypesHold == TypeOK => ProgressTypes
  BY DEF TypeOK, ProgressTypes, StreamTypes, RoundTypes, EvTypes

\* Offering a terminal event: it goes out, or the run was cancelled.
LEMMA OfferTerminal ==
  ASSUME ProgressTypes, NEW r \in Runs, NEW e \in {"done", "error"}, Offer(r, e)
  PROVE  /\ \A q \in Runs \ {r} : outcome'[q] = outcome[q]
         /\ \/ outcome'[r] = outcome[r] \cup {e}
            \/ r \in cancelled /\ outcome'[r] = outcome[r]
  <1>1. CASE Push(r, e)
    <2>1. {e} \cap {"done", "error"} = {e}
      OBVIOUS
    <2>2. outcome' = [outcome EXCEPT ![r] = @ \cup {e}]
      BY <1>1, <2>1 DEF Push
    <2> QED
      BY <2>2 DEF ProgressTypes
  <1>2. CASE r \in cancelled /\ UNCHANGED evVars
    BY <1>2
  <1> QED
    BY <1>1, <1>2 DEF Offer

\* The round and the outcome over the start of a run.
LEMMA StartingProgress ==
  ASSUME TypeOK, NEW r \in Runs, Start(r) \/ Starting(r)
  PROVE  ProgressStep(r)
  <1> USE ProgressTypesHold DEF ProgressTypes, ProgressStep, RoundOK, OutcomeOK
  <1>1. CASE \E s \in Sessions, p \in PlanModes : Claim(r, s, p)
    BY <1>1 DEF Claim
  <1>2. CASE Reject(r)
    BY <1>2 DEF Reject
  <1>3. CASE SetCancel(r)
    BY <1>3 DEF SetCancel
  <1>4. CASE DrainStale(r)
    BY <1>4 DEF DrainStale
  <1>5. CASE StartFails(r)
    BY <1>5 DEF StartFails
  <1>6. CASE BeginPlan(r)
    BY <1>6 DEF BeginPlan
  <1>7. CASE BeginTurn(r)
    BY <1>7 DEF BeginTurn
  <1>8. CASE SaveNewTurn(r)
    BY <1>8 DEF SaveNewTurn
  <1>9. CASE AppendUser(r)
    BY <1>9 DEF AppendUser
  <1>10. CASE OpenFirst(r)
    BY <1>10 DEF OpenFirst
  <1>11. CASE RefuseFirst(r)
    BY <1>11 DEF RefuseFirst, SetError
  <1>12. CASE FreeRunning(r)
    BY <1>12 DEF FreeRunning
  <1>13. CASE ClearFailedCancel(r)
    BY <1>13 DEF ClearFailedCancel
  <1> QED
    BY <1>1, <1>2, <1>3, <1>4, <1>5, <1>6, <1>7, <1>8, <1>9, <1>10, <1>11,
       <1>12, <1>13
    DEF Start, Starting

\* The same over reading a stream.
LEMMA StreamingProgress ==
  ASSUME TypeOK, NEW r \in Runs, Streaming(r)
  PROVE  ProgressStep(r)
  <1> USE ProgressTypesHold
      DEF ProgressTypes, ProgressStep, RoundOK, OutcomeOK, Offer, Push, Fail,
          SetError
  <1>1. CASE Chunk(r)
    BY <1>1 DEF Chunk
  <1>2. CASE \E n \in 0..MaxCalls : StreamDone(r, n)
    BY <1>2 DEF StreamDone
  <1>3. CASE StreamFails(r)
    <2>1. /\ pc[r] = "stream" /\ pc' = [pc EXCEPT ![r] = "abort"]
          /\ Offer(r, "error") /\ UNCHANGED <<localVars, cancelled>>
      BY <1>3 DEF StreamFails
    <2> HIDE DEF Offer, Push
    <2>2. /\ \A q \in Runs \ {r} : outcome'[q] = outcome[q]
          /\ outcome[r] = {} => outcome'[r] \subseteq {"error"}
      BY <2>1, OfferTerminal
    <2> QED
      BY <2>1, <2>2
  <1>4. CASE Abort(r)
    BY <1>4 DEF Abort
  <1>5. CASE TakeSteer(r)
    BY <1>5 DEF TakeSteer
  <1>6. CASE Drained(r)
    BY <1>6 DEF Drained
  <1>7. CASE SteerPartial(r)
    BY <1>7 DEF SteerPartial
  <1>8. CASE SteerAppend(r)
    BY <1>8 DEF SteerAppend, AppendThen
  <1>9. CASE SteerEvent(r)
    BY <1>9 DEF SteerEvent, OfferThen
  <1>10. CASE SteerOpen(r)
    BY <1>10 DEF SteerOpen, OpenThen
  <1> QED
    BY <1>1, <1>2, <1>3, <1>4, <1>5, <1>6, <1>7, <1>8, <1>9, <1>10
    DEF Streaming

\* The same over the plan gate.
LEMMA PlanningProgress ==
  ASSUME TypeOK, NEW r \in Runs, Planning(r)
  PROVE  ProgressStep(r)
  <1> USE ProgressTypesHold
      DEF ProgressTypes, ProgressStep, RoundOK, OutcomeOK, Push, Fail, SetError
  <1>1. CASE PlanWithCalls(r)
    BY <1>1 DEF PlanWithCalls
  <1>2. CASE PlanReady(r)
    BY <1>2 DEF PlanReady
  <1>3. CASE PlanEvent(r)
    BY <1>3 DEF PlanEvent, OfferThen
  <1>4. CASE PlanApproved(r)
    BY <1>4 DEF PlanApproved
  <1>5. CASE PlanRejected(r)
    BY <1>5 DEF PlanRejected
  <1>6. CASE PlanAppend(r)
    BY <1>6 DEF PlanAppend, AppendThen
  <1>7. CASE PlanContinue(r)
    BY <1>7 DEF PlanContinue, AppendThen
  <1>8. CASE PlanOpen(r)
    BY <1>8 DEF PlanOpen, OpenThen
  <1>9. CASE WaitCancelled(r)
    BY <1>9 DEF WaitCancelled
  <1> QED
    BY <1>1, <1>2, <1>3, <1>4, <1>5, <1>6, <1>7, <1>8, <1>9
    DEF Planning

\* The same over a round of tool calls.
LEMMA CallingToolsProgress ==
  ASSUME TypeOK, NEW r \in Runs, CallingTools(r)
  PROVE  ProgressStep(r)
  <1> USE ProgressTypesHold
      DEF ProgressTypes, ProgressStep, RoundOK, OutcomeOK, Settled, Results,
          Calls, Offer, Push, Fail, SetError
  <1>1. CASE Settle(r)
    BY <1>1 DEF Settle
  <1>2. CASE RoundStart(r)
    BY <1>2 DEF RoundStart
  <1>3. CASE RoundLimit(r)
    BY <1>3 DEF RoundLimit
  <1>4. CASE \E v \in Verdicts : CallTool(r, v)
    <2>1. /\ pc[r] = "call" /\ idx[r] <= calls[r] /\ idx[r] \in Calls
          /\ UNCHANGED <<calls, cancelled, outcome>>
      BY <1>4 DEF CallTool, Result
    <2>2. CASE /\ \E k \in {"cancelled", "denied"} : Result(r, k)
               /\ UNCHANGED pc
      BY <2>1, <2>2 DEF Result
    <2>3. CASE Go(r, "execute") /\ UNCHANGED localVars
      BY <2>1, <2>3
    <2>4. CASE /\ pend' = [pend EXCEPT ![r] = @ \cup {idx[r]}]
               /\ At(r, idx[r] + 1) /\ UNCHANGED <<pc, results>>
      BY <2>1, <2>4
    <2> QED
      BY <1>4, <2>2, <2>3, <2>4 DEF CallTool
  <1>5. CASE ExecuteAllowed(r)
    BY <1>5 DEF ExecuteAllowed, Execute, Result
  <1>6. CASE NothingPending(r)
    BY <1>6 DEF NothingPending
  <1>7. CASE Publish(r)
    BY <1>7 DEF Publish
  <1>8. CASE Ask(r)
    BY <1>8 DEF Ask, OfferThen
  <1>9. CASE TakeStale(r)
    BY <1>9 DEF TakeStale
  <1>10. CASE TakePayload(r)
    BY <1>10 DEF TakePayload
  <1>11. CASE Diff(r)
    BY <1>11 DEF Diff, OfferThen
  <1>12. CASE Decide(r)
    <2>1. /\ pc[r] = "decide" /\ idx[r] <= calls[r] /\ idx[r] \in Calls
          /\ UNCHANGED <<calls, pend, cancelled, outcome>>
      BY <1>12 DEF Decide, Result
    <2>2. CASE /\ idx[r] \notin pend[r] /\ At(r, idx[r] + 1)
               /\ UNCHANGED <<pc, results>>
      BY <2>1, <2>2
    <2>3. CASE /\ \E k \in {"cancelled", "denied"} : Result(r, k)
               /\ UNCHANGED pc
      BY <2>1, <2>3 DEF Result
    <2>4. CASE /\ idx[r] \in pend[r] /\ Go(r, "execAsked")
               /\ UNCHANGED localVars
      BY <2>1, <2>4
    <2> QED
      BY <1>12, <2>2, <2>3, <2>4 DEF Decide
  <1>13. CASE ExecuteApproved(r)
    BY <1>13 DEF ExecuteApproved, Execute, Result
  <1>14. CASE Decided(r)
    BY <1>14 DEF Decided
  <1>15. CASE ClearPending(r)
    BY <1>15 DEF ClearPending
  <1>16. CASE Emit(r)
    BY <1>16 DEF Emit, OfferThen
  <1>17. CASE AppendCalls(r)
    BY <1>17 DEF AppendCalls, AppendThen
  <1>18. CASE AppendResult(r)
    BY <1>18 DEF AppendResult, AppendThen
  <1>19. CASE ChatNext(r)
    BY <1>19 DEF ChatNext, OpenThen
  <1> QED
    BY <1>1, <1>2, <1>3, <1>4, <1>5, <1>6, <1>7, <1>8, <1>9, <1>10, <1>11,
       <1>12, <1>13, <1>14, <1>15, <1>16, <1>17, <1>18, <1>19
    DEF CallingTools

\* The same over the end of a run.
LEMMA EndingProgress ==
  ASSUME TypeOK, NEW r \in Runs, Ending(r)
  PROVE  ProgressStep(r)
  <1> USE ProgressTypesHold
      DEF ProgressTypes, ProgressStep, RoundOK, OutcomeOK, Offer, Push
  <1>1. CASE Finish(r)
    <2>1. /\ pc[r] = "finish" /\ pc' = [pc EXCEPT ![r] = "final"]
          /\ Offer(r, "done") /\ UNCHANGED <<localVars, cancelled>>
      BY <1>1 DEF Finish
    <2> HIDE DEF Offer, Push
    <2>2. /\ \A q \in Runs \ {r} : outcome'[q] = outcome[q]
          /\ outcome[r] = {} => /\ "error" \notin outcome'[r]
                                /\ outcome'[r] \subseteq {"done"}
                                /\ \/ "done" \in outcome'[r]
                                   \/ r \in cancelled
      BY <2>1, OfferTerminal
    <2>3. RoundOK(r) => RoundOK(r)'
      BY <2>1
    <2>4. OutcomeOK(r) => OutcomeOK(r)'
      BY <2>1, <2>2
    <2> QED
      BY <2>1, <2>2, <2>3, <2>4
  <1>2. CASE AppendFinal(r)
    BY <1>2 DEF AppendFinal
  <1>3. CASE SaveIdle(r)
    BY <1>3 DEF SaveIdle
  <1>4. CASE ErrorEvent(r)
    <2>1. /\ pc[r] = "errEvent" /\ pc' = [pc EXCEPT ![r] = "release"]
          /\ Offer(r, "error") /\ UNCHANGED <<localVars, cancelled>>
      BY <1>4 DEF ErrorEvent
    <2> HIDE DEF Offer, Push
    <2>2. /\ \A q \in Runs \ {r} : outcome'[q] = outcome[q]
          /\ outcome[r] \subseteq {"error"} =>
               /\ outcome'[r] \subseteq {"error"}
               /\ r \notin cancelled => outcome'[r] # {}
      BY <2>1, OfferTerminal
    <2> QED
      BY <2>1, <2>2
  <1>5. CASE Release(r)
    BY <1>5 DEF Release, Return
  <1>6. CASE StopRunning(r)
    BY <1>6 DEF StopRunning
  <1>7. CASE CloseEvents(r)
    BY <1>7 DEF CloseEvents
  <1> QED
    BY <1>1, <1>2, <1>3, <1>4, <1>5, <1>6, <1>7
    DEF Ending

\* Every run keeps both.
Progress == \A r \in Runs : RoundOK(r) /\ OutcomeOK(r)

\* Every step keeps what every run has answered and reported.
LEMMA NextProgress ==
  ASSUME TypeOK, Progress, [Next]_vars
  PROVE  Progress'
  <1>1. ASSUME NEW r \in Runs, ProgressStep(r)
        PROVE  Progress'
    <2>1. RoundOK(r)' /\ OutcomeOK(r)'
      BY <1>1 DEF Progress, ProgressStep
    <2>2. ASSUME NEW q \in Runs \ {r}
          PROVE  RoundOK(q)' /\ OutcomeOK(q)'
      BY <1>1, <2>2 DEF Progress, ProgressStep, RoundOK, OutcomeOK, Settled
    <2> QED
      BY <2>1, <2>2 DEF Progress
  <1>2. ASSUME UNCHANGED <<pc, localVars, outcome>>, cancelled \subseteq cancelled'
        PROVE  Progress'
    BY <1>2 DEF Progress, RoundOK, OutcomeOK, Settled
  <1>3. CASE Callers
    <2>1. UNCHANGED outcome /\ cancelled \subseteq cancelled'
      BY <1>3 DEF Callers, ResumeWithApproval, ResumeWithPlan, SteerCheck,
         SteerSend, CancelAll, CallerCancel, Read
    <2> QED
      BY <1>2, <1>3, <2>1, CallersStep
  <1>4. CASE UNCHANGED vars
    BY <1>2, <1>4 DEF vars
  <1> QED
    BY <1>1, <1>3, <1>4, StartingProgress, StreamingProgress, PlanningProgress,
       CallingToolsProgress, EndingProgress DEF Next, Running

\* Every run keeps its results and its terminal events in step with where it
\* is, in every behaviour.
THEOREM ProgressInvariant == Spec => []Progress
  <1>1. Init => Progress
    BY DEF Init, Progress, RoundOK, OutcomeOK
  <1>2. TypeOK /\ Progress /\ [Next]_vars => Progress'
    BY NextProgress
  <1> QED
    BY <1>1, <1>2, TypeCorrect, PTL DEF Spec

\* Within a round every call is answered once, for every number of calls,
\* rounds and runs: a call that is executed has no result yet, and none is
\* without one when the results go out (turn.go:574-736).
THEOREM AnsweredOnce == Spec => []CallsAnsweredOnce
  <1>1. TypeOK /\ Progress => CallsAnsweredOnce
    BY ProgressTypesHold
    DEF Progress, ProgressTypes, RoundOK, Settled, CallsAnsweredOnce
  <1> QED
    BY <1>1, TypeCorrect, ProgressInvariant, PTL

\* A run that closes its channel without having been cancelled has told its
\* reader how it ended, and never in two ways (turn.go:778-781, 1064-1069).
THEOREM Reported == Spec => []OutcomeReported
  <1>1. Progress => OutcomeReported
    BY DEF Progress, OutcomeOK, OutcomeReported
  <1> QED
    BY <1>1, ProgressInvariant, PTL

=============================================================================

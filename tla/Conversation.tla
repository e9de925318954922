---------------------------- MODULE Conversation ----------------------------
(***************************************************************************)
(* The stored conversation and all that changes it: the messages and turns *)
(* of the sessions in SQLite (internal/store/sqlite.go), the turn engine   *)
(* that appends to them, the session manager that recovers, forks, clears  *)
(* and renames (internal/core/session.go), the compressor that replaces    *)
(* the older messages by a summary (internal/core/compressor.go), and the  *)
(* import of a session (internal/app/app.go, internal/tui/commands.go).    *)
(* A transaction of the store is one step; an operation is as many steps   *)
(* as it makes calls, and a turn runs between them.  The process may crash *)
(* between any two.                                                        *)
(***************************************************************************)
EXTENDS Integers, FiniteSets, SequencesExt

CONSTANTS
  Sessions,   \* the sessions the database may hold
  None,       \* no session, no call
  CallNos,    \* the calls an answer may have, 1..n
  Limit,      \* the messages GetMessages returns when it is given no limit
  Keep,       \* the messages a compaction keeps
  MaxId,      \* bound on the messages ever made, 4 of them in an export
  MaxTurns,   \* bound on the turns
  MaxStarts,  \* bound on the sessions started or imported, beside forks
  MaxOps      \* bound on the operations besides turns, and on the crashes

ASSUME ConversationAssumption ==
  /\ None \notin Sessions
  /\ CallNos \subseteq 1..9 /\ CallNos # {}
  /\ {Limit, Keep, MaxTurns, MaxStarts} \subseteq Nat \ {0}
  /\ {MaxId, MaxOps} \subseteq Nat /\ MaxId > 4

VARIABLES
  rows,     \* the rows of messages, by session
  turns,    \* the state of the turns, by session, in the order of seq
  made,     \* the rows of sessions
  next,     \* the next message id; the clock advances with it
  run,      \* the turn that is running: where it is, its session, its seq
            \* and the calls it has not yet stored a result of
  op,       \* the operation that is running: kind, step, the session it
            \* works on, the messages it has read or still has to write
  acked,    \* ids of messages the store has accepted
  summed,   \* ids a summary stands for
  dropped,  \* ids that were too old to be read for the summary
  cleared,  \* ids cleared by the user
  raced,    \* ids stored between the read and the write of an operation
            \* that replaces the messages of their session
  beyond,   \* ids that such a read did not return
  loose,    \* calls whose result may come apart from the message with them
  spent     \* operations and crashes so far

storeVars == <<rows, turns, made>>
lossVars == <<summed, dropped, cleared, beyond>>
fateVars == <<lossVars, loose>>
vars == <<storeVars, next, run, op, acked, raced, fateVars, spent>>

Roles == {"system", "user", "assistant", "tool"}
Row(id, role, calls, call, at) ==
  [id |-> id, role |-> role, calls |-> calls, call |-> call, at |-> at]

Ids(R) == {r.id : r \in R}

-----------------------------------------------------------------------------
(* The store. *)

\* The elements of S in the order of R, a set of pairs.
Sorted(S, R) ==
  [i \in 1..Cardinality(S) |->
     CHOOSE x \in S : Cardinality({y \in S : <<y, x>> \in R}) = i - 1]

\* ORDER BY created_at, id.
Before(a, b) == a.at < b.at \/ (a.at = b.at /\ a.id < b.id)
ByTime(R) == {p \in R \X R : Before(p[1], p[2])}
Listing(R) == Sorted(R, ByTime(R))

\* GetMessages.
Get(s, n) == LET all == Listing(rows[s])
             IN SubSeq(all, 1, Min({n, Len(all)}))

\* An operation that will replace the messages of s has read them.
Replacing(s) ==
  /\ op.session = s
  /\ \/ op.kind \in {"open", "compact"}
     \/ op.kind = "fork" /\ op.at # "create"

\* AppendMessage.
AppendMessage(s, r) ==
  /\ next <= MaxId
  /\ rows' = [rows EXCEPT ![s] = @ \cup {r}]
  /\ next' = next + 1
  /\ acked' = acked \cup {r.id}
  /\ raced' = IF Replacing(s) THEN raced \cup {r.id} ELSE raced

\* ReplaceMessages.
Replace(s, list) ==
  rows' = [rows EXCEPT ![s] = Range(list)]

\* SaveTurn.
SaveTurn(s, seq, state) ==
  turns' = [turns EXCEPT ![s] = IF seq > Len(@) THEN Append(@, state)
                                ELSE [@ EXCEPT ![seq] = state]]

\* CreateSession.
Create(s) == s \notin made /\ made' = made \cup {s}

\* DeleteSession, which deletes the messages and the turns with it.
DeleteSession(s) ==
  /\ rows' = [rows EXCEPT ![s] = {}]
  /\ turns' = [turns EXCEPT ![s] = <<>>]
  /\ made' = made \ {s}

\* The calls of R that have a message of another kind between the message
\* with the call and their result.
Separated(R) ==
  {r.call : r \in {q \in R :
     /\ q.role = "tool"
     /\ \E a, m \in R :
          /\ q.call \in a.calls /\ Before(a, m)
          /\ m.role # "tool" /\ m.calls = {} /\ Before(m, q)}}

-----------------------------------------------------------------------------
(* A turn, as the store sees it. *)

NoRun == [at |-> "none", session |-> None, seq |-> 0, todo |-> {}]
RunAt(step) == run.at = step
RunGoes(step) == run' = [run EXCEPT !.at = step]

\* Now is later than what is stored: a compaction moves messages by no more
\* than nanoseconds.
Time(s) == Max({2 * next} \cup {r.at + 1 : r \in rows[s]})

TurnVars == <<made, op, fateVars, spent>>

\* appendMessage of the turn.
Stores(role, calls, call) ==
  AppendMessage(run.session, Row(next, role, calls, call, Time(run.session)))

\* The caller of Fork and ImportSession is told the id when all is written.
Known(s) == s \in made /\ ~(op.at = "copy" /\ op.session = s)

NextTurnSeq(s) == Len(turns[s]) + 1

\* NextTurnSeq and the first SaveTurn.
StartTurn(s) ==
  /\ RunAt("none") /\ Known(s)
  /\ FoldFunctionOnSet(LAMBDA q, n : Len(q) + n, 0, turns, Sessions)
       < MaxTurns
  /\ SaveTurn(s, NextTurnSeq(s), "streaming")
  /\ run' = [NoRun EXCEPT !.at = "started", !.session = s,
                          !.seq = NextTurnSeq(s)]
  /\ UNCHANGED <<rows, next, acked, raced, TurnVars>>

AppendUser ==
  /\ RunAt("started") /\ run.session \in made
  /\ Stores("user", {}, None)
  /\ RunGoes("first")
  /\ UNCHANGED <<turns, TurnVars>>

\* The model is asked with the messages read.
Ask ==
  /\ run.at \in {"first", "again"}
  /\ RunGoes("asked")
  /\ UNCHANGED <<rows, turns, next, acked, raced, TurnVars>>

\* The calls have run; their message is stored, then their results.
ReplyCalls ==
  /\ RunAt("asked") /\ run.session \in made
  /\ \E K \in (SUBSET CallNos) \ {{}} :
       LET calls == {10 * next + k : k \in K}
       IN /\ Stores("assistant", calls, None)
          /\ run' = [run EXCEPT !.at = "results", !.todo = calls]
          /\ loose' = IF Replacing(run.session) THEN loose \cup calls
                      ELSE loose
  /\ UNCHANGED <<turns, made, op, lossVars, spent>>

AppendResult ==
  /\ RunAt("results") /\ run.session \in made
  /\ LET c == Min(run.todo)
     IN /\ Stores("tool", {}, c)
        /\ run' = [run EXCEPT !.todo = @ \ {c},
                              !.at = IF @ = "results" /\ run.todo = {c}
                                       THEN "again" ELSE @]
  /\ UNCHANGED <<turns, TurnVars>>

ReplyText ==
  /\ RunAt("asked") /\ run.session \in made
  /\ Stores("assistant", {}, None)
  /\ RunGoes("ending")
  /\ UNCHANGED <<turns, TurnVars>>

\* An empty answer is not stored, and an append that fails is logged.
ReplyNothing ==
  /\ RunAt("asked") /\ RunGoes("ending")
  /\ UNCHANGED <<rows, turns, next, acked, raced, TurnVars>>

\* The turn is saved as idle or with its error; a save that fails is logged.
Saved ==
  \/ run.session \in made /\ SaveTurn(run.session, run.seq, "over")
  \/ UNCHANGED turns

EndTurn ==
  /\ RunAt("ending") /\ Saved
  /\ run' = NoRun
  /\ UNCHANGED <<rows, next, acked, raced, TurnVars>>

\* A start that fails returns its error; later the turn is saved as failed,
\* with a context that may be over.
FailTurn ==
  /\ \/ run.at \in {"started", "first"} /\ UNCHANGED turns
     \/ run.at \in {"again", "asked", "results"} /\ Saved
  /\ run' = NoRun
  /\ UNCHANGED <<rows, next, acked, raced, TurnVars>>

-----------------------------------------------------------------------------
(* Recovery: the calls that have no result get one. *)

Owner(l, k) == Max({i \in 1..(k - 1) : l[i].role # "tool"} \cup {0})

\* The k-th message is the first result, among those that directly follow
\* the message with its call, of that call.
Taken(l, k) ==
  LET i == Owner(l, k)
  IN /\ l[k].role = "tool" /\ i > 0 /\ l[k].call \in l[i].calls
     /\ \A j \in (i + 1)..(k - 1) : l[j].call # l[k].call

Results(l, i) == {k \in (i + 1)..Len(l) : Taken(l, k) /\ Owner(l, k) = i}

\* Mutant: a result found anywhere will do.
MissingAnywhere(l, i) ==
  l[i].calls \ {l[k].call : k \in {j \in DOMAIN l : l[j].role = "tool"}}

Missing(l, i) == l[i].calls \ {l[k].call : k \in Results(l, i)}
Ascending(S) == Sorted(S, {p \in S \X S : p[1] < p[2]})
AllMissing(l) == UNION {Missing(l, i) : i \in DOMAIN l}
Rank(c, C) == Cardinality({d \in C : d < c})

\* Mutant: a result that answers nothing is left out.
GroupDropsTools(l, i, sign) ==
  IF l[i].role = "tool" THEN <<>>
  ELSE LET taken == Ascending(Results(l, i))
           lost == Ascending(Missing(l, i))
       IN <<l[i]>> \o [j \in DOMAIN taken |-> l[taken[j]]]
            \o [j \in DOMAIN lost |->
                  Row(sign[lost[j]] * (next + Rank(lost[j], AllMissing(l))),
                      "tool", {}, lost[j], l[i].at)]

\* A result made up has the time of the message with its call, and an id that
\* is random: below those of all other messages or, with sign 1, above them.
Group(l, i, sign) ==
  LET fresh(c) == Row(sign[c] * (next + Rank(c, AllMissing(l))), "tool", {},
                      c, l[i].at)
      taken == Ascending(Results(l, i))
      lost == Ascending(Missing(l, i))
  IN IF Taken(l, i) THEN <<>>
     ELSE <<l[i]>> \o [j \in DOMAIN taken |-> l[taken[j]]]
                   \o [j \in DOMAIN lost |-> fresh(lost[j])]

\* Sequences one after the other: all the places in them, the sequence first
\* and then the place within.
Places(groups) == UNION {{i} \X DOMAIN groups[i] : i \in DOMAIN groups}
Ahead(p, q) == p[1] < q[1] \/ (p[1] = q[1] /\ p[2] < q[2])
InTurn(P) == Sorted(P, {pq \in P \X P : Ahead(pq[1], pq[2])})
Joined(groups) ==
  LET place == InTurn(Places(groups))
  IN [n \in DOMAIN place |-> groups[place[n][1]][place[n][2]]]

Recovered(l, sign) == Joined([i \in DOMAIN l |-> Group(l, i, sign)])

-----------------------------------------------------------------------------
(* Compaction. *)

LeadCount(l) == Max({0} \cup {n \in DOMAIN l :
                                \A i \in 1..n : l[i].role = "system"})

\* Mutant: a result may be cut off from what it follows.
CallsOnly(m) == m.calls # {}

InGroup(m) == m.role = "tool" \/ m.calls # {}

\* findSafeBoundary: how many of rest are summarised.
Boundary(rest) ==
  Max({b \in 0..(Len(rest) - Keep) : b = 0 \/ ~InGroup(rest[b + 1])})

\* The summary is just before the first message kept, and after the leading
\* system messages.
SummaryTime(lead, kept) ==
  LET before == Head(kept).at - 1
  IN IF lead # <<>> /\ before <= Last(lead).at THEN Last(lead).at + 1
     ELSE before

\* Mutant: the times of the messages kept are left alone.
Untouched(kept, t) == kept

\* Messages that would not follow the summary, or each other, are moved: one
\* that is moved is one tick after what is before it.
Bumped(kept, t) ==
  LET at(i) == Max({t + i} \cup {kept[j].at + (i - j) : j \in 1..i})
  IN [i \in DOMAIN kept |-> [kept[i] EXCEPT !.at = at(i)]]

\* The messages that are taken out of the conversation.
Middle(l) ==
  LET rest == SubSeq(l, LeadCount(l) + 1, Len(l))
  IN SubSeq(rest, 1, Boundary(rest))

\* selectWithinBudget: the newest of them, as many as the budget of tokens
\* allows and at least one, are read for the summary.
WithinBudget(middle) ==
  {SubSeq(middle, i, Len(middle)) : i \in DOMAIN middle}

Compacted(l, id) ==
  LET lead == SubSeq(l, 1, LeadCount(l))
      rest == SubSeq(l, LeadCount(l) + 1, Len(l))
      kept == SubSeq(rest, Boundary(rest) + 1, Len(rest))
      t == SummaryTime(lead, kept)
  IN lead \o <<Row(id, "system", {}, None, t)>> \o Bumped(kept, t)

\* Enough to summarise: more than is kept, and something before a group.
Compactable(l) ==
  LET rest == SubSeq(l, LeadCount(l) + 1, Len(l))
  IN Len(rest) > Keep + 1 /\ Boundary(rest) > 0

-----------------------------------------------------------------------------
(* The operations of the user. *)

NoOp == [kind |-> "none", at |-> "none", session |-> None, list |-> <<>>]
Idle == op.kind = "none"
MayBegin == Idle /\ spent < MaxOps
Begin(kind, step, s, list) ==
  /\ spent' = spent + 1
  /\ op' = [kind |-> kind, at |-> step, session |-> s, list |-> list]
Doing(kind, step) == op.kind = kind /\ op.at = step
Finish == op' = NoOp

\* What is not among the messages read.
NotRead(s, l) == Ids(rows[s]) \ Ids(Range(l))

\* The calls of messages that are not among those read, although a result is,
\* or is still to come.
Unread(s, l) ==
  (UNION {r.calls : r \in rows[s] \ Range(l)})
    \cap (run.todo \cup {r.call : r \in Range(l)})

\* The operation ends where the store refuses it or its context ends.
OpFails ==
  /\ op.kind \in {"open", "compact", "fork"} /\ Finish
  /\ UNCHANGED <<storeVars, next, run, acked, raced,
                 fateVars, spent>>

OpKeeps == UNCHANGED <<turns, run, acked, raced>>

Start(s) ==
  /\ Idle /\ Cardinality(made) < MaxStarts /\ Create(s)
  /\ UNCHANGED <<rows, next, op, fateVars, spent>> /\ OpKeeps

\* Resume, ContinueLast and Get read the messages; when no call misses its
\* result there is nothing to write.
OpenSession(s) ==
  /\ MayBegin /\ s \in made
  /\ LET l == Get(s, Limit)
         lost == Cardinality(AllMissing(l))
     IN /\ lost > 0 /\ next + lost <= MaxId + 1
        /\ \E sign \in [AllMissing(l) -> {1, -1}] :
             Begin("open", "fill", s, Recovered(l, sign))
        /\ next' = next + lost
        /\ beyond' = beyond \cup NotRead(s, l)
        /\ loose' = loose \cup Unread(s, l)
  /\ UNCHANGED <<storeVars, summed, dropped, cleared>> /\ OpKeeps

StoreRecovered ==
  /\ op.kind = "open" /\ op.session \in made
  /\ Replace(op.session, op.list)
  /\ loose' = loose \cup Separated(Range(op.list))
  /\ Finish
  /\ UNCHANGED <<made, next, lossVars, spent>> /\ OpKeeps

\* Compact reads, then asks for the summary.
CompactRead(s) ==
  /\ MayBegin /\ s \in made /\ Compactable(Get(s, Limit))
  /\ Begin("compact", "asking", s, Get(s, Limit))
  /\ beyond' = beyond \cup NotRead(s, Get(s, Limit))
  /\ loose' = loose \cup Unread(s, Get(s, Limit))
  /\ UNCHANGED <<storeVars, next, summed, dropped, cleared>> /\ OpKeeps

CompactWrite ==
  /\ Doing("compact", "asking") /\ op.session \in made /\ next <= MaxId
  /\ Replace(op.session, Compacted(op.list, next))
  /\ \E included \in WithinBudget(Middle(op.list)) :
       /\ summed' = summed \cup Ids(Range(included))
       /\ dropped' = dropped \cup
            (Ids(Range(Middle(op.list))) \ Ids(Range(included)))
  /\ next' = next + 1 /\ Finish
  /\ UNCHANGED <<made, cleared, beyond, loose, spent>> /\ OpKeeps

\* Fork reads, creates, names and fills the new session, a call each.
ForkRead(s) ==
  /\ MayBegin /\ s \in made
  /\ Begin("fork", "create", s, Get(s, Limit))
  /\ loose' = loose \cup Unread(s, Get(s, Limit))
  /\ UNCHANGED <<storeVars, next, lossVars>> /\ OpKeeps

ForkCreate(t) ==
  /\ Doing("fork", "create") /\ Create(t)
  /\ op' = [op EXCEPT !.at = "copy", !.session = t]
  /\ UNCHANGED <<rows, next, fateVars, spent>> /\ OpKeeps

ForkWrite ==
  /\ Doing("fork", "copy") /\ next + Len(op.list) <= MaxId + 1
  /\ \E sign \in {1, -1} :
       LET copies == [i \in DOMAIN op.list |->
             [op.list[i] EXCEPT !.id = sign * (next + i - 1)]]
       IN /\ Replace(op.session, copies)
          /\ loose' = loose \cup Separated(Range(copies))
  /\ next' = next + Len(op.list)
  /\ Finish
  /\ UNCHANGED <<made, lossVars, spent>> /\ OpKeeps

\* Import creates and names a session like Fork, and then appends one
\* message of the export after the other, with the ids and the times of the
\* file; the times need not differ.
Exported ==
  LET call == 21
  IN <<Row(1, "system", {}, None, 0), Row(2, "assistant", {call}, None, 0),
       Row(3, "tool", {}, call, 0), Row(4, "user", {}, None, 0)>>

ImportCreate(t) ==
  /\ MayBegin /\ Cardinality(made) < MaxStarts /\ Create(t)
  /\ Begin("import", "copy", t, Exported)
  /\ UNCHANGED <<rows, next, fateVars>> /\ OpKeeps

ImportAppend ==
  /\ Doing("import", "copy") /\ op.list # <<>>
  /\ rows' = [rows EXCEPT ![op.session] = @ \cup {Head(op.list)}]
  /\ op' = [op EXCEPT !.list = Tail(@)]
  /\ UNCHANGED <<made, next, fateVars, spent>> /\ OpKeeps

ImportDone ==
  /\ Doing("import", "copy") /\ op.list = <<>>
  /\ Finish
  /\ UNCHANGED <<storeVars, next, fateVars, spent>> /\ OpKeeps

ImportFails ==
  /\ op.kind = "import" /\ DeleteSession(op.session) /\ Finish
  /\ cleared' = cleared \cup Ids(rows[op.session])
  /\ UNCHANGED <<next, run, acked, raced, summed, dropped, beyond,
                 loose, spent>>

\* The calls that delete are made with the context of the import: when it
\* is over they fail too, and what has been made stays.
ImportCancelled ==
  /\ op.kind = "import" /\ Finish
  /\ UNCHANGED <<storeVars, next, fateVars, spent>> /\ OpKeeps

\* The turn that runs in s has results to store that will not follow the
\* message with their calls.
Loosened(s) ==
  loose' = IF run.session = s THEN loose \cup run.todo ELSE loose

ClearMessages(s) ==
  /\ spent < MaxOps /\ Known(s)
  /\ spent' = spent + 1
  /\ rows' = [rows EXCEPT ![s] = {}]
  /\ cleared' = cleared \cup Ids(rows[s])
  /\ Loosened(s)
  /\ UNCHANGED <<next, made, op, summed, dropped, beyond>> /\ OpKeeps

\* The prompt and the git status at the start, and /goal, which does not
\* wait for the turn.
AppendSystem(s) ==
  /\ Known(s) /\ spent < MaxOps /\ spent' = spent + 1
  /\ AppendMessage(s, Row(next, "system", {}, None, Time(s)))
  /\ Loosened(s)
  /\ UNCHANGED <<turns, run, made, op, lossVars>>

-----------------------------------------------------------------------------
(* A crash, and the next start. *)

\* NewSQLite: a turn that was streaming has failed.
AfterCrash(s) == [i \in DOMAIN turns[s] |->
                    IF turns[s][i] = "streaming" THEN "over" ELSE turns[s][i]]

Crash ==
  /\ spent < MaxOps /\ spent' = spent + 1
  /\ turns' = [s \in Sessions |-> AfterCrash(s)]
  /\ run' = NoRun /\ op' = NoOp
  /\ UNCHANGED <<rows, made, next, acked, raced, fateVars>>

Init ==
  /\ rows = [s \in Sessions |-> {}] /\ turns = [s \in Sessions |-> <<>>]
  /\ made = {} /\ next = 5
  /\ run = NoRun /\ op = NoOp
  /\ acked = {} /\ summed = {} /\ dropped = {} /\ cleared = {}
  /\ raced = {} /\ beyond = {} /\ loose = {}
  /\ spent = 0

TurnStep ==
  \/ \E s \in Sessions : StartTurn(s)
  \/ AppendUser \/ Ask \/ ReplyCalls \/ AppendResult \/ ReplyText
  \/ ReplyNothing \/ EndTurn \/ FailTurn

Next ==
  \/ TurnStep
  \/ \E s \in Sessions :
       \/ Start(s) \/ OpenSession(s)
       \/ CompactRead(s) \/ ForkRead(s) \/ ForkCreate(s)
       \/ ImportCreate(s) \/ ClearMessages(s) \/ AppendSystem(s)
  \/ StoreRecovered \/ CompactWrite \/ ForkWrite
  \/ ImportAppend \/ ImportDone \/ ImportFails \/ ImportCancelled
  \/ OpFails \/ Crash

Spec == Init /\ [][Next]_vars

-----------------------------------------------------------------------------
(* Properties. *)

RowSet == [id : Int, role : Roles, calls : SUBSET Nat, call : Nat \cup {None},
           at : Int]

\* Types of the variables: the rows of the store, and the progress of the
\* turn and of the operation.
TypeOK ==
  /\ rows \in [Sessions -> SUBSET RowSet]
  /\ turns \in [Sessions -> Seq({"streaming", "over"})]
  /\ made \subseteq Sessions /\ next \in Nat /\ spent \in Nat
  /\ run \in [at : {"none", "started", "first", "again", "asked", "results",
                    "ending"},
              session : Sessions \cup {None}, seq : Nat,
              todo : SUBSET Nat]
  /\ op \in [kind : {"none", "open", "compact", "fork", "import"},
             at : {"none", "fill", "asking", "create", "copy"},
             session : Sessions \cup {None}, list : Seq(RowSet)]
  /\ \A ids \in {acked, summed, dropped, cleared, raced, beyond, loose} :
       ids \subseteq Int

\* A message the store has accepted is not lost: unless a summary stands for
\* it or it has been cleared, it is still there, however turns, recovery,
\* compaction, forks and crashes follow each other.  The three exceptions
\* are exactly those of the code: a message stored while an operation had
\* its session's messages in hand, one beyond the limit of that read, and one
\* too old for the budget of the summary, which the code logs as dropped.
NothingLost ==
  acked \subseteq (UNION {Ids(rows[s]) : s \in Sessions}) \cup summed
                 \cup dropped \cup cleared \cup raced \cup beyond

\* A result is never kept without the message that has its call
\* (findSafeBoundary: compaction never splits such a pair), however often
\* the session is recovered, compacted and forked.  The exceptions: a message
\* with calls that was stored while an operation had its session's messages
\* in hand, or that such a read did not return although a result came before
\* it; a clear or a system message while the turn had results to store; and
\* a recovery or a fork that puts a message of the same time between.
PairsKept ==
  \A s \in Sessions : \A r \in rows[s] :
    r.role = "tool" =>
      (\E a \in rows[s] : r.call \in a.calls) \/ r.call \in loose

\* What the comment of findSafeBoundary says ("compaction never splits such a
\* pair", compressor.go:140), without those exceptions: a compaction that has
\* read a result and the message with its call does not keep the one only.
PairsUnsplit ==
  [][\A s \in Sessions :
       Doing("compact", "asking") /\ op.session = s /\ rows'[s] # rows[s]
         /\ op' = NoOp =>
         \A r \in rows'[s] :
           r.role = "tool" /\ (\E a \in Range(op.list) : r.call \in a.calls)
             => \E a \in rows'[s] : r.call \in a.calls]_vars

\* A compaction puts its summary, and nothing else, between the leading
\* system messages and the messages it keeps, and these are read back in
\* the order they had, although the store orders by time and random id.
SummaryInPlace ==
  [][\A s \in Sessions :
       Doing("compact", "asking") /\ op.session = s /\ rows'[s] # rows[s]
         /\ op' = NoOp =>
         LET old == [i \in DOMAIN op.list |-> op.list[i].id]
             new == Listing(rows'[s])
             lead == LeadCount(op.list)
             kept == Len(new) - lead - 1
         IN /\ kept >= Keep
            /\ \A i \in 1..lead : new[i].id = old[i]
            /\ \A i \in 1..kept :
                 new[lead + 1 + i].id = old[Len(old) - kept + i]]_vars

Answered(l) ==
  \A i \in DOMAIN l : l[i].calls # {} =>
    l[i].calls = {l[k].call : k \in
                   (i + 1)..Min({i + Cardinality(l[i].calls), Len(l)})}

\* Opening a session after an interrupted turn stores a conversation in which
\* every call has a result that is not before it in time, and nothing but
\* results comes between, whatever was cut, forked, imported or compacted
\* before.  The exception: messages of one time come back in the order of
\* their ids, and those of the results made up are random (session.go:388).
RecoveryStored ==
  [][\A s \in Sessions :
       op.kind = "open" /\ op.session = s /\ rows'[s] # rows[s]
         /\ op' = NoOp =>
         \A a \in rows'[s] : \A c \in a.calls : \E r \in rows'[s] :
           /\ r.role = "tool" /\ r.call = c /\ r.at >= a.at
           /\ \A m \in rows'[s] : Before(a, m) /\ Before(m, r) =>
                m.role = "tool" \/ m.at = a.at]_vars

\* What the comment of recoverMessages says (the history "remains valid for
\* the LLM" and is persisted, session.go:336-340), without that exception: a
\* turn reads it back with every call directly followed by its results.
RecoveryValid ==
  [][\A s \in Sessions :
       op.kind = "open" /\ op.session = s /\ rows'[s] # rows[s]
         /\ op' = NoOp => Answered(Listing(rows'[s]))]_vars

=============================================================================

-------------------------- MODULE ApplicationProofs --------------------------
(***************************************************************************)
(* The safety of the application: AppLifecycle, for any number of turns,   *)
(* MCP servers and processes that open the database, and any modes of the  *)
(* file (what StoreOpening, FileTools and the shutdown promise); and the   *)
(* ACP server, which drives the engine in place of the TUI (AcpServer),    *)
(* for any number of prompts, cancels and sessions and any capacity of the *)
(* event channel.                                                          *)
(***************************************************************************)
EXTENDS AppLifecycle, AcpServer, TLAPS


USE AppAssumption
USE DEF appVars, turnVars, restVars, fileVars, storeVars, vars

-----------------------------------------------------------------------------
(* What a step does to the parts.                                          *)

\* The database changes only by the steps of the processes that open it.
LEMMA StoreSteps ==
  [Next]_vars => \/ UNCHANGED storeVars
                 \/ \E p \in Procs : OpenStep(p)
                 \/ \E p \in Procs : Kill(p)
<1> SUFFICES ASSUME [Next]_vars, storeVars' # storeVars
             PROVE  \E p \in Procs : OpenStep(p) \/ Kill(p)
  OBVIOUS
<1>1. CASE OpenOwn
  BY <1>1 DEF OpenOwn
<1>2. CASE OthersOpen
  BY <1>2 DEF OthersOpen
<1>3. CASE Killed
  BY <1>3 DEF Killed
<1>4. CASE Main /\ ~OpenOwn
  BY <1>4 DEF Main, New, LoadConfig, NoKey, NewFails, OpenStore, MakeClient,
       OpenRoot, ConnectServers, HandOver, OpenSession, SessionFails, GiveUp,
       FileCommand, PromptRead, PromptEnds, PromptRefused, TuiFails, TuiEnds,
       Close, CancelTurns, WaitTurns, WaitTimeout, CloseServers, CloseRoot,
       CloseStore, GoesTo, Leave
<1>5. CASE UserQuits \/ Signal
  BY <1>5 DEF UserQuits, Signal, Leave
<1>6. ASSUME NEW t \in Turns, StartTurn(t) \/ Answer(t) \/ HangReturns(t)
      PROVE  FALSE
  BY <1>6 DEF StartTurn, Answer, HangReturns, Becomes
<1>7. ASSUME NEW t \in Turns, TurnStep(t) PROVE FALSE
  BY <1>7 DEF TurnStep, RecordTurn, CountTurn, StartFails, CallTool, ToolBegins,
       ToolStep, ToolReturns, Completes, Breaks, TurnEnds, Becomes, Ends
<1> QED
  BY <1>1, <1>2, <1>3, <1>4, <1>5, <1>6, <1>7 DEF Next, User

\* The files change only by the calls of turns that run a tool; the sandbox
\* root is opened once and closed once.
FileMove ==
  \/ UNCHANGED <<fileVars, root>>
  \/ UNCHANGED fileVars /\ main = "tools" /\ root' = "open"
  \/ UNCHANGED fileVars /\ built /\ root' = "closed"
  \/ /\ UNCHANGED root
     /\ \E t \in Turns : turn[t] = "tool" /\ (Begin(t) \/ FileStep(t))

\* Every step of the application is one of these for the files.
LEMMA FileSteps == [Next]_vars => FileMove
<1> SUFFICES ASSUME [Next]_vars, ~FileMove PROVE FALSE
  OBVIOUS
<1> USE DEF FileMove
<1>1. CASE New
  BY <1>1 DEF New, OpenOwn, OnlyStore, NewFails, GiveUp, OpenStore, MakeClient,
       OpenRoot, ConnectServers, HandOver, GoesTo
<1>2. CASE Close
  BY <1>2 DEF Close, CancelTurns, WaitTurns, WaitTimeout, CloseServers,
       CloseRoot, CloseStore, GoesTo
<1>3. CASE Main /\ ~New /\ ~Close
  BY <1>3 DEF Main, LoadConfig, NoKey, OpenSession, SessionFails, GiveUp,
       FileCommand, PromptRead, PromptEnds, PromptRefused, TuiFails, TuiEnds,
       GoesTo, Leave
<1>4. CASE UserQuits \/ Signal \/ OthersOpen \/ Killed
  BY <1>4 DEF UserQuits, Signal, OthersOpen, Killed, OnlyStore, Leave
<1>5. ASSUME NEW t \in Turns, StartTurn(t) \/ Answer(t) \/ HangReturns(t)
      PROVE  FALSE
  BY <1>5 DEF StartTurn, Answer, HangReturns, Becomes
<1>6. ASSUME NEW t \in Turns, TurnStep(t) PROVE FALSE
  BY <1>6 DEF TurnStep, RecordTurn, CountTurn, StartFails, CallTool, ToolBegins,
       ToolStep, ToolReturns, Completes, Breaks, TurnEnds, Becomes, Ends
<1> QED
  BY <1>1, <1>2, <1>3, <1>4, <1>5, <1>6 DEF Next, User

-----------------------------------------------------------------------------
(* The database.                                                           *)

\* The parts of the schema, one by one.
LEMMA Parts ==
  /\ Brings[1] = {"tables", "tool_call_id", "text_state"}
  /\ Brings[2] = {"content_parts"}
  /\ Brings[3] = {"seq"}
  /\ Schema = {"tables", "tool_call_id", "text_state", "content_parts", "seq"}
<1>1. /\ Brings[1] = {"tables", "tool_call_id", "text_state"}
      /\ Brings[2] = {"content_parts"}
      /\ Brings[3] = {"seq"}
  BY DEF Brings
<1>2. 1..Last = {1, 2, 3}
  BY DEF Last
<1>3. Schema = Brings[1] \cup Brings[2] \cup Brings[3]
  BY <1>2 DEF Schema
<1> QED
  BY <1>1, <1>3

\* The databases that may be there at first: one without a version has
\* neither of the later columns, and one with a version has the parts of
\* the migrations up to it.
LEMMA DatabaseParts ==
  ASSUME NEW d \in Databases
  PROVE  /\ d.version \in 0..Last /\ d.has \subseteq Schema
         /\ d.version = 0 => /\ "content_parts" \notin d.has
                             /\ "seq" \notin d.has
                             /\ "tables" \in d.has => d \in {OldDb, ToolIdDb}
         /\ d.version > 0 => /\ Brings[1] \subseteq d.has
                             /\ "content_parts" \in d.has <=> d.version >= 2
                             /\ "seq" \in d.has <=> d.version >= 3
<1>1. CASE d \in {NewDb, OldDb, ToolIdDb}
  BY <1>1, Parts DEF NewDb, OldDb, ToolIdDb, Db, Last
<1>2. ASSUME NEW v \in 1..Last, d = DbOf(v)
      PROVE  /\ d.version = v /\ d.has = UNION {Brings[m] : m \in 1..v}
  BY <1>2 DEF DbOf, Db
<1>3. CASE d = DbOf(1)
  <2>1. {Brings[m] : m \in 1..1} = {Brings[1]}
    OBVIOUS
  <2>2. d.version = 1 /\ d.has = Brings[1]
    BY <1>2, <1>3, <2>1 DEF Last
  <2> QED
    BY <2>2, Parts DEF Last
<1>4. CASE d = DbOf(2)
  <2>1. 1..2 = {1, 2}
    OBVIOUS
  <2>2. d.version = 2 /\ d.has = Brings[1] \cup Brings[2]
    BY <1>2, <1>4, <2>1 DEF Last
  <2> QED
    BY <2>2, Parts DEF Last
<1>5. CASE d = DbOf(3)
  <2>1. 1..3 = {1, 2, 3}
    OBVIOUS
  <2>2. d.version = 3 /\ d.has = Brings[1] \cup Brings[2] \cup Brings[3]
    BY <1>2, <1>5, <2>1 DEF Last
  <2> QED
    BY <2>2, Parts DEF Last
<1> QED
  BY <1>1, <1>3, <1>4, <1>5 DEF Databases, Last

\* An older program's database: its table of turns is made anew.
Old == found \in {OldDb, ToolIdDb}

Has(part) == part \in db.has

PastMigrations == {"toolid", "addtoolid", "state", "recreate", "orphans", "open"}

\* What a process may rely on at each step of its opening, whatever the
\* others do: the parts that were there when it passed them are still there.
SchemaInv ==
  /\ db.version >= 1 => Has("tables")
  /\ db.version >= 2 => Has("content_parts")
  /\ db.version >= 3 => Has("seq") \/ Old
  /\ Has("tables") => Old \/ (Has("tool_call_id") /\ Has("text_state"))
  /\ \A p \in Procs :
       /\ OpenerAt(p, "migrate") =>
            /\ opener[p].next >= 1
            /\ opener[p].next >= 2 => Has("tables")
            /\ opener[p].next >= 3 => Has("content_parts")
       /\ opener[p].at \in PastMigrations =>
            Has("tables") /\ Has("content_parts") /\ (Has("seq") \/ Old)
       /\ opener[p].at \in {"state", "recreate", "orphans", "open"} =>
            Has("tool_call_id")
       /\ opener[p].at \in {"orphans", "open"} => Has("text_state")
       /\ OpenerAt(p, "recreate") => Old

\* Two processes open a database without a version.
Racing ==
  found.version = 0 /\ \E p, q \in Procs : p # q /\ Begun(p) /\ Begun(q)

\* Short of that, no part is there that user_version does not know of: with
\* a version at first, a migration that another process has applied is an
\* error; without one there is a single process, whose next migration is
\* the one that follows user_version.
AgainInv ==
  \/ Racing
  \/ /\ Has("content_parts") => db.version >= 2
     /\ Has("seq") => db.version >= 3
     /\ found.version > 0 => db.version > 0
     /\ \A p \in Procs :
          OpenerAt(p, "migrate") =>
            IF found.version > 0 THEN opener[p].next >= 2
            ELSE db.version = opener[p].next - 1

StoreInv == StoreTypeOK /\ SchemaInv /\ AgainInv

\* No process has opened the store yet.
LEMMA StoreInvInit == Init => StoreInv
<1> SUFFICES ASSUME Init PROVE StoreInv
  OBVIOUS
<1>1. found \in Found /\ db = found /\ found \in Databases
  BY StoreOpeningAssumption DEF Init, StoreInit
<1>2. opener = [p \in Procs |-> Opener("file", 0)] /\ killed = {}
  BY DEF Init, StoreInit
<1>3. db \in [version : 0..Last, has : SUBSET Schema]
  BY <1>1, DatabaseParts, Parts
     DEF Databases, NewDb, OldDb, ToolIdDb, DbOf, Db
<1>4. StoreTypeOK
  BY <1>1, <1>2, <1>3 DEF StoreTypeOK, Opener, OpenSteps, Last
<1>5. SchemaInv
  BY <1>1, <1>2, DatabaseParts, Parts
     DEF SchemaInv, Old, Has, OpenerAt, Opener, PastMigrations, Last
<1>6. AgainInv
  BY <1>1, <1>2, DatabaseParts, Parts DEF AgainInv, Has, OpenerAt, Opener, Last
<1> QED
  BY <1>4, <1>5, <1>6 DEF StoreInv

\* Once two processes have begun on such a database, it stays that way.
LEMMA RacingStays ==
  ASSUME StoreTypeOK, NEW p \in Procs, OpenStep(p) \/ Kill(p)
  PROVE  /\ \A q \in Procs : Begun(q) => Begun(q)'
         /\ Racing => Racing'
<1>1. found' = found
  BY DEF OpenStep, Connect, ReadVersion, Migrate, LookForToolId, AddToolId,
     LookForState, RecreateTurns, CleanUp, OpenFails, OpenerGoes, ToMigration,
     Kill
<1>2. ASSUME NEW q \in Procs, Begun(q) PROVE Begun(q)'
  <2>1. CASE Kill(p)
    BY <1>2, <2>1 DEF Kill, Begun, OpenerAt, Opener, StoreTypeOK
  <2>2. CASE OpenStep(p)
    BY <1>2, <2>2 DEF OpenStep, Connect, ReadVersion, Migrate, LookForToolId,
       AddToolId, LookForState, RecreateTurns, CleanUp, OpenFails, OpenerGoes,
       ToMigration, Begun, OpenerAt, Opener, StoreTypeOK
  <2> QED
    BY <2>1, <2>2
<1> QED
  BY <1>1, <1>2 DEF Racing

\* A step of one process keeps what every process relies on.
LEMMA SchemaStep ==
  ASSUME StoreTypeOK, SchemaInv, NEW p \in Procs, OpenStep(p) \/ Kill(p)
  PROVE  SchemaInv'
<1> USE Parts DEF StoreTypeOK, SchemaInv, OpenerAt, Opener, OpenerGoes,
                  OpenSteps, PastMigrations, Has, Old, Db, Last
<1>1. CASE Connect(p)
  BY <1>1 DEF Connect
<1>2. CASE ReadVersion(p)
  BY <1>2 DEF ReadVersion, ToMigration, Pending
<1>3. CASE Migrate(p)
  <2>1. opener[p].next \in {1, 2, 3}
    BY <1>3 DEF Migrate
  <2>2. CASE opener[p].next = 1
    BY <1>3, <2>2 DEF Migrate, ToMigration, VersionAfter, Applied
  <2>3. CASE opener[p].next = 2
    BY <1>3, <2>3 DEF Migrate, ToMigration, VersionAfter, Applied
  <2>4. CASE opener[p].next = 3
    BY <1>3, <2>4 DEF Migrate, ToMigration, VersionAfter, Applied
  <2> QED
    BY <2>1, <2>2, <2>3, <2>4
<1>4. CASE LookForToolId(p)
  BY <1>4 DEF LookForToolId
<1>5. CASE AddToolId(p)
  BY <1>5 DEF AddToolId
<1>6. CASE LookForState(p)
  BY <1>6 DEF LookForState
<1>7. CASE RecreateTurns(p)
  BY <1>7 DEF RecreateTurns
<1>8. CASE CleanUp(p)
  BY <1>8 DEF CleanUp
<1>9. CASE OpenFails(p)
  BY <1>9 DEF OpenFails
<1>10. CASE Kill(p)
  BY <1>10 DEF Kill
<1> QED
  BY <1>1, <1>2, <1>3, <1>4, <1>5, <1>6, <1>7, <1>8, <1>9, <1>10 DEF OpenStep

\* The same for the types.
LEMMA StoreTypeStep ==
  ASSUME StoreTypeOK, SchemaInv, NEW p \in Procs, OpenStep(p) \/ Kill(p)
  PROVE  StoreTypeOK'
<1> USE Parts DEF StoreTypeOK, OpenerAt, Opener, OpenerGoes, OpenSteps, Db, Last
<1>1. CASE Connect(p)
  BY <1>1 DEF Connect
<1>2. CASE ReadVersion(p)
  BY <1>2 DEF ReadVersion, ToMigration, Pending
<1>3. CASE Migrate(p)
  <2>1. opener[p].next \in {1, 2, 3}
    BY <1>3 DEF Migrate, SchemaInv
  <2>2. Brings[opener[p].next] \subseteq Schema
    BY <2>1
  <2> QED
    BY <1>3, <2>1, <2>2 DEF Migrate, ToMigration, VersionAfter, Applied
<1>4. CASE LookForToolId(p)
  BY <1>4 DEF LookForToolId
<1>5. CASE AddToolId(p)
  BY <1>5 DEF AddToolId
<1>6. CASE LookForState(p)
  BY <1>6 DEF LookForState
<1>7. CASE RecreateTurns(p)
  BY <1>7 DEF RecreateTurns
<1>8. CASE CleanUp(p)
  BY <1>8 DEF CleanUp
<1>9. CASE OpenFails(p)
  BY <1>9 DEF OpenFails
<1>10. CASE Kill(p)
  BY <1>10 DEF Kill
<1> QED
  BY <1>1, <1>2, <1>3, <1>4, <1>5, <1>6, <1>7, <1>8, <1>9, <1>10 DEF OpenStep

\* A step keeps user_version in line with the parts, or two processes have
\* begun.
LEMMA AgainStep ==
  ASSUME StoreInv, NEW p \in Procs, OpenStep(p) \/ Kill(p)
  PROVE  AgainInv'
<1> SUFFICES ASSUME ~Racing' PROVE AgainInv'
  BY DEF AgainInv
<1>1. ~Racing
  BY RacingStays DEF StoreInv
\* Nobody else has begun, if there was no version.
<1>2. /\ found' = found
      /\ found.version = 0 =>
           \A q \in Procs : q # p => ~OpenerAt(q, "migrate")'
  <2>1. Begun(p)'
    BY DEF StoreInv, StoreTypeOK, OpenStep, Connect, ReadVersion, Migrate,
       LookForToolId, AddToolId, LookForState, RecreateTurns, CleanUp,
       OpenFails, OpenerGoes, ToMigration, Kill, Begun, OpenerAt, Opener,
       OpenSteps
  <2>2. found' = found
    BY DEF OpenStep, Connect, ReadVersion, Migrate, LookForToolId, AddToolId,
       LookForState, RecreateTurns, CleanUp, OpenFails, OpenerGoes,
       ToMigration, Kill
  <2> QED
    BY <2>1, <2>2 DEF Racing, Begun, OpenerAt
<1>3. found.version \in 0..Last
  BY StoreOpeningAssumption, DatabaseParts DEF StoreInv, StoreTypeOK
<1> USE <1>1, <1>2, <1>3, Parts
    DEF StoreInv, StoreTypeOK, AgainInv, OpenerAt, Opener, OpenerGoes,
        OpenSteps, Has, Db, Last
<1>4. CASE Connect(p)
  BY <1>4 DEF Connect
<1>5. CASE ReadVersion(p)
  BY <1>5 DEF ReadVersion, ToMigration, Pending
<1>6. CASE Migrate(p)
  <2> USE DEF Migrate, ToMigration, VersionAfter, Applied, Applicable, SchemaInv
  <2>1. opener[p].next \in {1, 2, 3}
    BY <1>6
  <2>2. CASE opener[p].next = 1
    BY <1>6, <2>2
  <2>3. CASE opener[p].next = 2
    BY <1>6, <2>3
  <2>4. CASE opener[p].next = 3
    BY <1>6, <2>4
  <2> QED
    BY <2>1, <2>2, <2>3, <2>4
<1>7. CASE LookForToolId(p)
  BY <1>7 DEF LookForToolId
<1>8. CASE AddToolId(p)
  BY <1>8 DEF AddToolId
<1>9. CASE LookForState(p)
  BY <1>9 DEF LookForState
<1>10. CASE RecreateTurns(p)
  BY <1>10 DEF RecreateTurns
<1>11. CASE CleanUp(p)
  BY <1>11 DEF CleanUp
<1>12. CASE OpenFails(p)
  BY <1>12 DEF OpenFails
<1>13. CASE Kill(p)
  BY <1>13 DEF Kill
<1> QED
  BY <1>4, <1>5, <1>6, <1>7, <1>8, <1>9, <1>10, <1>11, <1>12, <1>13
     DEF OpenStep

\* Every step keeps the invariant of the store.
LEMMA StoreInvStep == StoreInv /\ [Next]_vars => StoreInv'
<1> SUFFICES ASSUME StoreInv, [Next]_vars PROVE StoreInv'
  OBVIOUS
<1>1. CASE UNCHANGED storeVars
  BY <1>1 DEF StoreInv, StoreTypeOK, SchemaInv, AgainInv, Racing, Begun,
     OpenerAt, Has, Old
<1>2. ASSUME NEW p \in Procs, OpenStep(p) \/ Kill(p) PROVE StoreInv'
  BY <1>2, SchemaStep, StoreTypeStep, AgainStep DEF StoreInv
<1> QED
  BY <1>1, <1>2, StoreSteps

\* The invariant of the store holds in every behaviour.
THEOREM StoreInvHolds == Spec => []StoreInv
<1> QED
  BY StoreInvInit, StoreInvStep, PTL DEF Spec

\* Whoever has opened the database finds the whole schema in it, however
\* many processes open it at the same time or are killed, and whatever was
\* there at first (newSQLiteWithOptions): no process is past a step whose
\* part is missing.
THEOREM Complete == Spec => []OpenedComplete
<1>1. StoreInv => OpenedComplete
  BY Parts DEF StoreInv, SchemaInv, OpenedComplete, OpenerAt, Has, Old,
     PastMigrations
<1> QED
  BY <1>1, StoreInvHolds, PTL

\* No start that fails or is killed leaves a database whose migrations
\* cannot be done any more, except when several processes opened a database
\* without a version at the same time (applyMigrations).
THEOREM Reopens == Spec => []OpensAgain
<1>1. StoreInv => OpensAgain
  <2> SUFFICES ASSUME StoreInv, ~Racing,
                      NEW m \in Pending(db.version)..Last
               PROVE  Applicable(m, db.has)
    BY DEF OpensAgain, Racing
  <2>1. m \in {1, 2, 3} /\ m > db.version
    BY DEF StoreInv, StoreTypeOK, Pending, Last
  <2> QED
    BY <2>1, Parts
       DEF StoreInv, StoreTypeOK, AgainInv, Has, Applicable, Last
<1> QED
  BY <1>1, StoreInvHolds, PTL

-----------------------------------------------------------------------------
(* The life of the program and of its turns.                               *)

LifeTypeOK ==
  /\ way \in Ways
  /\ main \in NewSteps \cup CloseSteps \cup Ways
               \cup {"config", "session", "exit"}
  /\ result \in {"none", "ok", "error"}
  /\ store \in {"none", "open", "closed"}
  /\ root \in {"none", "open", "closed"}
  /\ server \in [Servers -> {"none", "up", "closed"}]
  /\ built \in BOOLEAN /\ signalled \in BOOLEAN /\ timedOut \in BOOLEAN
  /\ turn \in [Turns -> Starts \cup Runs \cup {"none", "refused", "over"}]
  /\ how \in [Turns -> {"none", "done", "error"}]
  /\ stopped \in [Turns -> BOOLEAN] /\ late \in [Turns -> BOOLEAN]
  /\ events \in Seq({"ask", "error", "done"})

\* Where the main goroutine is tells what is open; a command that went well
\* had everything.
MainInv ==
  /\ main \in {"config", "store", "client", "tools"} => root = "none"
  /\ main \in {"mcp", "rest", "session"} \cup Ways => root = "open"
  /\ main \in {"session"} \cup Ways => built
  /\ main \in Ways => main = way
  /\ result = "ok" => /\ main \in CloseSteps \cup {"exit"}
                      /\ built /\ root # "none"
  /\ built => root # "none"
  /\ PartsClosed => main \in {"closeroot", "closestore", "exit"}

\* Turns are started by a program that has been built, one by a single
\* prompt, which reads nothing before it is counted; whatever is not over when
\* the parts are closed was given up, or was not counted, and then it is the
\* terminal interface's.
PastWait == {"closemcp", "closeroot", "closestore", "exit"}

TurnInv ==
  /\ way = "prompt" /\ events # <<>> => turn[1] \notin Starts \cup {"none"}
  /\ \A t \in Turns :
       /\ turn[t] # "none" =>
            /\ built /\ way # "file" /\ (way = "prompt" => t = 1)
            /\ main \in Ways \cup CloseSteps \cup {"exit"}
       /\ turn[t] \in {"ending", "over"} => how[t] # "none"
       /\ turn[t] \in Starts /\ main \in CloseSteps \cup {"exit"} => way = "tui"
       /\ main \in PastWait /\ built /\ turn[t] = "none" => timedOut \/ late[t]
       /\ main \in PastWait /\ Alive(t) => timedOut \/ (way = "tui" /\ late[t])

LifeInv == LifeTypeOK /\ MainInv /\ TurnInv

\* The application has not started.
LEMMA LifeInvInit == Init => LifeInv
<1> SUFFICES ASSUME Init PROVE LifeInv
  OBVIOUS
<1> USE DEF Init, FileInit, Ways, NewSteps, CloseSteps, Runs, Starts
<1>1. LifeTypeOK
  <2>1. /\ server \in [Servers -> {"none", "up", "closed"}]
        /\ turn \in [Turns -> Starts \cup Runs \cup {"none", "refused", "over"}]
        /\ how \in [Turns -> {"none", "done", "error"}]
        /\ stopped \in [Turns -> BOOLEAN] /\ late \in [Turns -> BOOLEAN]
    OBVIOUS
  <2>2. events \in Seq({"ask", "error", "done"})
    OBVIOUS
  <2> QED
    BY <2>1, <2>2 DEF LifeTypeOK
<1>2. MainInv
  BY DEF MainInv, PartsClosed
<1>3. TurnInv
  BY DEF TurnInv, PastWait, Alive
<1> QED
  BY <1>1, <1>2, <1>3 DEF LifeInv

\* A turn that goes from one step to another.
LEMMA BecomesKeeps ==
  ASSUME LifeInv, NEW t \in Turns, NEW w \in Starts \cup Runs \cup {"refused", "over"},
         Becomes(t, w), Alive(t), w \in Starts => turn[t] \in Starts,
         events' = events \/ turn[t] \in Runs,
         how' \in [Turns -> {"none", "done", "error"}],
         \A u \in Turns : u # t => how'[u] = how[u],
         w \in {"ending", "over"} => how'[t] # "none",
         events' \in Seq({"ask", "error", "done"})
  PROVE  LifeInv'
<1> USE DEF LifeInv, LifeTypeOK, Becomes
<1>1. LifeTypeOK'
  BY ZenonT(40)
<1>2. MainInv'
  BY DEF MainInv, PartsClosed
<1>3. TurnInv'
  BY DEF TurnInv, PastWait, Alive, Runs, Starts
<1> QED
  BY <1>1, <1>2, <1>3

\* The events a single prompt may be sent.
LEMMA SendsType ==
  ASSUME LifeTypeOK, NEW e \in {"ask", "error", "done"}
  PROVE  Append(events, e) \in Seq({"ask", "error", "done"})
BY DEF LifeTypeOK

\* Every step keeps the invariant of the life cycle.
LEMMA LifeInvStep == LifeInv /\ [Next]_vars => LifeInv'
<1> SUFFICES ASSUME LifeInv, [Next]_vars PROVE LifeInv'
  OBVIOUS
<1> USE DEF LifeInv, LifeTypeOK, MainInv, TurnInv, PartsClosed, Ways, NewSteps,
            CloseSteps, Runs, Starts, Alive, PastWait
<1>1. CASE LoadConfig \/ NoKey
  <2>1. /\ main = "config" /\ main' \in {"store", "exit"} /\ result' \in {result, "error"}
        /\ UNCHANGED <<way, store, server, root, built, signalled, timedOut,
                       turnVars>>
    BY <1>1 DEF LoadConfig, NoKey, GoesTo
  <2>2. LifeTypeOK' /\ MainInv'
    BY <2>1
  <2>3. \A t \in Turns : turn[t] = "none"
    BY <2>1
  <2>4. TurnInv'
    BY <2>1, <2>3
  <2> QED
    BY <2>2, <2>4
<1>2. CASE OpenOwn \/ OthersOpen \/ Killed
  BY <1>2 DEF OpenOwn, OthersOpen, Killed, OnlyStore
<1>3. CASE NewFails
  BY <1>3 DEF NewFails, GiveUp, GoesTo
<1>4. CASE OpenStore
  BY <1>4 DEF OpenStore, GoesTo
<1>5. CASE MakeClient
  BY <1>5 DEF MakeClient, GoesTo
<1>6. CASE OpenRoot
  BY <1>6 DEF OpenRoot, GoesTo
<1>7. CASE ConnectServers
  BY <1>7 DEF ConnectServers, GoesTo
<1>8. CASE HandOver
  BY <1>8 DEF HandOver
<1>9. CASE OpenSession
  BY <1>9 DEF OpenSession, GoesTo
<1>10. CASE SessionFails
  BY <1>10 DEF SessionFails, GiveUp, GoesTo
<1>11. CASE FileCommand \/ PromptEnds \/ PromptRefused \/ TuiFails
              \/ UserQuits \/ TuiEnds
  BY <1>11 DEF FileCommand, PromptEnds, PromptRefused, TuiFails, UserQuits,
     TuiEnds, Leave
<1>12. CASE PromptRead
  <2>1. Tail(events) \in Seq({"ask", "error", "done"})
    BY <1>12 DEF PromptRead
  <2>2. CASE Leave("error")
    BY <1>12, <2>1, <2>2 DEF PromptRead, Leave
  <2>3. CASE UNCHANGED <<appVars, turn, how, stopped, late, root, restVars>>
    BY <1>12, <2>1, <2>3 DEF PromptRead
  <2> QED
    BY <1>12, <2>2, <2>3 DEF PromptRead
<1>13. CASE Signal
  BY <1>13 DEF Signal
<1>14. CASE CancelTurns
  BY <1>14 DEF CancelTurns
<1>15. CASE WaitTurns
  <2>1. /\ main = "wait" /\ main' = "closemcp"
        /\ late' = [t \in Turns |-> turn[t] \in Starts \cup {"none"}]
        /\ UNCHANGED <<way, result, store, server, built, signalled, timedOut,
                       turn, how, stopped, events, root>>
        /\ \A t \in Turns : built => turn[t] \notin Runs
    BY <1>15 DEF WaitTurns, TurnsWaited, Counted
  <2>2. LifeTypeOK' /\ MainInv'
    BY <2>1
  <2>3. TurnInv'
    BY <2>1
  <2> QED
    BY <2>2, <2>3
<1>16. CASE WaitTimeout
  BY <1>16 DEF WaitTimeout
<1>17. CASE CloseServers
  BY <1>17 DEF CloseServers, GoesTo
<1>18. CASE CloseRoot
  BY <1>18 DEF CloseRoot, GoesTo
<1>19. CASE CloseStore
  BY <1>19 DEF CloseStore, GoesTo
<1>20. ASSUME NEW t \in Turns, main # "exit", StartTurn(t) PROVE LifeInv'
  BY <1>20 DEF StartTurn, MayStart
<1>21. ASSUME NEW t \in Turns, Answer(t) PROVE LifeInv'
  BY <1>21, BecomesKeeps DEF Answer
<1>22. ASSUME NEW t \in Turns, HangReturns(t) PROVE LifeInv'
  BY <1>22, BecomesKeeps DEF HangReturns
<1>23. ASSUME NEW t \in Turns, CallTool(t) PROVE LifeInv'
  <2>1. events' \in Seq({"ask", "error", "done"})
    BY <1>23, SendsType DEF CallTool
  <2> QED
    BY <1>23, <2>1, BecomesKeeps DEF CallTool
<1>24. ASSUME NEW t \in Turns, ToolBegins(t) \/ ToolStep(t) PROVE LifeInv'
  BY <1>24 DEF ToolBegins, ToolStep
<1>25. ASSUME NEW t \in Turns, ToolReturns(t) PROVE LifeInv'
  BY <1>25, BecomesKeeps DEF ToolReturns
<1>26. ASSUME NEW t \in Turns, Completes(t) \/ Breaks(t) PROVE LifeInv'
  <2>1. /\ how' \in [Turns -> {"none", "done", "error"}]
        /\ \A u \in Turns : u # t => how'[u] = how[u]
        /\ how'[t] # "none"
    BY <1>26 DEF Completes, Breaks, Ends
  <2> QED
    BY <1>26, <2>1, BecomesKeeps DEF Completes, Breaks, Ends
<1>27. ASSUME NEW t \in Turns, TurnEnds(t) PROVE LifeInv'
  <2>1. how[t] \in {"ask", "error", "done"}
    BY <1>27 DEF TurnEnds
  <2>2. Append(events, how[t]) \in Seq({"ask", "error", "done"})
    BY <2>1, SendsType
  <2>3. events' = events \/ events' = Append(events, how[t])
    BY <1>27 DEF TurnEnds
  <2>4. events' \in Seq({"ask", "error", "done"})
    BY <2>2, <2>3
  <2> QED
    BY <1>27, <2>4, BecomesKeeps DEF TurnEnds
<1>28. CASE UNCHANGED vars
  BY <1>28
<1>29. ASSUME NEW t \in Turns, RecordTurn(t) \/ CountTurn(t) \/ StartFails(t)
       PROVE  LifeInv'
  BY <1>29, BecomesKeeps DEF RecordTurn, CountTurn, StartFails
<1> QED
  BY <1>1, <1>2, <1>3, <1>4, <1>5, <1>6, <1>7, <1>8, <1>9, <1>10, <1>11, <1>12,
     <1>13, <1>14, <1>15, <1>16, <1>17, <1>18, <1>19, <1>20, <1>21, <1>22,
     <1>23, <1>24, <1>25, <1>26, <1>27, <1>28, <1>29
     DEF Next, Main, New, Close, User, TurnStep

\* The invariant of the life cycle holds in every behaviour.
THEOREM LifeInvHolds == Spec => []LifeInv
<1> QED
  BY LifeInvInit, LifeInvStep, PTL DEF Spec

\* Close closes what the turns use only when they are over, for any number
\* of turns and servers, apart from turns it stopped waiting for and turns of
\* the terminal interface that were not counted yet when it had waited: the
\* turn of a single prompt always is (App.Close, startTurn).
THEOREM ClosedLast == Spec => []ClosedAfterTurns
<1>1. LifeInv => ClosedAfterTurns
  BY DEF LifeInv, MainInv, TurnInv, PartsClosed, PastWait, ClosedAfterTurns
<1> QED
  BY <1>1, LifeInvHolds, PTL

-----------------------------------------------------------------------------
(* A single prompt.                                                        *)

ErrorPending == \E i \in 1..Len(events) : events[i] = "error"

\* A turn that ended with an error has told the prompt so, unless a signal
\* had stopped it.
PromptInv ==
  way = "prompt" =>
    /\ main \notin CloseSteps \cup {"exit"} /\ stopped[1] => signalled
    /\ /\ main \notin CloseSteps \cup {"exit"}
       /\ turn[1] = "over" /\ how[1] = "error"
       => signalled \/ ErrorPending
    /\ result = "ok" => signalled \/ (turn[1] = "over" /\ how[1] = "done")

\* No prompt has been answered or given up yet.
LEMMA PromptInvInit == Init => PromptInv
BY DEF Init, PromptInv

\* An event that is sent hides none that was.
LEMMA SendKeeps ==
  ASSUME LifeTypeOK, NEW e \in {"ask", "error", "done"},
         events' = Append(events, e), ErrorPending \/ e = "error"
  PROVE  ErrorPending'
<1>1. CASE ErrorPending
  <2>1. PICK i \in 1..Len(events) : events[i] = "error"
    BY <1>1 DEF ErrorPending
  <2>2. i \in 1..Len(events') /\ events'[i] = "error"
    BY <2>1 DEF LifeTypeOK
  <2> QED
    BY <2>2 DEF ErrorPending
<1>2. CASE e = "error"
  <2>1. LET n == Len(events) + 1 IN n \in 1..Len(events') /\ events'[n] = "error"
    BY <1>2 DEF LifeTypeOK
  <2> QED
    BY <2>1 DEF ErrorPending
<1> QED
  BY <1>1, <1>2

\* Reading past an event that is no error hides none that is.
LEMMA ReadKeeps ==
  ASSUME LifeTypeOK, ErrorPending, events # <<>>, Head(events) # "error",
         events' = Tail(events)
  PROVE  ErrorPending'
<1>1. PICK i \in 1..Len(events) : events[i] = "error"
  BY DEF ErrorPending
<1>2. i - 1 \in 1..Len(events') /\ events'[i - 1] = "error"
  BY <1>1 DEF LifeTypeOK
<1> QED
  BY <1>2 DEF ErrorPending

\* Every step keeps the invariant of the single prompt.
LEMMA PromptInvStep == LifeInv /\ PromptInv /\ [Next]_vars => PromptInv'
<1> SUFFICES ASSUME LifeInv, PromptInv, [Next]_vars, way' = "prompt"
             PROVE  PromptInv'
  BY DEF PromptInv
<1> USE DEF LifeInv, LifeTypeOK, MainInv, TurnInv, PromptInv, Ways, NewSteps,
            CloseSteps, Runs, Starts, Alive, PastWait
<1>1. CASE LoadConfig \/ NoKey
  BY <1>1 DEF LoadConfig, NoKey, GoesTo, ErrorPending
<1>2. CASE OpenOwn \/ OthersOpen \/ Killed
  BY <1>2 DEF OpenOwn, OthersOpen, Killed, OnlyStore, ErrorPending
<1>3. CASE NewFails \/ OpenStore \/ MakeClient \/ OpenRoot \/ ConnectServers
  BY <1>3 DEF NewFails, GiveUp, OpenStore, MakeClient, OpenRoot, ConnectServers,
     GoesTo, ErrorPending
<1>4. CASE HandOver
  BY <1>4 DEF HandOver, ErrorPending
<1>5. CASE OpenSession \/ SessionFails
  BY <1>5 DEF OpenSession, SessionFails, GiveUp, GoesTo, ErrorPending
<1>6. CASE PromptRead
  <2>1. CASE Leave("error")
    BY <1>6, <2>1 DEF PromptRead, Leave
  <2>2. CASE /\ Head(events) \in GoesOnAfter
             /\ UNCHANGED <<appVars, turn, how, stopped, late, root, restVars>>
    <3>1. ErrorPending => ErrorPending'
      BY <1>6, <2>2, ReadKeeps DEF PromptRead, GoesOnAfter
    <3> QED
      BY <2>2, <3>1
  <2> QED
    BY <1>6, <2>1, <2>2 DEF PromptRead
<1>7. CASE PromptEnds
  BY <1>7 DEF PromptEnds, Leave, ErrorPending
<1>8. CASE PromptRefused
  BY <1>8 DEF PromptRefused, Leave
<1>9. CASE FileCommand \/ TuiFails \/ UserQuits \/ TuiEnds
  BY <1>9 DEF FileCommand, TuiFails, UserQuits, TuiEnds, Leave
<1>10. CASE Signal
  BY <1>10 DEF Signal, ErrorPending
<1>11. CASE Close
  BY <1>11 DEF Close, CancelTurns, WaitTurns, WaitTimeout, CloseServers,
     CloseRoot, CloseStore, GoesTo, ErrorPending
<1>12. ASSUME NEW t \in Turns, main # "exit", StartTurn(t) PROVE PromptInv'
  BY <1>12 DEF StartTurn, MayStart, ErrorPending
<1>13. ASSUME NEW t \in Turns, Answer(t) \/ HangReturns(t) PROVE PromptInv'
  BY <1>13 DEF Answer, HangReturns, Becomes, ErrorPending
<1>14. ASSUME NEW t \in Turns, CallTool(t) PROVE PromptInv'
  BY <1>14, SendKeeps DEF CallTool, Becomes, ErrorPending
<1>15. ASSUME NEW t \in Turns, ToolBegins(t) \/ ToolStep(t) \/ ToolReturns(t)
       PROVE  PromptInv'
  BY <1>15 DEF ToolBegins, ToolStep, ToolReturns, Becomes, ErrorPending
<1>16. ASSUME NEW t \in Turns, Completes(t) \/ Breaks(t) PROVE PromptInv'
  BY <1>16 DEF Completes, Breaks, Ends, Becomes, ErrorPending
<1>17. ASSUME NEW t \in Turns, TurnEnds(t) PROVE PromptInv'
  BY <1>17, SendKeeps DEF TurnEnds, Becomes, MayDrop, ErrorPending
<1>18. CASE UNCHANGED vars
  BY <1>18 DEF ErrorPending
<1>19. ASSUME NEW t \in Turns, RecordTurn(t) \/ CountTurn(t) \/ StartFails(t)
       PROVE  PromptInv'
  BY <1>19 DEF RecordTurn, CountTurn, StartFails, Becomes, ErrorPending
<1> QED
  BY <1>1, <1>2, <1>3, <1>4, <1>5, <1>6, <1>7, <1>8, <1>9, <1>10, <1>11, <1>12,
     <1>13, <1>14, <1>15, <1>16, <1>17, <1>18, <1>19
     DEF Next, Main, New, User, TurnStep

\* A prompt that is reported as done was answered, or a signal had come
\* (runPrompt): an error event of its turn is never passed over.
THEOREM Answered == Spec => []PromptAnswered
<1>1. PromptInv => PromptAnswered
  BY DEF PromptInv, PromptAnswered
<1> QED
  BY <1>1, LifeInvHolds, PromptInvInit, PromptInvStep, PTL DEF Spec

-----------------------------------------------------------------------------
(* The file.                                                               *)

\* The steps of a call, one by one.
LEMMA StepOrder ==
  /\ Steps = {"read", "stat", "create", "write", "chmod", "rename"}
  /\ After("read") = "stat" /\ After("stat") = "create"
  /\ After("create") = "write" /\ After("write") = "chmod"
  /\ After("chmod") = "rename"
<1>1. 1..6 = {1, 2, 3, 4, 5, 6}
  OBVIOUS
<1>2. /\ Order[1] = "read" /\ Order[2] = "stat" /\ Order[3] = "create"
      /\ Order[4] = "write" /\ Order[5] = "chmod" /\ Order[6] = "rename"
  BY DEF Order
<1>3. Steps = {"read", "stat", "create", "write", "chmod", "rename"}
  BY <1>1, <1>2 DEF Steps
<1>4. ASSUME NEW j \in 1..5 PROVE After(Order[j]) = Order[1 + j]
  <2>1. \A i \in 1..6 : Order[i] = Order[j] => i = j
    BY <1>1, <1>2
  <2>2. (CHOOSE i \in 1..6 : Order[i] = Order[j]) = j
    BY <2>1
  <2> QED
    BY <2>2 DEF After
<1>5. /\ After(Order[1]) = Order[2] /\ After(Order[2]) = Order[3]
      /\ After(Order[3]) = Order[4] /\ After(Order[4]) = Order[5]
      /\ After(Order[5]) = Order[6]
  BY <1>4
<1> QED
  BY <1>2, <1>3, <1>5

\* The mode the file must have once it is there, unless a call that could
\* not look at it has replaced it.
Kept == IF first = NoFile THEN "0600" ELSE first.mode

Replaced == \E u \in unseen : At(u, "done")

\* A call gives its temporary file the mode it found and its whole text before
\* it renames it; it found the file's mode, or 0600 where it could not look at
\* the file or the file had been replaced.
FileInv ==
  /\ first = NoFile \/ \E m \in OldModes : first = File(m, TRUE)
  /\ \/ target = IF first = NoFile /\ target = NoFile THEN NoFile
                 ELSE File(Kept, TRUE)
     \/ target = File("0600", TRUE) /\ Replaced
  /\ \A o \in Ops :
       /\ op[o].at \in {"idle", "read", "stat", "create"} => temp[o] = NoFile
       /\ op[o].at \in {"create", "write", "chmod", "rename"} =>
            \/ op[o].mode = Kept
            \/ op[o].mode = "0600" /\ (o \in unseen \/ Replaced)
       /\ op[o].at = "chmod" => temp[o].whole
       /\ op[o].at = "rename" => temp[o] = File(op[o].mode, TRUE)
       /\ Finished(o) => temp[o] = NoFile \/ root = "closed"
       /\ op[o] # Idle => root # "none"

\* No tool writes a file yet.
LEMMA FileInvInit == Init => FileTypeOK /\ FileInv
<1> SUFFICES ASSUME Init PROVE FileTypeOK /\ FileInv
  OBVIOUS
<1>1. first = NoFile \/ \E m \in OldModes : first = File(m, TRUE)
  BY DEF Init, FileInit
<1>2. /\ root = "none" /\ target = first /\ op = [o \in Ops |-> Idle]
      /\ temp = [o \in Ops |-> NoFile] /\ unseen = {}
  BY DEF Init, FileInit
<1>3. first \in [mode : OldModes \cup {"0600", "none"}, whole : BOOLEAN]
  <2>1. ASSUME NEW m \in OldModes \cup {"none"}
        PROVE  File(m, TRUE)
                 \in [mode : OldModes \cup {"0600", "none"}, whole : BOOLEAN]
    BY DEF File
  <2> QED
    BY <1>1, <2>1 DEF NoFile
<1>4. FileTypeOK
  BY <1>2, <1>3 DEF FileTypeOK, File, NoFile, Idle, Call
<1>5. FileInv
  BY <1>1, <1>2, FileToolsAssumption
     DEF FileInv, Kept, File, NoFile, Idle, Call, Finished
<1> QED
  BY <1>4, <1>5

\* Every step of a file tool keeps the types and the invariant of the files.
LEMMA FileInvStep ==
  LifeInv /\ FileTypeOK /\ FileInv /\ [Next]_vars => FileTypeOK' /\ FileInv'
<1> SUFFICES ASSUME LifeInv, FileTypeOK, FileInv, [Next]_vars
             PROVE  FileTypeOK' /\ FileInv'
  OBVIOUS
<1> USE FileToolsAssumption, StepOrder
    DEF FileTypeOK, FileInv, Kept, Replaced, File, NoFile, Idle, Call, Finished,
        At, GoesOn
<1>1. CASE UNCHANGED <<fileVars, root>>
  BY <1>1
<1>2. CASE UNCHANGED fileVars /\ main = "tools" /\ root' = "open"
  BY <1>2 DEF LifeInv, MainInv
<1>3. CASE UNCHANGED fileVars /\ built /\ root' = "closed"
  BY <1>3
<1>4. ASSUME NEW t \in Ops, turn[t] = "tool", UNCHANGED root,
             Begin(t) \/ FileStep(t)
      PROVE  FileTypeOK' /\ FileInv'
  <2>1. root \in {"open", "closed"}
    BY <1>4 DEF LifeInv, LifeTypeOK, MainInv, TurnInv
  <2>2. CASE Begin(t)
    <3>1. PICK c \in {Call("read", "none"), Call("stat", "none"),
                      Call("failed", "none")} : op' = [op EXCEPT ![t] = c]
      BY <2>2 DEF Begin, Refuse
    <3>2. FileTypeOK'
      BY <1>4, <2>2, <3>1 DEF Begin
    <3> QED
      BY <1>4, <2>1, <2>2, <3>1, <3>2 DEF Begin
  <2>3. CASE Read(t)
    BY <1>4, <2>1, <2>3 DEF Read
  <2>4. CASE Stat(t)
    BY <1>4, <2>1, <2>4 DEF Stat, FoundModes
  <2>5. CASE Create(t)
    BY <1>4, <2>1, <2>5, ZenonT(40) DEF Create
  <2>6. CASE Write(t)
    BY <1>4, <2>1, <2>6, ZenonT(40) DEF Write
  <2>7. CASE Chmod(t)
    BY <1>4, <2>1, <2>7, ZenonT(40) DEF Chmod
  <2>8. CASE Rename(t)
    BY <1>4, <2>1, <2>8 DEF Rename
  <2>9. CASE Fail(t)
    BY <1>4, <2>1, <2>9 DEF Fail, RemovedTemp, Busy
  <2> QED
    BY <1>4, <2>2, <2>3, <2>4, <2>5, <2>6, <2>7, <2>8, <2>9 DEF FileStep
<1> QED
  BY <1>1, <1>2, <1>3, <1>4, FileSteps DEF FileMove

\* A write is all or nothing, however the calls of any number of turns are
\* interleaved with each other and with a shutdown: whatever step each is
\* at, the file is whole; it has its mode unless a call that could not look
\* at it has replaced it; and a call that is over has left no temporary file
\* unless the root was closed under it (atomicWriteFileRoot).
THEOREM AllOrNothing == Spec => []AtomicWrites
<1>1. FileInv => FileIntact
  <2> SUFFICES ASSUME FileInv PROVE FileIntact
    OBVIOUS
  <2>1. CASE first = NoFile /\ target = NoFile
    BY <2>1 DEF FileIntact, KeptMode, File, NoFile
  <2>2. CASE target = File(Kept, TRUE) /\ first = NoFile
    BY <2>2 DEF FileIntact, KeptMode, Kept, File, NoFile
  <2>3. CASE target = File(Kept, TRUE) /\ first # NoFile
    BY <2>3 DEF FileIntact, KeptMode, Kept, File
  <2>4. CASE target = File("0600", TRUE) /\ Replaced
    BY <2>4 DEF FileIntact, Replaced, File
  <2> QED
    BY <2>1, <2>2, <2>3, <2>4 DEF FileInv
<1>2. FileInv => TempsGone
  BY DEF FileInv, TempsGone
<1>3. FileInv => AtomicWrites
  BY <1>1, <1>2 DEF AtomicWrites
<1> QED
  BY <1>3, LifeInvHolds, FileInvInit, FileInvStep, PTL DEF Spec

\* The types of the variables.
THEOREM TypeCorrect == Spec => []TypeOK
<1>1. LifeInv /\ FileTypeOK /\ StoreInv => TypeOK
  BY DEF LifeInv, LifeTypeOK, StoreInv, TypeOK
<1> QED
  BY <1>1, LifeInvHolds, StoreInvHolds, FileInvInit, FileInvStep, PTL DEF Spec

-----------------------------------------------------------------------------
(* The ACP server.                                                         *)

USE ConstantsAssumption
USE DEF serverVars, slotVars, ctxVars, engineVars, Go, Step

-----------------------------------------------------------------------------
(* The types of the ACP server. *)

\* A prompt that has got past currentSession has a session: it is captured
\* once and never taken back, while session/new may replace the current one.
Targeted ==
  \A p \in Prompts :
    pc[p] \in {"prepared", "registered", "starting", "reading"} =>
      sid[p] # None

\* The events a channel may hold.
EventsOK ==
  /\ channel \in [Prompts -> Seq({"content", "approval", "done", "error"})]
  /\ \A p \in Prompts : Len(channel[p]) <= EventCap

\* Taking an event leaves a channel of events within its capacity.
LEMMA ReceiveType ==
  ASSUME AcpTypeOK, NEW p \in Prompts, NEW e, Receive(p, e)
  PROVE  EventsOK'
<1>1. EventsOK
  BY DEF AcpTypeOK, EventsOK
<1>2. /\ Tail(channel[p]) \in Seq({"content", "approval", "done", "error"})
      /\ Len(Tail(channel[p])) <= EventCap
  BY <1>1 DEF Receive, EventsOK
<1>3. channel' = [channel EXCEPT ![p] = Tail(channel[p])]
  BY DEF Receive
<1> QED
  BY <1>1, <1>2, <1>3 DEF EventsOK

\* So does sending one when there is room.
LEMMA EmitType ==
  ASSUME AcpTypeOK, NEW p \in Prompts,
         NEW e \in {"content", "approval", "done", "error"}, Emit(p, e)
  PROVE  EventsOK'
<1>1. EventsOK
  BY DEF AcpTypeOK, EventsOK
<1>2. /\ Append(channel[p], e) \in Seq({"content", "approval", "done", "error"})
      /\ Len(Append(channel[p], e)) <= EventCap
  BY <1>1 DEF Emit, EventsOK
<1>3. channel' = [channel EXCEPT ![p] = Append(channel[p], e)]
  BY DEF Emit
<1> QED
  BY <1>1, <1>2, <1>3 DEF EventsOK

\* Nothing has happened yet.
LEMMA TypeInit == AcpInit => AcpTypeOK /\ Targeted
<1> SUFFICES ASSUME AcpInit PROVE AcpTypeOK /\ Targeted
  OBVIOUS
<1>1. EventsOK
  BY DEF AcpInit, EventsOK
<1> QED
  BY <1>1 DEF AcpInit, AcpTypeOK, EventsOK, Targeted, Responses

\* Every step keeps the types.
LEMMA TypeStep ==
  AcpTypeOK /\ Targeted /\ [AcpNext]_acpVars => AcpTypeOK' /\ Targeted'
<1> SUFFICES ASSUME AcpTypeOK, Targeted, [AcpNext]_acpVars
             PROVE  AcpTypeOK' /\ Targeted'
  OBVIOUS
<1> USE AcpTypeOK, Targeted
<1>1. ASSUME NEW p \in Prompts, ReadPrompt(p) PROVE AcpTypeOK' /\ Targeted'
  BY <1>1 DEF ReadPrompt, AcpTypeOK, Targeted, Responses
<1>2. ASSUME NEW x \in Sessions, SetSession(x) PROVE AcpTypeOK' /\ Targeted'
  BY <1>2 DEF SetSession, AcpTypeOK, Targeted, Responses
<1>3. ASSUME NEW k \in Cancels, ReadCancel(k) PROVE AcpTypeOK' /\ Targeted'
  BY <1>3, ZenonT(40) DEF ReadCancel, AcpTypeOK, Targeted, Responses
<1>4. ASSUME InputEnds PROVE AcpTypeOK' /\ Targeted'
  BY <1>4 DEF InputEnds, AcpTypeOK, Targeted, Responses
<1>5. ASSUME StopSeen PROVE AcpTypeOK' /\ Targeted'
  BY <1>5 DEF StopSeen, InputEnds, AcpTypeOK, Targeted, Responses
<1>6. ASSUME RunReturns PROVE AcpTypeOK' /\ Targeted'
  BY <1>6 DEF RunReturns, AcpTypeOK, Targeted, Responses
<1>7. ASSUME Stop PROVE AcpTypeOK' /\ Targeted'
  BY <1>7 DEF Stop, AcpTypeOK, Targeted, Responses
<1>8. ASSUME NEW p \in Prompts, InvalidPrompt(p) PROVE AcpTypeOK' /\ Targeted'
  BY <1>8 DEF InvalidPrompt, Respond, AcpTypeOK, Targeted, Responses
<1>9. ASSUME NEW p \in Prompts, NoSession(p) PROVE AcpTypeOK' /\ Targeted'
  BY <1>9 DEF NoSession, Respond, AcpTypeOK, Targeted, Responses
<1>10. ASSUME NEW p \in Prompts, CurrentSession(p) PROVE AcpTypeOK' /\ Targeted'
  BY <1>10 DEF CurrentSession, AcpTypeOK, Targeted, Responses
<1>11. ASSUME NEW p \in Prompts, SetCancel(p) PROVE AcpTypeOK' /\ Targeted'
  BY <1>11 DEF SetCancel, AcpTypeOK, Targeted, Responses
<1>12. ASSUME NEW p \in Prompts, StartPrompt(p) PROVE AcpTypeOK' /\ Targeted'
  BY <1>12 DEF StartPrompt, AcpTypeOK, Targeted, Responses
<1>13. ASSUME NEW p \in Prompts, Rejected(p) PROVE AcpTypeOK' /\ Targeted'
  BY <1>13 DEF Rejected, Respond, AcpTypeOK, Targeted, Responses
<1>14. ASSUME NEW p \in Prompts, RunTurn(p) PROVE AcpTypeOK' /\ Targeted'
  BY <1>14 DEF RunTurn, AcpTypeOK, Targeted, Responses
<1>15. ASSUME NEW p \in Prompts, RunTurnFails(p) PROVE AcpTypeOK' /\ Targeted'
  BY <1>15 DEF RunTurnFails, Respond, AcpTypeOK, Targeted, Responses
<1>16. ASSUME NEW p \in Prompts, Forward(p) PROVE AcpTypeOK' /\ Targeted'
  <2>1. EventsOK'
    BY <1>16, ReceiveType DEF Forward, Respond
  <2> QED
    BY <1>16, <2>1, ZenonT(40)
       DEF Forward, Receive, Respond, EventsOK, AcpTypeOK, Targeted, Responses
<1>17. ASSUME NEW p \in Prompts, ReadDone(p) PROVE AcpTypeOK' /\ Targeted'
  <2>1. EventsOK'
    BY <1>17, ReceiveType DEF ReadDone
  <2> QED
    BY <1>17, <2>1
       DEF ReadDone, Receive, EventsOK, AcpTypeOK, Targeted, Responses
<1>18. ASSUME NEW p \in Prompts, TurnFails(p) PROVE AcpTypeOK' /\ Targeted'
  <2>1. EventsOK'
    BY <1>18, ReceiveType DEF TurnFails, Respond
  <2> QED
    BY <1>18, <2>1
       DEF TurnFails, Receive, Respond, EventsOK, AcpTypeOK, Targeted, Responses
<1>19. ASSUME NEW p \in Prompts, Completed(p) PROVE AcpTypeOK' /\ Targeted'
  BY <1>19 DEF Completed, Respond, AcpTypeOK, Targeted, Responses
<1>20. ASSUME NEW p \in Prompts, EndPrompt(p) PROVE AcpTypeOK' /\ Targeted'
  BY <1>20 DEF EndPrompt, AcpTypeOK, Targeted, Responses
<1>21. ASSUME NEW p \in Prompts, UnsetCancel(p) PROVE AcpTypeOK' /\ Targeted'
  BY <1>21 DEF UnsetCancel, AcpTypeOK, Targeted, Responses
<1>22. ASSUME NEW p \in Prompts, Release(p) PROVE AcpTypeOK' /\ Targeted'
  BY <1>22 DEF Release, CancelContext, AcpTypeOK, Targeted, Responses
<1>23. ASSUME NEW p \in Prompts, TurnSpeaks(p) PROVE AcpTypeOK' /\ Targeted'
  <2>1. EventsOK'
    BY <1>23, EmitType DEF TurnSpeaks
  <2> QED
    BY <1>23, <2>1
       DEF TurnSpeaks, Emit, EventsOK, AcpTypeOK, Targeted, Responses
<1>24. ASSUME NEW p \in Prompts, TurnAsks(p) PROVE AcpTypeOK' /\ Targeted'
  <2>1. EventsOK'
    BY <1>24, EmitType DEF TurnAsks
  <2> QED
    BY <1>24, <2>1 DEF TurnAsks, Emit, EventsOK, AcpTypeOK, Targeted, Responses
<1>25. ASSUME NEW p \in Prompts, TurnSettles(p) PROVE AcpTypeOK' /\ Targeted'
  <2>1. EventsOK'
    BY <1>25, EmitType DEF TurnSettles, Settle
  <2> QED
    BY <1>25, <2>1
       DEF TurnSettles, Emit, Settle, EventsOK, AcpTypeOK, Targeted, Responses
<1>26. ASSUME NEW p \in Prompts, TurnCancelled(p) PROVE AcpTypeOK' /\ Targeted'
  <2>1. EventsOK'
    BY <1>26, EmitType DEF TurnCancelled, Settle, EventsOK, AcpTypeOK
  <2> QED
    BY <1>26, <2>1
       DEF TurnCancelled, Emit, Settle, EventsOK, AcpTypeOK, Targeted, Responses
<1>27. ASSUME NEW p \in Prompts, TurnOver(p) PROVE AcpTypeOK' /\ Targeted'
  BY <1>27 DEF TurnOver, AcpTypeOK, Targeted, Responses
<1>28. CASE UNCHANGED acpVars
  BY <1>28 DEF acpVars, AcpTypeOK, Targeted, Responses
<1> QED
  BY <1>1, <1>2, <1>3, <1>4, <1>5, <1>6, <1>7, <1>8, <1>9, <1>10, <1>11, <1>12,
     <1>13, <1>14, <1>15, <1>16, <1>17, <1>18, <1>19, <1>20, <1>21, <1>22,
     <1>23, <1>24, <1>25, <1>26, <1>27, <1>28
     DEF AcpNext, Loop, Handle, Engine

\* The variables of the server keep their types, and the session a prompt
\* runs in is one it has (server.go:51-62).
THEOREM AcpTypeCorrect == AcpSpec => []AcpTypeOK
  BY TypeInit, TypeStep, PTL DEF AcpSpec

-----------------------------------------------------------------------------
(* ACP: one prompt in flight. *)

\* Nobody is in flight at the start.
LEMMA FlightInit == AcpInit => OnePromptInFlight
  BY DEF AcpInit, OnePromptInFlight, InFlight

\* The flag goes up with one prompt and comes down with it.
LEMMA FlightStep ==
  AcpTypeOK /\ OnePromptInFlight /\ [AcpNext]_acpVars => OnePromptInFlight'
<1> SUFFICES ASSUME AcpTypeOK, OnePromptInFlight, [AcpNext]_acpVars
             PROVE  OnePromptInFlight'
  OBVIOUS
<1> USE AcpTypeOK, OnePromptInFlight
<1>1. ASSUME NEW p \in Prompts, ReadPrompt(p) PROVE OnePromptInFlight'
  BY <1>1 DEF ReadPrompt, AcpTypeOK, OnePromptInFlight, InFlight
<1>2. ASSUME NEW x \in Sessions, SetSession(x) PROVE OnePromptInFlight'
  BY <1>2 DEF SetSession, AcpTypeOK, OnePromptInFlight, InFlight
<1>3. ASSUME NEW k \in Cancels, ReadCancel(k) PROVE OnePromptInFlight'
  BY <1>3 DEF ReadCancel, AcpTypeOK, OnePromptInFlight, InFlight
<1>4. ASSUME InputEnds PROVE OnePromptInFlight'
  BY <1>4 DEF InputEnds, AcpTypeOK, OnePromptInFlight, InFlight
<1>5. ASSUME StopSeen PROVE OnePromptInFlight'
  BY <1>5 DEF StopSeen, InputEnds, AcpTypeOK, OnePromptInFlight, InFlight
<1>6. ASSUME RunReturns PROVE OnePromptInFlight'
  BY <1>6 DEF RunReturns, AcpTypeOK, OnePromptInFlight, InFlight
<1>7. ASSUME Stop PROVE OnePromptInFlight'
  BY <1>7 DEF Stop, AcpTypeOK, OnePromptInFlight, InFlight
<1>8. ASSUME NEW p \in Prompts, InvalidPrompt(p) PROVE OnePromptInFlight'
  BY <1>8 DEF InvalidPrompt, Respond, AcpTypeOK, OnePromptInFlight, InFlight
<1>9. ASSUME NEW p \in Prompts, NoSession(p) PROVE OnePromptInFlight'
  BY <1>9 DEF NoSession, Respond, AcpTypeOK, OnePromptInFlight, InFlight
<1>10. ASSUME NEW p \in Prompts, CurrentSession(p) PROVE OnePromptInFlight'
  BY <1>10 DEF CurrentSession, AcpTypeOK, OnePromptInFlight, InFlight
<1>11. ASSUME NEW p \in Prompts, SetCancel(p) PROVE OnePromptInFlight'
  BY <1>11 DEF SetCancel, AcpTypeOK, OnePromptInFlight, InFlight
<1>12. ASSUME NEW p \in Prompts, StartPrompt(p) PROVE OnePromptInFlight'
  BY <1>12 DEF StartPrompt, AcpTypeOK, OnePromptInFlight, InFlight
<1>13. ASSUME NEW p \in Prompts, Rejected(p) PROVE OnePromptInFlight'
  BY <1>13 DEF Rejected, Respond, AcpTypeOK, OnePromptInFlight, InFlight
<1>14. ASSUME NEW p \in Prompts, RunTurn(p) PROVE OnePromptInFlight'
  BY <1>14 DEF RunTurn, AcpTypeOK, OnePromptInFlight, InFlight
<1>15. ASSUME NEW p \in Prompts, RunTurnFails(p) PROVE OnePromptInFlight'
  BY <1>15 DEF RunTurnFails, Respond, AcpTypeOK, OnePromptInFlight, InFlight
<1>16. ASSUME NEW p \in Prompts, Forward(p) PROVE OnePromptInFlight'
  <2>1. CASE runDone
    <3>1. /\ pc[p] = "reading" /\ pc' = [pc EXCEPT ![p] = "ending"]
          /\ promptInFlight' = promptInFlight
      BY <1>16, <2>1 DEF Forward, Receive, slotVars, Go
    <3>2. \A q \in Prompts : InFlight(q)' <=> InFlight(q)
      BY <3>1 DEF InFlight, AcpTypeOK
    <3> QED BY <3>1, <3>2 DEF OnePromptInFlight
  <2>2. CASE ~runDone
    <3>1. UNCHANGED <<pc, promptInFlight>>
      BY <1>16, <2>2 DEF Forward, slotVars
    <3> QED BY <3>1 DEF OnePromptInFlight, InFlight
  <2> QED BY <2>1, <2>2
<1>17. ASSUME NEW p \in Prompts, ReadDone(p) PROVE OnePromptInFlight'
  BY <1>17 DEF ReadDone, Receive, AcpTypeOK, OnePromptInFlight, InFlight
<1>18. ASSUME NEW p \in Prompts, TurnFails(p) PROVE OnePromptInFlight'
  BY <1>18
     DEF TurnFails, Receive, Respond, AcpTypeOK, OnePromptInFlight, InFlight
<1>19. ASSUME NEW p \in Prompts, Completed(p) PROVE OnePromptInFlight'
  BY <1>19 DEF Completed, Respond, AcpTypeOK, OnePromptInFlight, InFlight
<1>20. ASSUME NEW p \in Prompts, EndPrompt(p) PROVE OnePromptInFlight'
  BY <1>20 DEF EndPrompt, AcpTypeOK, OnePromptInFlight, InFlight
<1>21. ASSUME NEW p \in Prompts, UnsetCancel(p) PROVE OnePromptInFlight'
  BY <1>21 DEF UnsetCancel, AcpTypeOK, OnePromptInFlight, InFlight
<1>22. ASSUME NEW p \in Prompts, Release(p) PROVE OnePromptInFlight'
  BY <1>22 DEF Release, CancelContext, AcpTypeOK, OnePromptInFlight, InFlight
<1>23. ASSUME NEW p \in Prompts, TurnSpeaks(p) PROVE OnePromptInFlight'
  BY <1>23 DEF TurnSpeaks, Emit, AcpTypeOK, OnePromptInFlight, InFlight
<1>24. ASSUME NEW p \in Prompts, TurnAsks(p) PROVE OnePromptInFlight'
  BY <1>24 DEF TurnAsks, Emit, AcpTypeOK, OnePromptInFlight, InFlight
<1>25. ASSUME NEW p \in Prompts, TurnSettles(p) PROVE OnePromptInFlight'
  BY <1>25 DEF TurnSettles, Emit, Settle, AcpTypeOK, OnePromptInFlight, InFlight
<1>26. ASSUME NEW p \in Prompts, TurnCancelled(p) PROVE OnePromptInFlight'
  BY <1>26
     DEF TurnCancelled, Emit, Settle, AcpTypeOK, OnePromptInFlight, InFlight
<1>27. ASSUME NEW p \in Prompts, TurnOver(p) PROVE OnePromptInFlight'
  BY <1>27 DEF TurnOver, AcpTypeOK, OnePromptInFlight, InFlight
<1>28. CASE UNCHANGED acpVars
  BY <1>28 DEF acpVars, AcpTypeOK, OnePromptInFlight, InFlight
<1> QED
  BY <1>1, <1>2, <1>3, <1>4, <1>5, <1>6, <1>7, <1>8, <1>9, <1>10, <1>11, <1>12,
     <1>13, <1>14, <1>15, <1>16, <1>17, <1>18, <1>19, <1>20, <1>21, <1>22,
     <1>23, <1>24, <1>25, <1>26, <1>27, <1>28
     DEF AcpNext, Loop, Handle, Engine

\* The server runs one prompt at a time, and its flag says whether it does
\* (server.go:303-322).
THEOREM OnePrompt == AcpSpec => []OnePromptInFlight
<1>1. AcpSpec => [](AcpTypeOK /\ OnePromptInFlight)
  BY AcpTypeCorrect, FlightInit, FlightStep, PTL DEF AcpSpec
<1> QED
  BY <1>1, PTL

-----------------------------------------------------------------------------
(* ACP: what a success means. *)

\* The events tell how the turn has ended.
Told(s) == \E i \in DOMAIN s : s[i] \in {"done", "error"}

\* A turn whose channel is about to be closed has told its reader how it
\* ended, or was cancelled; and a success is the last thing a prompt does
\* before its deferred calls.
Ended ==
  /\ \A p \in Prompts :
       pc[p] = "reading" /\ turnOf[p] \in {"settled", "over"} =>
       p \in reply \/ CtxDone(p) \/ Told(channel[p])
  /\ \A p \in Prompts : response[p] = "completed" =>
       pc[p] \in {"ending", "unset", "release", "done"}
  /\ CompletedMeansOver

\* An event other than the last one leaves the last one in the channel.
LEMMA ReceiveTells ==
  ASSUME AcpTypeOK, NEW p \in Prompts, NEW e, Receive(p, e),
         e \notin {"done", "error"}, NEW q \in Prompts, Told(channel[q])
  PROVE  Told(channel'[q])
<1>1. CASE q # p
  BY <1>1 DEF Receive, AcpTypeOK
<1>2. CASE q = p
  <2> DEFINE s == channel[p]
  <2>1. /\ s \in Seq({"content", "approval", "done", "error"}) /\ s # <<>>
        /\ s[1] \notin {"done", "error"} /\ channel'[p] = Tail(s)
    BY DEF Receive, AcpTypeOK
  <2>2. PICK i \in DOMAIN s : s[i] \in {"done", "error"}
    BY <1>2 DEF Told
  <2>3. i # 1 /\ i \in 1..Len(s)
    BY <2>1, <2>2
  <2>4. i - 1 \in DOMAIN Tail(s) /\ Tail(s)[i - 1] = s[i]
    BY <2>1, <2>3
  <2> QED
    BY <1>2, <2>1, <2>2, <2>4 DEF Told
<1> QED
  BY <1>1, <1>2

\* An event that is sent stays behind those in the channel.
LEMMA EmitTells ==
  ASSUME AcpTypeOK, NEW p \in Prompts, NEW e, Emit(p, e), NEW q \in Prompts,
         Told(channel[q]) \/ (q = p /\ e \in {"done", "error"})
  PROVE  Told(channel'[q])
<1>1. CASE q # p
  BY <1>1 DEF Emit, AcpTypeOK
<1>2. CASE q = p
  <2> DEFINE s == channel[p]
  <2>1. /\ s \in Seq({"content", "approval", "done", "error"})
        /\ channel'[p] = Append(s, e)
    BY DEF Emit, AcpTypeOK
  <2>2. /\ Len(s) + 1 \in DOMAIN Append(s, e)
        /\ Append(s, e)[Len(s) + 1] = e
        /\ \A i \in DOMAIN s :
             i \in DOMAIN Append(s, e) /\ Append(s, e)[i] = s[i]
    BY <2>1
  <2> QED
    BY <1>2, <2>1, <2>2 DEF Told
<1> QED
  BY <1>1, <1>2

\* No prompt has ended.
LEMMA EndedInit == AcpInit => Ended
  BY DEF AcpInit, Ended, CompletedMeansOver, Responses

\* A success is written for an empty, closed channel only: the event that
\* tells the end has been read, and it was not an error.
LEMMA EndedStep == AcpTypeOK /\ Ended /\ [AcpNext]_acpVars => Ended'
<1> SUFFICES ASSUME AcpTypeOK, Ended, [AcpNext]_acpVars
             PROVE  Ended'
  OBVIOUS
<1> USE AcpTypeOK, Ended
<1>1. ASSUME NEW p \in Prompts, ReadPrompt(p) PROVE Ended'
  BY <1>1
     DEF ReadPrompt, AcpTypeOK, Ended, CompletedMeansOver, CtxDone, Responses
<1>2. ASSUME NEW x \in Sessions, SetSession(x) PROVE Ended'
  BY <1>2
     DEF SetSession, AcpTypeOK, Ended, CompletedMeansOver, CtxDone, Responses
<1>3. ASSUME NEW k \in Cancels, ReadCancel(k) PROVE Ended'
  BY <1>3
     DEF ReadCancel, AcpTypeOK, Ended, CompletedMeansOver, CtxDone, Responses
<1>4. ASSUME InputEnds PROVE Ended'
  BY <1>4
     DEF InputEnds, AcpTypeOK, Ended, CompletedMeansOver, CtxDone, Responses
<1>5. ASSUME StopSeen PROVE Ended'
  BY <1>5
     DEF StopSeen, InputEnds, AcpTypeOK, Ended, CompletedMeansOver, CtxDone,
         Responses
<1>6. ASSUME RunReturns PROVE Ended'
  BY <1>6
     DEF RunReturns, AcpTypeOK, Ended, CompletedMeansOver, CtxDone, Responses
<1>7. ASSUME Stop PROVE Ended'
  BY <1>7 DEF Stop, AcpTypeOK, Ended, CompletedMeansOver, CtxDone, Responses
<1>8. ASSUME NEW p \in Prompts, InvalidPrompt(p) PROVE Ended'
  BY <1>8
     DEF InvalidPrompt, Respond, AcpTypeOK, Ended, CompletedMeansOver, CtxDone,
         Responses
<1>9. ASSUME NEW p \in Prompts, NoSession(p) PROVE Ended'
  BY <1>9
     DEF NoSession, Respond, AcpTypeOK, Ended, CompletedMeansOver, CtxDone,
         Responses
<1>10. ASSUME NEW p \in Prompts, CurrentSession(p) PROVE Ended'
  BY <1>10
     DEF CurrentSession, AcpTypeOK, Ended, CompletedMeansOver, CtxDone,
         Responses
<1>11. ASSUME NEW p \in Prompts, SetCancel(p) PROVE Ended'
  BY <1>11
     DEF SetCancel, AcpTypeOK, Ended, CompletedMeansOver, CtxDone, Responses
<1>12. ASSUME NEW p \in Prompts, StartPrompt(p) PROVE Ended'
  BY <1>12
     DEF StartPrompt, AcpTypeOK, Ended, CompletedMeansOver, CtxDone, Responses
<1>13. ASSUME NEW p \in Prompts, Rejected(p) PROVE Ended'
  BY <1>13
     DEF Rejected, Respond, AcpTypeOK, Ended, CompletedMeansOver, CtxDone,
         Responses
<1>14. ASSUME NEW p \in Prompts, RunTurn(p) PROVE Ended'
  BY <1>14 DEF RunTurn, AcpTypeOK, Ended, CompletedMeansOver, CtxDone, Responses
<1>15. ASSUME NEW p \in Prompts, RunTurnFails(p) PROVE Ended'
  BY <1>15
     DEF RunTurnFails, Respond, AcpTypeOK, Ended, CompletedMeansOver, CtxDone,
         Responses
<1>16. ASSUME NEW p \in Prompts, Forward(p) PROVE Ended'
  BY <1>16, ReceiveTells DEF Forward, Receive, Respond, AcpTypeOK, Ended,
           CompletedMeansOver, CtxDone
<1>17. ASSUME NEW p \in Prompts, ReadDone(p) PROVE Ended'
  BY <1>17
     DEF ReadDone, Receive, AcpTypeOK, Ended, CompletedMeansOver, CtxDone,
         Responses
<1>18. ASSUME NEW p \in Prompts, TurnFails(p) PROVE Ended'
  BY <1>18
     DEF TurnFails, Receive, Respond, AcpTypeOK, Ended, CompletedMeansOver,
         CtxDone, Responses
<1>19. ASSUME NEW p \in Prompts, Completed(p) PROVE Ended'
  BY <1>19
     DEF Completed, Respond, AcpTypeOK, Ended, CompletedMeansOver, CtxDone,
           Told
<1>20. ASSUME NEW p \in Prompts, EndPrompt(p) PROVE Ended'
  BY <1>20
     DEF EndPrompt, AcpTypeOK, Ended, CompletedMeansOver, CtxDone, Responses
<1>21. ASSUME NEW p \in Prompts, UnsetCancel(p) PROVE Ended'
  BY <1>21
     DEF UnsetCancel, AcpTypeOK, Ended, CompletedMeansOver, CtxDone, Responses
<1>22. ASSUME NEW p \in Prompts, Release(p) PROVE Ended'
  BY <1>22
     DEF Release, CancelContext, AcpTypeOK, Ended, CompletedMeansOver, CtxDone,
         Responses
<1>23. ASSUME NEW p \in Prompts, TurnSpeaks(p) PROVE Ended'
  BY <1>23, EmitTells
     DEF TurnSpeaks, AcpTypeOK, Ended, CompletedMeansOver, CtxDone
<1>24. ASSUME NEW p \in Prompts, TurnAsks(p) PROVE Ended'
  BY <1>24, EmitTells
     DEF TurnAsks, AcpTypeOK, Ended, CompletedMeansOver, CtxDone
<1>25. ASSUME NEW p \in Prompts, TurnSettles(p) PROVE Ended'
  BY <1>25, EmitTells
     DEF TurnSettles, Settle, AcpTypeOK, Ended, CompletedMeansOver, CtxDone
<1>26. ASSUME NEW p \in Prompts, TurnCancelled(p) PROVE Ended'
  BY <1>26, EmitTells
     DEF TurnCancelled, Settle, AcpTypeOK, Ended, CompletedMeansOver, CtxDone
<1>27. ASSUME NEW p \in Prompts, TurnOver(p) PROVE Ended'
  BY <1>27
     DEF TurnOver, AcpTypeOK, Ended, CompletedMeansOver, CtxDone, Responses
<1>28. CASE UNCHANGED acpVars
  BY <1>28 DEF acpVars, AcpTypeOK, Ended, CompletedMeansOver, CtxDone, Responses
<1> QED
  BY <1>1, <1>2, <1>3, <1>4, <1>5, <1>6, <1>7, <1>8, <1>9, <1>10, <1>11, <1>12,
     <1>13, <1>14, <1>15, <1>16, <1>17, <1>18, <1>19, <1>20, <1>21, <1>22,
     <1>23, <1>24, <1>25, <1>26, <1>27, <1>28
     DEF AcpNext, Loop, Handle, Engine

\* A prompt is reported as completed only when its turn is over and has
\* replied or was cancelled (prompt.go:46-58).
THEOREM CompletedIsOver == AcpSpec => []CompletedMeansOver
<1>1. AcpSpec => [](AcpTypeOK /\ Ended)
  BY AcpTypeCorrect, EndedInit, EndedStep, PTL DEF AcpSpec
<1>2. Ended => CompletedMeansOver
  BY DEF Ended
<1> QED
  BY <1>1, <1>2, PTL

=============================================================================

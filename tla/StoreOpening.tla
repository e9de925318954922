----------------------------- MODULE StoreOpening -----------------------------
(***************************************************************************)
(* NewSQLite (src/internal/store/sqlite.go): every start of the program    *)
(* brings the database it finds to the schema of this version.  The        *)
(* numbered migrations count in user_version; two older changes of the     *)
(* schema go by the columns they find.  Each change is a transaction, what *)
(* a start decides on is read outside it; several processes may start on   *)
(* one database, and a start may be killed anywhere.                       *)
(***************************************************************************)
EXTENDS Naturals

CONSTANTS
    Procs,   \* the processes
    Found    \* the databases that may be there at first

VARIABLES
    db,      \* user_version, and the parts of the schema that are there
    found,   \* db at first
    opener,  \* each process: its step, and the migration it is to apply
    killed   \* bound: the processes killed so far; each is killed once

storeVars == <<db, found, opener, killed>>

-----------------------------------------------------------------------------

Db(version, has) == [version |-> version, has |-> has]
Opener(step, next) == [at |-> step, next |-> next]

(* The parts of the schema that each migration brings; the first makes the *)
(* tables, if they are not there, with two columns that the tables of      *)
(* older programs lack.                                                    *)
Brings == <<{"tables", "tool_call_id", "text_state"}, {"content_parts"},
            {"seq"}>>
Last == 3
Schema == UNION {Brings[m] : m \in 1..Last}

NewDb == Db(0, {})
OldDb == Db(0, {"tables"})
ToolIdDb == Db(0, {"tables", "tool_call_id"})
DbOf(version) == Db(version, UNION {Brings[m] : m \in 1..version})
Databases == {NewDb, OldDb, ToolIdDb} \cup {DbOf(v) : v \in 1..Last}

ASSUME StoreOpeningAssumption == Found \subseteq Databases

OpenSteps == {"file", "version", "migrate", "toolid", "addtoolid", "state",
          "recreate", "orphans"}

StoreInit ==
    /\ found \in Found
    /\ db = found
    /\ opener = [p \in Procs |-> Opener("file", 0)]
    /\ killed = {}

-----------------------------------------------------------------------------

OpenerAt(p, step) == opener[p].at = step

OpenerGoes(p, step) ==
    /\ opener' = [opener EXCEPT ![p] = Opener(step, 0)]
    /\ UNCHANGED <<found, killed>>

(* The file is made, connected to and given its mode.                      *)
Connect(p) == OpenerAt(p, "file") /\ OpenerGoes(p, "version") /\ UNCHANGED db

\* Mutant: the migration after the one that is due is taken for the first.
PendingSkips(version) == version + 2

Pending(version) == version + 1

ToMigration(p, m) ==
    /\ opener' = [opener EXCEPT
                    ![p] = IF m > Last THEN Opener("toolid", 0)
                           ELSE Opener("migrate", m)]
    /\ UNCHANGED <<found, killed>>

ReadVersion(p) ==
    /\ OpenerAt(p, "version")
    /\ ToMigration(p, Pending(db.version)) /\ UNCHANGED db

\* Mutant: the version that is written is the one before.
VersionAfterLess(m) == m - 1

VersionAfter(m) == m

(* One migration is one transaction with the new user_version.  A column   *)
(* that is there already is an error (ALTER TABLE); tables that are there  *)
(* already are not (CREATE TABLE IF NOT EXISTS).                           *)
Applicable(m, has) == m = 1 \/ Brings[m] \cap has = {}
Applied(m, has) == IF m = 1 /\ "tables" \in has THEN has
                   ELSE has \cup Brings[m]

Migrate(p) ==
    LET m == opener[p].next
    IN  /\ OpenerAt(p, "migrate") /\ Applicable(m, db.has)
        /\ db' = Db(VersionAfter(m), Applied(m, db.has))
        /\ ToMigration(p, m + 1)

LookForToolId(p) ==
    /\ OpenerAt(p, "toolid")
    /\ OpenerGoes(p, IF "tool_call_id" \in db.has THEN "state" ELSE "addtoolid")
    /\ UNCHANGED db

AddToolId(p) ==
    /\ OpenerAt(p, "addtoolid") /\ "tool_call_id" \notin db.has
    /\ db' = [db EXCEPT !.has = @ \cup {"tool_call_id"}]
    /\ OpenerGoes(p, "state")

LookForState(p) ==
    /\ OpenerAt(p, "state")
    /\ OpenerGoes(p, IF "text_state" \in db.has THEN "orphans" ELSE "recreate")
    /\ UNCHANGED db

(* The table of turns is made anew, with the columns of the first          *)
(* migration only.                                                         *)
RecreateTurns(p) ==
    /\ OpenerAt(p, "recreate")
    /\ db' = [db EXCEPT !.has = (@ \cup {"text_state"}) \ {"seq"}]
    /\ OpenerGoes(p, "orphans")

CleanUp(p) == OpenerAt(p, "orphans") /\ OpenerGoes(p, "open") /\ UNCHANGED db

(* Any step may fail: the lock is not had in time, the disk is full.       *)
OpenFails(p) ==
    opener[p].at \in OpenSteps /\ OpenerGoes(p, "failed") /\ UNCHANGED db

OpenStep(p) ==
    \/ Connect(p) \/ ReadVersion(p) \/ Migrate(p)
    \/ LookForToolId(p) \/ AddToolId(p)
    \/ LookForState(p) \/ RecreateTurns(p)
    \/ CleanUp(p) \/ OpenFails(p)

(* A start is killed; the program is started again.                        *)
Kill(p) ==
    /\ opener[p].at \in OpenSteps \ {"file"} /\ p \notin killed
    /\ opener' = [opener EXCEPT ![p] = Opener("file", 0)]
    /\ killed' = killed \cup {p}
    /\ UNCHANGED <<db, found>>

-----------------------------------------------------------------------------

StoreTypeOK ==
    /\ db \in [version : 0..Last, has : SUBSET Schema]
    /\ found \in Found
    /\ opener \in [Procs -> [at : OpenSteps \cup {"open", "failed"},
                             next : 0..Last]]
    /\ killed \subseteq Procs

(* A program that has opened the database has the whole schema in it,      *)
(* whatever was there and whoever else opens it; only the table of turns   *)
(* of an older program is left without seq.  (newSQLiteWithOptions.)       *)
OpenedComplete ==
    \A p \in Procs :
        OpenerAt(p, "open") =>
            Schema \ (IF found \in {OldDb, ToolIdDb} THEN {"seq"} ELSE {})
                \subseteq db.has

Begun(p) == ~OpenerAt(p, "file") \/ p \in killed

(* The migrations that user_version leaves to be done can be done: no      *)
(* start that fails or is killed leaves a database that cannot be opened   *)
(* any more.  The exception is a database without a version that several   *)
(* processes open at the same time.                                        *)
OpensAgain ==
    \/ \A m \in Pending(db.version)..Last : Applicable(m, db.has)
    \/ found.version = 0 /\ \E p, q \in Procs : p # q /\ Begun(p) /\ Begun(q)

(* user_version never goes back (sqlite.go:67-70).                         *)
VersionRises == [][db'.version >= db.version]_db

=============================================================================

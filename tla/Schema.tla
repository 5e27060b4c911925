------------------------------- MODULE Schema -------------------------------
(***************************************************************************)
(* The tables of one database and the scripts that make, change and fill   *)
(* them: the API as it starts (main.py, lifespan), alembic (env.py and its *)
(* two revisions) and seed.py.  Any number of them run at a time.  Each    *)
(* works in transactions, DDL included, as PostgreSQL has them: until it   *)
(* commits nobody sees its changes, and if it fails they are gone.  Its    *)
(* statements lock table after table, and it keeps the locks to the end.   *)
(***************************************************************************)
EXTENDS TaskRules, Naturals, Sequences

CONSTANTS
  Script,    \* runs of scripts, of the API, and images
  Revision,  \* Revision[p]: the last revision in the code that p runs
  DropOrder, \* in what order revision 001, taken back, locks the tables
  None       \* nobody

Latest == 2

ASSUME SchemaAssumption ==
  /\ Revision \in [Script -> 1..Latest]
  /\ {None, "api"} \cap Script = {} /\ None # "api"

\* DROP TABLE locks the table and those that its foreign keys refer to, which
\* for comments are tasks and users.
ASSUME DropOrderAssumption ==
  DropOrder \in {<<"comments", "tasks", "users", "projects">>,
                <<"comments", "users", "tasks", "projects">>}

VARIABLES
  environment,  \* settings.environment
  tables,       \* the tables: none (0), as of revision 001, as of 002
  stamp,        \* alembic_version
  demo,         \* the row of users with DEMO_EMAIL
  samples,      \* the other rows that seed.py has made
  serving,      \* the code that answers requests
  downgraded,   \* history: a downgrade that was not made good
  job,          \* what a script does
  step,         \* how far it is
  saw,          \* the revision, or the tables, that it found as it began
  work,         \* the tables inside its transaction
  got,          \* how many of the locks that it needs it holds
  written       \* the rows inside its transaction

database == <<tables, stamp, demo, samples>>
scripts == <<job, step, saw, work, got, written>>
schemaVars == <<environment, database, serving, downgraded, scripts>>

Jobs == {"start", "seed", "upgrade", "downgrade"}

\* In development everything runs from one checkout.
HeadOf(p) == IF environment = "development" THEN Latest ELSE Revision[p]

NoAccount == [by |-> None, deleted |-> FALSE]

\* The status of each sample task, project by project.
PROJECTS == <<
  <<"DONE", "DONE", "IN_REVIEW", "IN_PROGRESS", "TODO", "TODO">>,
  <<"DONE", "IN_PROGRESS", "IN_REVIEW", "TODO", "TODO", "TODO">> >>

\* The rows of a sample: the project itself (0) and its tasks.
ProjectRow(n) == {<<n, 0>>}
TaskRows(n) == {<<n, i>> : i \in DOMAIN PROJECTS[n]}
Sample == UNION {ProjectRow(n) \cup TaskRows(n) : n \in DOMAIN PROJECTS}

SchemaInit ==
  /\ tables = 0 /\ stamp = 0
  /\ demo = NoAccount /\ samples = {}
  /\ serving = None /\ downgraded = FALSE
  /\ job = [p \in Script |-> "none"]
  /\ step = [p \in Script |-> "idle"]
  /\ saw = [p \in Script |-> 0]
  /\ work = [p \in Script |-> 0]
  /\ got = [p \in Script |-> 0]
  /\ written = [p \in Script |-> {}]

------------------------------------------------------------------------------
(* Beginning and ending.                                                   *)

\* Migrations look at alembic_version, create_all looks for the tables.
Begin(p, j) ==
  /\ step[p] = "idle"
  /\ job' = [job EXCEPT ![p] = j]
  /\ step' = [step EXCEPT ![p] = "begun"]
  /\ saw' = [saw EXCEPT ![p] = IF j \in {"start", "seed"} THEN tables ELSE stamp]
  /\ work' = [work EXCEPT ![p] = stamp]
  /\ UNCHANGED <<got, written>>

Goes(p, s) ==
  /\ step' = [step EXCEPT ![p] = s]
  /\ UNCHANGED <<job, saw>>

\* Mutant: the session is not closed, and keeps its locks.
EndHolding(p) ==
  /\ step' = [step EXCEPT ![p] = "idle"]
  /\ job' = [job EXCEPT ![p] = "none"]
  /\ saw' = [saw EXCEPT ![p] = 0]
  /\ work' = [work EXCEPT ![p] = 0]
  /\ written' = [written EXCEPT ![p] = {}]
  /\ UNCHANGED got

End(p) ==
  /\ step' = [step EXCEPT ![p] = "idle"]
  /\ job' = [job EXCEPT ![p] = "none"]
  /\ saw' = [saw EXCEPT ![p] = 0]
  /\ work' = [work EXCEPT ![p] = 0]
  /\ got' = [got EXCEPT ![p] = 0]
  /\ written' = [written EXCEPT ![p] = {}]

------------------------------------------------------------------------------
(* The locks of PostgreSQL.  Who reads or writes rows of a table shares it, *)
(* who creates, alters or drops it keeps everybody else out.                *)

\* Created, altered and filled from the referred to the referring table, and
\* changed back in the opposite order.
Ascending == <<"users", "projects", "tasks", "comments">>
Descending == <<"comments", "tasks", "projects", "users">>

Reading(p) == step[p] = "inserting"

\* Mutant: create_all goes by the names of the tables.
OrderByName(p) ==
  IF Reading(p) THEN <<"users", "projects", "tasks">>
  ELSE IF job[p] = "downgrade"
       THEN IF saw[p] = Latest THEN Descending ELSE DropOrder
  ELSE IF job[p] = "upgrade" THEN Ascending
  ELSE <<"comments", "projects", "tasks", "users">>

\* The order in which the statements of p's transaction come to the tables.
Order(p) ==
  IF Reading(p) THEN <<"users", "projects", "tasks">>
  ELSE IF job[p] # "downgrade" THEN Ascending
  ELSE IF saw[p] = Latest THEN Descending ELSE DropOrder

All == Len(Ascending)

Locked(p) == {Order(p)[i] : i \in 1..got[p]}

MayAlter(p, t) == \A q \in Script \ {p} : t \notin Locked(q)
MayRead(p, t) == \A q \in Script \ {p} : t \in Locked(q) => Reading(q)

\* The next statement of p that needs the lock of another table.
LockNext(p) ==
  /\ got[p] < All
  /\ MayAlter(p, Order(p)[got[p] + 1])
  /\ got' = [got EXCEPT ![p] = @ + 1]

User == <<0, 0>>

\* Whom a script that holds locks waits for: those who have the next one that
\* it needs, or who have inserted the address that it inserts.
WaitsFor(p) ==
  IF Reading(p) /\ written[p] = {}
  THEN {q \in Script \ {p} : User \in written[q]}
  ELSE {q \in Script \ {p} :
          /\ got[p] \in 1..(Len(Order(p)) - 1)
          /\ Order(p)[got[p] + 1] \in Locked(q)
          /\ ~Reading(p) \/ ~Reading(q)}

\* p waits for itself in the end: PostgreSQL ends one of those who do so.
Deadlocked(p) ==
  /\ WaitsFor(p) # {}
  /\ \A R \in SUBSET Script :
       WaitsFor(p) \subseteq R /\ (\A q \in R : WaitsFor(q) \subseteq R) => p \in R

------------------------------------------------------------------------------
(* alembic upgrade head, alembic downgrade -1.                             *)

\* The revisions that p has to apply, or to revert, from what it saw.
Target(p) == IF job[p] = "upgrade" THEN HeadOf(p) ELSE saw[p] - 1

\* Can its first statement succeed?  The revisions that go up create tables
\* and columns; those that go down drop them, 001 whatever columns there are.
Fits(p) ==
  IF job[p] = "downgrade" THEN saw[p] <= tables ELSE tables = saw[p]

\* Mutant: each statement commits by itself.
AlterAtOnce(p, from, to) ==
  /\ step[p] \in {"begun", "altering"}
  /\ work[p] = from
  /\ step[p] = "begun" => Fits(p)
  /\ \/ LockNext(p) /\ UNCHANGED <<work, tables, downgraded>>
     \/ /\ got[p] = All
        /\ from = saw[p] => stamp = saw[p]
        /\ work' = [work EXCEPT ![p] = to]
        /\ tables' = to
        /\ downgraded' = (downgraded \/ to < from)
        /\ UNCHANGED got
  /\ Goes(p, "altering")
  /\ UNCHANGED <<stamp, demo, samples, serving, written>>

\* A revision: its statements lock the tables one by one, and at last its
\* update of alembic_version finds the stamp that it expects.
Alter(p, from, to) ==
  /\ step[p] \in {"begun", "altering"}
  /\ work[p] = from
  /\ step[p] = "begun" => Fits(p)
  /\ \/ LockNext(p) /\ UNCHANGED work
     \/ /\ got[p] = All
        /\ from = saw[p] => stamp = saw[p]
        /\ work' = [work EXCEPT ![p] = to]
        /\ UNCHANGED got
  /\ Goes(p, "altering")
  /\ UNCHANGED <<database, serving, downgraded, written>>

Known(p) == saw[p] <= HeadOf(p)

Upgrading(p) == job[p] = "upgrade" /\ Known(p) /\ work[p] < Target(p)
Downgrading(p) ==
  job[p] = "downgrade" /\ Known(p) /\ 0 < saw[p] /\ Target(p) < work[p]

Upgrade001(p) == Upgrading(p) /\ Alter(p, 0, 1)
Upgrade002(p) == Upgrading(p) /\ Alter(p, 1, 2)
Downgrade002(p) == Downgrading(p) /\ Alter(p, 2, 1)
Downgrade001(p) == Downgrading(p) /\ Alter(p, 1, 0)

\* Without the column deleted_at nothing is marked, without tables nothing is.
Carried(t) ==
  IF t = 0 THEN NoAccount ELSE [demo EXCEPT !.deleted = @ /\ t = Latest]

\* Has p found something to do?
Migrates(p) ==
  /\ job[p] \in {"upgrade", "downgrade"}
  /\ Known(p)
  /\ job[p] = "downgrade" => 0 < saw[p]

\* The tables and alembic_version change in one transaction.
CommitMigration(p) ==
  /\ Migrates(p)
  /\ step[p] = "altering" /\ got[p] = All /\ work[p] = Target(p)
  /\ tables' = work[p] /\ stamp' = work[p]
  /\ demo' = Carried(work[p])
  /\ samples' = IF work[p] = 0 THEN {} ELSE samples
  /\ downgraded' = (job[p] = "downgrade" \/ (downgraded /\ work[p] < Latest))
  /\ End(p)
  /\ UNCHANGED serving

\* The database is at the head already.
NothingToMigrate(p) ==
  /\ Migrates(p)
  /\ step[p] = "begun" /\ work[p] = Target(p)
  /\ End(p)
  /\ UNCHANGED <<database, serving, downgraded>>

------------------------------------------------------------------------------
(* create_all, the start of the API and seed.py.                           *)

\* create_all makes what it has found missing, table by table, in the shape of
\* the models of its code; it changes no table that is there, and stamps
\* nothing.  Who creates a table waits for another one who has created it.
CreateTable(p) ==
  /\ job[p] \in {"start", "seed"} /\ saw[p] = 0
  /\ step[p] \in {"begun", "altering"}
  /\ step[p] = "begun" => tables = 0
  /\ LockNext(p)
  /\ Goes(p, "altering")
  /\ UNCHANGED <<database, serving, downgraded, work, written>>

CommitTables(p) ==
  /\ \/ step[p] = "altering" /\ got[p] = All /\ tables' = HeadOf(p)
     \/ step[p] = "begun" /\ saw[p] # 0 /\ UNCHANGED tables
  /\ UNCHANGED <<stamp, demo, samples, downgraded>>

\* The lifespan handler of a development API, before it takes requests.
StartApi(p) ==
  /\ job[p] = "start"
  /\ CommitTables(p)
  /\ serving' = p
  /\ End(p)

EnsureTables(p) ==
  /\ job[p] = "seed"
  /\ CommitTables(p)
  /\ Goes(p, "created")
  /\ got' = [got EXCEPT ![p] = 0]
  /\ UNCHANGED <<serving, work, written>>

\* The session begins with the SELECT of the demo user, whether deleted or
\* not: nothing is done if there is one.
FindDemoUser(p) ==
  /\ step[p] = "created"
  /\ MayRead(p, "users") /\ HeadOf(p) <= tables
  /\ \/ /\ demo.by = None
        /\ Goes(p, "inserting")
        /\ got' = [got EXCEPT ![p] = 1]
        /\ UNCHANGED <<work, written>>
     \/ demo.by # None /\ End(p)
  /\ UNCHANGED <<database, serving, downgraded>>

\* The flush of the user: the unique index lets it wait for another insert of
\* the address, and refuses it if that one has committed.
InsertUser(p) ==
  /\ step[p] = "inserting" /\ written[p] = {}
  /\ \A q \in Script : User \notin written[q]
  /\ demo.by = None
  /\ written' = [written EXCEPT ![p] = {User}]
  /\ UNCHANGED <<database, serving, downgraded, job, step, saw, work, got>>

\* Mutant: a commit takes the place of the flush.
InsertProjectCommitting(p, n) ==
  /\ User \in written[p] /\ <<n, 0>> \notin written[p]
  /\ n > 1 => <<n - 1, 0>> \in written[p]
  /\ MayRead(p, Order(p)[n + 1])
  /\ got' = [got EXCEPT ![p] = n + 1]
  /\ written' = [written EXCEPT ![p] =
                   @ \cup ProjectRow(n) \cup (IF n > 1 THEN TaskRows(n - 1) ELSE {})]
  /\ demo' = [demo EXCEPT !.by = p]
  /\ samples' = samples \cup {<<p, r>> : r \in written'[p] \ {User}}
  /\ UNCHANGED <<tables, stamp, serving, downgraded, job, step, saw, work>>

\* The flush of a project, and with it of the tasks of the one before: the
\* first comes to the table of projects, the second to that of tasks as well.
InsertProject(p, n) ==
  /\ User \in written[p] /\ <<n, 0>> \notin written[p]
  /\ n > 1 => <<n - 1, 0>> \in written[p]
  /\ MayRead(p, Order(p)[n + 1])
  /\ got' = [got EXCEPT ![p] = n + 1]
  /\ written' = [written EXCEPT ![p] =
                   @ \cup ProjectRow(n) \cup (IF n > 1 THEN TaskRows(n - 1) ELSE {})]
  /\ UNCHANGED <<database, serving, downgraded, job, step, saw, work>>

\* The commit flushes the last tasks.
CommitSeed(p) ==
  LET last == Len(PROJECTS) IN
  /\ <<last, 0>> \in written[p]
  /\ demo' = [by |-> p, deleted |-> FALSE]
  /\ samples' = samples \cup
                  {<<p, r>> : r \in (written[p] \ {User}) \cup TaskRows(last)}
  /\ End(p)
  /\ UNCHANGED <<tables, stamp, serving, downgraded>>

------------------------------------------------------------------------------
(* Failures.                                                               *)

\* The statement that comes next cannot succeed.  A column that is there is
\* noticed, or missed, only under the lock of the table.
Doomed(p) ==
  \/ step[p] = "begun" /\ job[p] \in {"start", "seed"} /\ saw[p] = 0 /\ tables # 0
  \/ /\ step[p] = "begun" /\ job[p] \in {"upgrade", "downgrade"}
     /\ ~Migrates(p)
  \/ /\ step[p] = "begun" /\ Migrates(p) /\ work[p] # Target(p) /\ ~Fits(p)
     /\ job[p] = "upgrade" /\ saw[p] \in 1..tables => MayAlter(p, "users")
  \/ /\ step[p] = "altering" /\ Migrates(p) /\ got[p] = All
     /\ work[p] = saw[p] /\ stamp # saw[p]
  \/ /\ step[p] = "created" /\ tables < HeadOf(p)
     /\ tables # 0 => MayRead(p, "users")
  \/ step[p] = "inserting" /\ written[p] = {} /\ demo.by # None
  \/ Deadlocked(p)

Raise(p) ==
  /\ Doomed(p)
  /\ End(p)
  /\ UNCHANGED <<database, serving, downgraded>>

\* A script may fail for other reasons at any time, or be stopped.
Crash(p) ==
  /\ step[p] # "idle"
  /\ End(p)
  /\ UNCHANGED <<database, serving, downgraded>>

------------------------------------------------------------------------------
(* The API of a development environment in use.                            *)

StopApi ==
  /\ environment = "development" /\ serving # None
  /\ serving' = None
  /\ UNCHANGED <<database, downgraded, scripts>>

Usable ==
  /\ environment = "development"
  /\ serving # None /\ Latest <= tables
  /\ \A q \in Script : "users" \in Locked(q) => Reading(q)

\* Somebody registers the demo address, or the demo account is deleted.
Register ==
  /\ Usable
  /\ demo.by = None /\ \A q \in Script : User \notin written[q]
  /\ demo' = [by |-> "api", deleted |-> FALSE]
  /\ UNCHANGED <<tables, stamp, samples, serving, downgraded, scripts>>

DeleteAccount ==
  /\ Usable
  /\ demo.by # None /\ ~demo.deleted
  /\ demo' = [demo EXCEPT !.deleted = TRUE]
  /\ UNCHANGED <<tables, stamp, samples, serving, downgraded, scripts>>

------------------------------------------------------------------------------

InsertNext(p) == \E n \in DOMAIN PROJECTS : InsertProject(p, n)

\* What a script does when nothing keeps it from it.
Work(p) ==
  \/ Upgrade001(p) \/ Upgrade002(p) \/ Downgrade002(p) \/ Downgrade001(p)
  \/ CommitMigration(p) \/ NothingToMigrate(p)
  \/ CreateTable(p) \/ StartApi(p) \/ EnsureTables(p) \/ FindDemoUser(p)
  \/ InsertUser(p) \/ InsertNext(p) \/ CommitSeed(p)

Fail(p) == Raise(p) \/ Crash(p)

UseApi == StopApi \/ Register \/ DeleteAccount

------------------------------------------------------------------------------
(* Properties.                                                             *)

\* alembic_version tells the truth: wherever a migration or another script
\* stops, the tables of a stamped database are those of its revision.  Only
\* create_all makes tables that are not stamped, and only in development.
StampMatches ==
  (stamp # 0 \/ environment = "production") => tables = stamp

\* The demo account is whole: seed.py leaves behind everything or nothing,
\* and never twice, however often it is run, at once or after a crash.
DemoWhole ==
  /\ samples = IF demo.by \in Script THEN {demo.by} \X Sample ELSE {}
  /\ samples # {} =>
       \A s \in TaskStatus \ {"CANCELLED"} : \E row \in samples :
         row[2][2] # 0 /\ PROJECTS[row[2][1]][row[2][2]] = s

\* However many scripts run at a time, they keep each other from going on for
\* good only when one of those is a downgrade: creating, upgrading and filling
\* take the tables in one order.  So no release command, no start of the API
\* and no seed is broken off for another one.
DowngradesDeadlock ==
  \A p \in Script : Deadlocked(p) =>
    \E q \in Script : Deadlocked(q) /\ job[q] = "downgrade"
==============================================================================

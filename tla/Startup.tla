------------------------------ MODULE Startup ------------------------------
(***************************************************************************)
(* How the program comes up: InitStore, with the migration of the queue    *)
(* file of early versions (internal/store/migration.go) and that of the    *)
(* database's schema (NewSQLiteStore in sqlite.go), then NewQueueWithStore, *)
(* and then the queue at work (DurableQueue), through crashes at any step. *)
(*                                                                         *)
(* Each statement outside a transaction and each file operation is a step. *)
(* The program that finds an error at its start exits; whoever runs it may *)
(* start it again.  files are the names under which a whole copy of the    *)
(* queue file exists; a copy that a crash cut short is of no use and is    *)
(* written again.  The columns of table jobs that versions 3 to 8 added    *)
(* are numbered in the order of the code; schema, which creates a table    *)
(* only if it is not there, is one step, for a part of it is made whole by *)
(* the next attempt.                                                       *)
(***************************************************************************)
EXTENDS DurableQueue

VARIABLES
    start,      \* where InitStore is
    next,       \* the column or the job the present loop of it is at
    importing,  \* NewSQLiteStore was called by MigrateFromJSON
    files,      \* which of "json", "backup", "corrupt" hold the queue file
    exists,     \* the database file exists
    version,    \* the version recorded in schema_version, 0 for none
    columns,    \* the added columns that table jobs has
    loaded,     \* this version has loaded a queue before (history)
    old,        \* the queue the first start was given, till then (history)
    mishaps     \* what a start that ended early left half done (history)

schemavars == <<exists, version, columns>>
startvars  == <<start, next, importing, files, schemavars, loaded, old, mishaps>>

SchemaVersion == 8

\* The version that added each column.
Since   == <<3, 3, 3, 4, 5, 5, 5, 5, 5, 6, 6, 8>>
Columns == DOMAIN Since
ColumnsOf(v) == {c \in Columns : Since[c] <= v}

\* A queue: the status of its jobs and their order, as a sequence.
NoQueue == [jobs |-> <<>>, order |-> <<>>]
Queues(n) ==
    [jobs : [1 .. n -> Status],
     order : {s \in [1 .. n -> 1 .. n] : \A i, k \in 1 .. n : i # k => s[i] # s[k]}]

Jobs   == DOMAIN old.jobs
Before == {p \in Jobs \X Jobs : \E i, k \in Jobs : i < k /\ p = <<old.order[i], old.order[k]>>}

Goes(to) == start' = to /\ UNCHANGED <<next, importing>>

-----------------------------------------------------------------------------
\* The jobs a version with a database left in it, the running ones of version 5 or
\* later with a phase; the counters came with version 2.
RowsOf(v) ==
    /\ row = [j \in JobId |-> IF j \in Jobs THEN old.jobs[j] ELSE Absent]
    /\ rowPhase = [j \in JobId |-> IF v >= 5 /\ row[j] = "running" THEN "encoding" ELSE NoPhase]
    /\ placed = Jobs
    /\ place = Before
    /\ counters = (v >= 2)
    /\ lifetime = [j \in Shrinking |-> IF v >= 2 /\ row[j] = "complete" THEN 1 ELSE 0]

NoRows ==
    /\ row = [j \in JobId |-> Absent]
    /\ rowPhase = [j \in JobId |-> NoPhase]
    /\ placed = {}
    /\ place = {}
    /\ counters = FALSE
    /\ lifetime = [j \in Shrinking |-> 0]

\* What a first start of this version may find: nothing, the queue file of an early
\* version, or the database of a later one.
StartupInit ==
    /\ \E n \in 0 .. MaxJobs : old \in Queues(n)
    /\ \/ old = NoQueue /\ files = {} /\ exists = FALSE /\ version = 0
       \/ files = {"json"} /\ exists = FALSE /\ version = 0
       \/ files = {} /\ exists = TRUE /\ version \in 1 .. SchemaVersion
    /\ columns = ColumnsOf(version)
    /\ IF exists THEN RowsOf(version) ELSE NoRows
    /\ session = [j \in Shrinking |-> 0]
    /\ missed = {j \in Shrinking \cap Jobs : old.jobs[j] = "complete" /\ lifetime[j] = 0}
    /\ status = [j \in JobId |-> Absent]
    /\ phase = [j \in JobId |-> NoPhase]
    /\ order = {}
    /\ lastId = Cardinality(Jobs)
    /\ writes = <<>> /\ program = "down" /\ failures = 0
    /\ start = "off" /\ next = 1 /\ importing = FALSE
    /\ loaded = FALSE /\ mishaps = {}

-----------------------------------------------------------------------------
(* MigrateFromJSON, up to NewSQLiteStore.                                  *)

\* A step of InitStore: the program is down and at the point named.
At(point) == program = "down" /\ start = point

Errs(half) ==
    /\ failures < MaxFailures
    /\ failures' = failures + 1
    /\ mishaps' = mishaps \cup half

\* Mutant: only the queue file is asked for.
NeedsMigrationAgain == "json" \in files

NeedsMigration == "json" \in files /\ ~exists

Begins ==
    /\ At("off")
    /\ Goes(IF NeedsMigration THEN "read" ELSE "schema")
    /\ UNCHANGED <<qvars, dbvars, runvars, files, schemavars, loaded, old, mishaps>>

\* A file that is empty, or has no job, is only renamed; the error of that is logged.
ReadsNothing ==
    /\ At("read")
    /\ Jobs = {}
    /\ Goes("schema")
    /\ \/ files' = {"backup"} /\ UNCHANGED <<failures, mishaps>>
       \/ Errs({"import"}) /\ UNCHANGED files
    /\ UNCHANGED <<qvars, dbvars, writes, program, schemavars, loaded, old>>

\* handleMigrationFailure: the file is set aside and the program starts without it.
SetsFileAside == files' = (files \ {"json"}) \cup {"corrupt"}

\* The file cannot be read or parsed, or the backup not be written.
MigrationFails ==
    /\ At("read")
    /\ Errs({"import"})
    /\ SetsFileAside
    /\ Goes("schema")
    /\ UNCHANGED <<qvars, dbvars, writes, program, schemavars, loaded, old>>

\* Mutant: the file is renamed, not copied.
Renames ==
    /\ At("read")
    /\ Jobs # {}
    /\ files' = {"backup"}
    /\ start' = "schema"
    /\ importing' = TRUE
    /\ UNCHANGED <<qvars, dbvars, runvars, next, schemavars, loaded, old, mishaps>>

BacksUp ==
    /\ At("read")
    /\ Jobs # {}
    /\ files' = files \cup {"backup"}
    /\ start' = "schema"
    /\ importing' = TRUE
    /\ UNCHANGED <<qvars, dbvars, runvars, next, schemavars, loaded, old, mishaps>>

-----------------------------------------------------------------------------
(* NewSQLiteStore.                                                         *)

\* The tables; a new table jobs has every column.
CreatesSchema ==
    /\ At("schema")
    /\ exists' = TRUE
    /\ columns' = IF exists THEN columns ELSE Columns
    /\ Goes("version")
    /\ UNCHANGED <<qvars, dbvars, runvars, files, version, loaded, old, mishaps>>

\* Where the loop over the columns begins for the version found.
FirstColumn == CHOOSE c \in 1 .. Len(Since) + 1 : \A d \in Columns : d < c <=> Since[d] <= version

\* Mutant: the new version is recorded before the migrations run.
RecordsVersionFirst ==
    /\ At("version")
    /\ version' = SchemaVersion
    /\ start' = IF version = 0 THEN "counters"
                ELSE IF version < SchemaVersion THEN "columns" ELSE "ready"
    /\ next' = FirstColumn
    /\ UNCHANGED <<qvars, dbvars, runvars, importing, files, exists, columns, loaded, old, mishaps>>

\* A database without a version is new: it gets the version, then its counters.  One
\* of an earlier version gets what it lacks.
ChecksVersion ==
    /\ At("version")
    /\ IF version = 0 THEN /\ version' = SchemaVersion
                           /\ Goes("counters")
                      ELSE /\ start' = IF version < SchemaVersion THEN "columns" ELSE "ready"
                           /\ next' = FirstColumn
                           /\ UNCHANGED <<version, importing>>
    /\ UNCHANGED <<qvars, dbvars, runvars, files, exists, columns, loaded, old, mishaps>>

\* INSERT OR IGNORE of the two counters.
InitsCounters ==
    /\ \/ At("counters") /\ Goes("ready")
       \/ At("columns") /\ version < 2 /\ ~counters /\ Goes("columns")
    /\ counters' = TRUE
    /\ UNCHANGED <<qvars, jobvars, lifetime, session, missed, runvars, files, schemavars,
                   loaded, old, mishaps>>

AddsColumn ==
    /\ At("columns")
    /\ version < 2 => counters
    /\ next \in Columns \ columns
    /\ columns' = columns \cup {next}
    /\ next' = next + 1
    /\ UNCHANGED <<qvars, dbvars, runvars, start, importing, files, exists, version,
                   loaded, old, mishaps>>

RecordsVersion ==
    /\ At("columns")
    /\ next = Len(Since) + 1
    /\ version' = SchemaVersion
    /\ Goes("ready")
    /\ UNCHANGED <<qvars, dbvars, runvars, files, exists, columns, loaded, old, mishaps>>

\* What InitStore leaves half done if it ends here.
HalfDone ==
    {m \in {"counters", "columns", "import"} :
        CASE m = "counters" -> start = "counters"
          [] m = "columns"  -> start = "columns" /\ FirstColumn < next
          [] m = "import"   -> importing /\ exists}

\* MigrateFromJSON removes the database it began; the program exits otherwise.
OpenFails ==
    IF importing
    THEN /\ SetsFileAside
         /\ start' = "schema" /\ importing' = FALSE
         /\ row' = [j \in JobId |-> Absent] /\ counters' = FALSE
         /\ exists' = FALSE /\ version' = 0 /\ columns' = {}
         /\ UNCHANGED <<rowPhase, placed, place, lifetime, session, missed, next>>
    ELSE Goes("off") /\ UNCHANGED <<dbvars, schemavars, files>>

\* A column that is there already: an earlier start added it and recorded no version.
FindsColumn ==
    /\ At("columns")
    /\ next \in columns
    /\ OpenFails
    /\ UNCHANGED <<qvars, runvars, loaded, old, mishaps>>

\* Any statement may fail.  The columns added before stay.
StatementFails ==
    /\ \E point \in {"schema", "version", "counters", "columns"} : At(point)
    /\ Errs(IF importing THEN {"import"} ELSE HalfDone)
    /\ OpenFails
    /\ UNCHANGED <<qvars, writes, program, loaded, old>>

-----------------------------------------------------------------------------
(* The rest of MigrateFromJSON, and of InitStore.                          *)

\* SaveJobs: one transaction.
ImportsJobs ==
    /\ At("ready")
    /\ importing
    /\ \/ /\ row' = [j \in JobId |-> IF j \in Jobs THEN old.jobs[j] ELSE row[j]]
          /\ start' = "order" /\ next' = 1
          /\ UNCHANGED <<rowPhase, placed, place, sumvars, failures, importing, files,
                         schemavars, mishaps>>
       \/ Errs({"import"}) /\ OpenFails
    /\ UNCHANGED <<qvars, writes, program, loaded, old>>

\* A place that cannot be given is logged.
ImportsPlace ==
    /\ At("order")
    /\ next <= Cardinality(Jobs)
    /\ \/ AppendToOrder(old.order[next]) /\ UNCHANGED <<failures, mishaps>>
       \/ Errs({"import"}) /\ UNCHANGED jobvars
    /\ next' = next + 1
    /\ UNCHANGED <<qvars, sumvars, writes, program, start, importing, files, schemavars,
                   loaded, old>>

\* The queue file goes; InitStore opens the database again.
RemovesFile ==
    /\ At("order")
    /\ next > Cardinality(Jobs)
    /\ files' = files \ {"json"}
    /\ start' = "schema" /\ importing' = FALSE
    /\ UNCHANGED <<qvars, dbvars, runvars, next, schemavars, loaded, old, mishaps>>

Resets ==
    /\ start = "ready" /\ ~importing
    /\ \/ ResetRunningJobs /\ UNCHANGED startvars
       \/ /\ program = "down"
          /\ failures < MaxFailures /\ failures' = failures + 1
          /\ Goes("off")
          /\ UNCHANGED <<qvars, dbvars, writes, program, files, schemavars, loaded, old, mishaps>>

\* The queue is loaded; from here on it is the database's.
Loads ==
    /\ Load
    /\ loaded' = TRUE /\ old' = NoQueue
    /\ mishaps' = mishaps \ {"import"}
    /\ start' = "off" /\ next' = 1
    /\ UNCHANGED <<importing, files, schemavars>>

Dies ==
    /\ Crash
    /\ start' = "off" /\ next' = 1 /\ importing' = FALSE
    /\ mishaps' = mishaps \cup HalfDone
    /\ UNCHANGED <<files, schemavars, loaded, old>>

Starts ==
    \/ Begins \/ ReadsNothing \/ MigrationFails \/ BacksUp
    \/ CreatesSchema \/ ChecksVersion \/ InitsCounters \/ AddsColumn \/ RecordsVersion
    \/ FindsColumn \/ StatementFails
    \/ ImportsJobs \/ ImportsPlace \/ RemovesFile \/ Resets \/ Loads

StartupNext == Starts \/ Dies \/ (Operates /\ UNCHANGED startvars)

StartupSpec == StartupInit /\ [][StartupNext]_<<dqvars, startvars>>

-----------------------------------------------------------------------------
(* Properties.                                                             *)

\* This version comes up for the first time.
LoadsFirst == loaded' # loaded

\* An upgrade keeps the queue: unless the program died or met an error while it
\* imported the file, the first start of this version comes up with exactly the jobs
\* of the old one, in their order, those that were running pending.
FirstStartHasAll ==
    [][LoadsFirst /\ "import" \notin mishaps =>
          /\ status' = [j \in JobId |-> IF j \notin Jobs THEN Absent
                                        ELSE IF old.jobs[j] = "running" THEN "pending"
                                        ELSE old.jobs[j]]
          /\ order' = Before]_<<dqvars, startvars>>

\* Whatever happens to the import, the old queue is not lost: until the program has
\* loaded a queue, a whole copy of it is in one of the files, or it is in the
\* database, all of it.  And once a queue was loaded nothing is ever imported again,
\* which would bring back jobs that were removed since.
OldQueueSurvives ==
    /\ Jobs = {} \/ files # {} \/ \A j \in Jobs : row[j] # Absent
    /\ loaded => start # "read"

\* A program that is up has the schema of its version, however often it died on the
\* way.  A start fails for the state of the database only if an earlier one ended
\* between the first column it added and the version, and the counters are there
\* unless one ended just before it made them.
SchemaSurvives ==
    /\ program = "up" => version = SchemaVersion /\ columns = Columns
    /\ At("columns") /\ next \in columns => "columns" \in mishaps
    /\ program = "reset" => counters \/ "counters" \in mishaps
=============================================================================

-------------------------- MODULE SchemaMigration ---------------------------
(***************************************************************************)
(* memory/service.py init_db: schema.sql, the version row and the chain of *)
(* migrations.  Every DDL statement commits on its own (the driver opens a *)
(* transaction for INSERT and UPDATE only), so a process dies, or another  *)
(* runs, between any two of them.                                          *)
(***************************************************************************)
EXTENDS DatabaseCallers

CONSTANTS
    Latest,     \* _MEMORY_SCHEMA_VERSION
    OldVersions \* versions of the databases init_db is called on; 0 is no database

ASSUME MigrationAssumption == Latest = 16 /\ OldVersions \subseteq 0..Latest

VARIABLES
    db,        \* [tables, columns, indices, versions]: what the file holds
    finished,  \* ghost: some call has returned
    failed     \* ghost: some call has raised OperationalError

schemaVars == <<db, finished, failed>>

\* versions that added tables to schema.sql
TableVersions == {1, 2, 4, 5, 7, 9, 10, 11, 15, 16}

\* how many columns a migration adds to a table of an earlier version, and to which
AddedBy(v) == CASE v \in {3, 12} -> 1
                [] v \in {6, 14} -> 2
                [] v = 13 -> 3
                [] v = 8 -> 8
                [] OTHER -> 0
HolderOf(v) == CASE v = 8 -> 1
                 [] v \in {3, 6} -> 2
                 [] v = 14 -> 4
                 [] v \in {12, 13} -> 11
                 [] OTHER -> 0

ColumnsOf(v) == {v} \X (1..AddedBy(v))
ColumnsIn(t) == UNION {ColumnsOf(v) : v \in {v \in 1..Latest : HolderOf(v) = t}}

\* migrations that create an index: all but v6
IndexVersions == 3..Latest \ {6}

\* what a database of version v holds
Schema(v) == [tables |-> TableVersions \cap 0..v,
              columns |-> UNION {ColumnsOf(u) : u \in 0..v},
              indices |-> IndexVersions \cap 0..v]

SchemaInit ==
    /\ \E v \in OldVersions :
         db = [tables |-> Schema(v).tables, columns |-> Schema(v).columns,
               indices |-> Schema(v).indices,
               versions |-> IF v = 0 THEN <<>> ELSE <<v>>]
    /\ finished = FALSE /\ failed = FALSE

\* the statement raises: sqlite3.OperationalError ends the call
Fail(c) == Return(c) /\ failed' = TRUE /\ UNCHANGED <<db, finished>>

-----------------------------------------------------------------------------
StartInit(c) ==
    /\ Begin(c, [at |-> "script", todo |-> TableVersions])
    /\ UNCHANGED schemaVars

\* executescript: CREATE TABLE IF NOT EXISTS, with the current columns
CreateTable(c) ==
    LET todo == call[c].todo
        t == CHOOSE t \in todo : \A u \in todo : t <= u
    IN
    /\ Resume(c, "script")
    /\ todo # {}
    /\ db' = IF t \in db.tables THEN db
             ELSE [db EXCEPT !.tables = @ \cup {t}, !.columns = @ \cup ColumnsIn(t)]
    /\ Continue(c, [at |-> "script", todo |-> todo \ {t}])
    /\ UNCHANGED <<finished, failed>>

\* SELECT version: without a row every migration runs
ReadVersion(c) ==
    /\ Resume(c, "script")
    /\ call[c].todo = {}
    /\ IF db.versions # <<>> /\ Head(db.versions) >= Latest
       THEN Return(c) /\ finished' = TRUE
       ELSE /\ LET from == IF db.versions = <<>> THEN 0 ELSE Head(db.versions) IN
               Continue(c, [at |-> "migrate", fresh |-> db.versions = <<>>,
                            v |-> IF from < 3 THEN 3 ELSE from + 1])
            /\ UNCHANGED finished
    /\ UNCHANGED <<db, failed>>

\* mutant: the columns are taken from the version instead of the table
StartMigrationByVersion(c) ==
    LET k == call[c] IN
    /\ Resume(c, "migrate") /\ k.v <= Latest
    /\ Continue(c, [at |-> "alter", fresh |-> k.fresh, v |-> k.v,
                    todo |-> IF k.fresh THEN {} ELSE ColumnsOf(k.v)])
    /\ UNCHANGED schemaVars

\* _migrate_to_v: existing_cols is read once, before the first ALTER
StartMigration(c) ==
    LET k == call[c] IN
    /\ Resume(c, "migrate") /\ k.v <= Latest
    /\ Continue(c, [at |-> "alter", fresh |-> k.fresh, v |-> k.v,
                    todo |-> ColumnsOf(k.v) \ db.columns])
    /\ UNCHANGED schemaVars

\* ALTER TABLE ... ADD COLUMN raises on a column that is there by now
AddColumn(c) ==
    LET k == call[c]
        col == CHOOSE x \in k.todo : \A y \in k.todo : x[2] <= y[2]
    IN
    /\ Resume(c, "alter") /\ k.todo # {}
    /\ IF col \in db.columns THEN Fail(c)
       ELSE /\ db' = [db EXCEPT !.columns = @ \cup {col}]
            /\ Continue(c, [k EXCEPT !.todo = @ \ {col}])
            /\ UNCHANGED <<finished, failed>>

\* CREATE INDEX IF NOT EXISTS, which needs the columns; then the next migration
CreateIndices(c) ==
    LET k == call[c] IN
    /\ Resume(c, "alter") /\ k.todo = {}
    /\ IF ~(ColumnsOf(k.v) \subseteq db.columns) THEN Fail(c)
       ELSE /\ db' = [db EXCEPT !.indices = @ \cup (IndexVersions \cap {k.v})]
            /\ Continue(c, [at |-> "migrate", fresh |-> k.fresh, v |-> k.v + 1])
            /\ UNCHANGED <<finished, failed>>

\* the INSERT of a fresh database, the UPDATE of every version row otherwise
StampVersion(c) ==
    LET k == call[c] IN
    /\ Resume(c, "migrate") /\ k.v > Latest
    /\ db' = [db EXCEPT !.versions = IF k.fresh THEN Append(@, Latest)
                                     ELSE [i \in DOMAIN @ |-> Latest]]
    /\ Return(c)
    /\ finished' = TRUE
    /\ UNCHANGED failed

SchemaStep(c) ==
    \/ StartInit(c) \/ CreateTable(c) \/ ReadVersion(c) \/ StartMigration(c)
    \/ AddColumn(c) \/ CreateIndices(c) \/ StampVersion(c)
    \/ Die(c) /\ UNCHANGED schemaVars

SchemaNext == (\E c \in writers : SchemaStep(c)) /\ UNCHANGED writers

SchemaSpec == CallersInit /\ SchemaInit /\ [][SchemaNext]_<<schemaVars, writers, call>>

-----------------------------------------------------------------------------
(* Properties *)

\* init_db: the version row never promises tables, columns or indices that the
\* file does not have, at whatever statement processes die or race, and a call
\* that returned leaves the complete schema; racing first calls may add two
\* rows, which agree.  Without a race the migration that a crash interrupted can
\* always be run again: no statement raises.
SchemaMatchesVersion ==
    LET holds(v) == /\ Schema(v).tables \subseteq db.tables
                    /\ Schema(v).columns \subseteq db.columns
                    /\ Schema(v).indices \subseteq db.indices
    IN
    /\ \A i \in DOMAIN db.versions : /\ holds(db.versions[i])
                                     /\ db.versions[i] = db.versions[1]
    /\ finished => holds(Latest) /\ db.versions # <<>>
    /\ SingleWriter => ~failed

=============================================================================

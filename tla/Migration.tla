------------------------------- MODULE Migration -------------------------------
(***************************************************************************)
(* init_db and migrate_db of database.py: the legacy table is renamed, missing   *)
(* tables are created, missing columns are added and backfilled. Every local      *)
(* command runs them before its request and every API replica at its start, so    *)
(* several processes may migrate one database at a time, and each may die.        *)
(*                                                                         *)
(* In Postgres the statements of one run are one transaction. In SQLite the       *)
(* driver begins a transaction only before the first UPDATE: each DDL statement     *)
(* before it is committed by itself, and what follows it is committed at the end.  *)
(* One table is modelled, the one that has a legacy name.                      *)
(***************************************************************************)
EXTENDS Naturals, FiniteSets

CONSTANTS
  Processes,  \* processes that open the database
  Columns,    \* columns of the table in this version
  Required,   \* those that are not nullable
  Old,        \* columns of the table in an older version
  Rows,       \* ids of rows
  OldRows,    \* rows that the older version has left
  MaxRuns     \* bound: runs that begin

ASSUME ColumnsAssumption == Required \subseteq Columns /\ Old \subseteq Columns
ASSUME RowsAssumption == OldRows \subseteq Rows

VARIABLES
  dialect,  \* "sqlite" or "postgres"
  disk,     \* what is committed
  pending,  \* what the open transaction has made of it
  writer,   \* the process whose transaction is open
  proc,     \* proc[p]: what process p is doing
  runs,     \* runs that have begun
  torn      \* columns that stay on disk though their backfill was lost

vars == <<dialect, disk, pending, writer, proc, runs, torn>>

-----------------------------------------------------------------------------

Tables == {"none", "agent_runs", "sessions"}

\* A value is missing, made up by the migration, or given by whoever inserted the row.
Values == {"null", "backfilled", "given"}

Databases ==
  [table : Tables, columns : SUBSET Columns, rows : SUBSET Rows,
   data : [Rows -> [Columns -> Values]]]

\* A row that was inserted by a version that had the columns in C.
Given(C) == [c \in Columns |-> IF c \in C THEN "given" ELSE "null"]

Fresh == [table |-> "none", columns |-> {}, rows |-> {}, data |-> [r \in Rows |-> Given({})]]

\* A database of the older version, under the table's old or present name.
Legacy(t) ==
  [table |-> t, columns |-> Old, rows |-> OldRows, data |-> [r \in Rows |-> Given(Old)]]

NoProcess == "none"

ASSUME ProcessesAssumption == NoProcess \notin Processes

NoColumn == "none"

\* todo: the missing columns that are still to be added; column: the one to fill; bare: a
\* column that p has added, and committed, without having committed its backfill.
At(step) == [at |-> step, todo |-> {}, column |-> NoColumn, bare |-> {}]

Running(p) == proc[p].at \notin {"idle", "done", "failed"}

Init ==
  /\ dialect \in {"sqlite", "postgres"}
  /\ disk \in {Fresh, Legacy("agent_runs"), Legacy("sessions")}
  /\ pending = disk
  /\ writer = NoProcess
  /\ proc = [p \in Processes |-> At("idle")]
  /\ runs = 0
  /\ torn = {}

-----------------------------------------------------------------------------
(* Statements.                                                              *)

\* What p sees.
View(p) == IF writer = p THEN pending ELSE disk

Becomes(p, r) == proc' = [proc EXCEPT ![p] = r]

\* p reads and goes on.
Reads(p, r) == Becomes(p, r) /\ UNCHANGED <<dialect, disk, pending, writer, runs, torn>>

\* Whether a statement of p is part of a transaction.
InTransaction(p, update) == dialect = "postgres" \/ update \/ writer = p

\* p changes the database to new and goes on. It waits while another process has a
\* transaction open.
Statement(p, update, new, r) ==
  /\ writer \in {NoProcess, p}
  /\ IF InTransaction(p, update)
       THEN pending' = new /\ writer' = p /\ UNCHANGED disk
       ELSE disk' = new /\ UNCHANGED <<pending, writer>>
  /\ Becomes(p, r)
  /\ UNCHANGED <<dialect, runs, torn>>

\* Mutated form: what the run has done so far is kept.
CutOff_Commits(p) ==
  /\ Becomes(p, At("failed"))
  /\ disk' = View(p)
  /\ writer' = IF writer = p THEN NoProcess ELSE writer
  /\ torn' = torn \cup proc[p].bare
  /\ UNCHANGED <<dialect, pending, runs>>

\* p's run ends here, by an error or by its death; a transaction is rolled back.
CutOff(p) ==
  /\ Becomes(p, At("failed"))
  /\ writer' = IF writer = p THEN NoProcess ELSE writer
  /\ torn' = torn \cup proc[p].bare
  /\ UNCHANGED <<dialect, disk, pending, runs>>

\* The statement is an error if what p has read is no longer true; in Postgres it
\* waits for the other transaction first.
FailsUnless(p, ok, action) ==
  IF ok THEN action ELSE writer \in {NoProcess, p} /\ CutOff(p)

-----------------------------------------------------------------------------
(* One run of init_db or migrate_db.                                          *)

\* _rename_legacy_tables looks for both names.
Begin(p) ==
  /\ ~Running(p)
  /\ runs < MaxRuns
  /\ runs' = runs + 1
  /\ Becomes(p, At(IF disk.table = "agent_runs" THEN "rename" ELSE "check"))
  /\ UNCHANGED <<dialect, disk, pending, writer, torn>>

Rename(p) ==
  /\ proc[p].at = "rename"
  /\ FailsUnless(p, View(p).table = "agent_runs",
       Statement(p, FALSE, [View(p) EXCEPT !.table = "sessions"], At("check")))

\* Base.metadata.create_all looks for the table.
Check(p) ==
  /\ proc[p].at = "check"
  /\ Reads(p, At(IF View(p).table = "sessions" THEN "inspect" ELSE "create"))

Create(p) ==
  /\ proc[p].at = "create"
  /\ FailsUnless(p, View(p).table # "sessions",
       Statement(p, FALSE, [View(p) EXCEPT !.table = "sessions", !.columns = Columns],
                 At("inspect")))

\* Mutated form: nullable columns are not looked for.
Inspect_Required(p) ==
  /\ proc[p].at = "inspect"
  /\ Reads(p, [At("alter") EXCEPT !.todo = Required \ View(p).columns])

\* _add_missing_columns: which columns are there.
Inspect(p) ==
  /\ proc[p].at = "inspect"
  /\ Reads(p, [At("alter") EXCEPT !.todo = Columns \ View(p).columns])

\* A column is added as nullable; the order of the columns makes no difference.
Alter(p) ==
  /\ proc[p].at = "alter"
  /\ \E c \in proc[p].todo :
       FailsUnless(p, c \notin View(p).columns,
         Statement(p, FALSE, [View(p) EXCEPT !.columns = @ \cup {c}],
           IF c \in Required
             THEN [proc[p] EXCEPT !.at = "backfill", !.todo = @ \ {c}, !.column = c,
                                  !.bare = IF InTransaction(p, FALSE) THEN @ ELSE {c}]
             ELSE [proc[p] EXCEPT !.todo = @ \ {c}]))

\* Mutated form: without WHERE ... IS NULL.
Filled_All(d, c) == [d EXCEPT !.data = [r \in Rows |->
  IF r \in d.rows THEN [d.data[r] EXCEPT ![c] = "backfilled"] ELSE d.data[r]]]

\* UPDATE ... WHERE column IS NULL.
Filled(d, c) == [d EXCEPT !.data = [r \in Rows |->
  IF r \in d.rows /\ d.data[r][c] = "null" THEN [d.data[r] EXCEPT ![c] = "backfilled"]
                                           ELSE d.data[r]]]

Backfill(p) ==
  /\ proc[p].at = "backfill"
  /\ Statement(p, TRUE, Filled(View(p), proc[p].column), [proc[p] EXCEPT !.at = "alter", !.column = NoColumn])

\* The end of engine.begin(): what is pending is committed.
Commit(p) ==
  /\ proc[p].at = "alter" /\ proc[p].todo = {}
  /\ disk' = View(p)
  /\ writer' = IF writer = p THEN NoProcess ELSE writer
  /\ Becomes(p, At("done"))
  /\ UNCHANGED <<dialect, pending, runs, torn>>

\* In SQLite a statement gives up after some seconds: the database is locked.
Locked(p) ==
  /\ dialect = "sqlite"
  /\ writer \notin {NoProcess, p}
  /\ proc[p].at \in {"rename", "create", "backfill"} \/ (proc[p].at = "alter" /\ proc[p].todo # {})
  /\ CutOff(p)

Die(p) == Running(p) /\ CutOff(p)

-----------------------------------------------------------------------------

\* The request for which the database was opened inserts a row, with every column.
Insert(p) ==
  /\ proc[p].at = "done"
  /\ writer = NoProcess
  /\ \E r \in Rows \ disk.rows :
       disk' = [disk EXCEPT !.rows = @ \cup {r}, !.data[r] = Given(disk.columns)]
  /\ UNCHANGED <<dialect, pending, writer, proc, runs, torn>>

Next ==
  \E p \in Processes :
    \/ Begin(p) \/ Rename(p) \/ Check(p) \/ Create(p) \/ Inspect(p) \/ Alter(p)
    \/ Backfill(p) \/ Commit(p) \/ Locked(p) \/ Die(p) \/ Insert(p)

Spec == Init /\ [][Next]_vars

-----------------------------------------------------------------------------
(* Properties.                                                              *)

Procs ==
  [at : {"idle", "rename", "check", "create", "inspect", "alter", "backfill", "done", "failed"},
   todo : SUBSET Columns, column : Columns \cup {NoColumn}, bare : SUBSET Columns]

TypeOK ==
  /\ dialect \in {"sqlite", "postgres"}
  /\ disk \in Databases /\ pending \in Databases
  /\ writer \in Processes \cup {NoProcess}
  /\ proc \in [Processes -> Procs]
  /\ runs \in Nat
  /\ torn \subseteq Columns

\* A process whose run has ended without an error finds the table under its name and
\* with every column, whatever other processes did in the meantime.
DoneMeansMigrated ==
  \A p \in Processes :
    proc[p].at = "done" => disk.table = "sessions" /\ disk.columns = Columns

\* A row without a value in a column that is not nullable: only in SQLite, until the run
\* that added the column commits, or because that run was cut off before; no later run
\* fills it, since _add_missing_columns looks for missing columns only.
NullsExplained ==
  \A r \in disk.rows, c \in disk.columns \cap Required :
    disk.data[r][c] = "null" =>
      dialect = "sqlite" /\ (c \in torn \/ \E p \in Processes : c \in proc[p].bare)

\* No migration loses a row or overwrites a value that was given, also one that another
\* process gives to a new column before the run that added the column has filled it.
RowsSurvive ==
  [][\A r \in disk.rows :
       /\ r \in disk'.rows
       /\ \A c \in Columns : disk.data[r][c] = "given" => disk'.data[r][c] = "given"]_vars

=============================================================================

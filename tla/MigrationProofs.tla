---------------------------- MODULE MigrationProofs ----------------------------
(***************************************************************************)
(* The properties of Migration, for any processes, columns and rows and any      *)
(* number of runs. The invariant says what each process may rely on of the         *)
(* database it sees, and which column may be empty in it; one lemma covers all        *)
(* statements, whether they are committed alone or in a transaction.               *)
(***************************************************************************)
EXTENDS Migration, TLAPS

\* E may follow D: nothing of D is lost.
Later(D, E) ==
  /\ D.table = "sessions" => E.table = "sessions"
  /\ D.table # "agent_runs" => E.table # "agent_runs"
  /\ D.columns \subseteq E.columns /\ D.rows \subseteq E.rows
  /\ \A r \in D.rows, c \in Columns : D.data[r][c] = "given" => E.data[r][c] = "given"

\* What a process that is at r has established of the database D.
Fits(r, D) ==
  /\ r.at \notin {"idle", "rename", "failed"} => D.table # "agent_runs"
  /\ r.at \in {"inspect", "alter", "backfill", "done"} => D.table = "sessions"
  /\ r.at \in {"alter", "backfill"} => Columns \ r.todo \subseteq D.columns
  /\ r.at = "backfill" => r.column \in Columns
  /\ r.at = "done" => Columns \subseteq D.columns

\* A table that is not there has no rows.
NoRows(D) == D.table = "none" => D.rows = {}

Null(D, c) == c \in D.columns \cap Required /\ \E r \in D.rows : D.data[r][c] = "null"

\* Others than p have lost the backfill of c, or may lose it.
OthersLeft(p, c) == c \in torn \/ \E q \in Processes \ {p} : c \in proc[q].bare

Positions == \A p \in Processes : Fits(proc[p], View(p))

\* A transaction belongs to a run, and loses nothing.
Transaction ==
  writer # NoProcess =>
    /\ Running(writer) /\ Later(disk, pending) /\ NoRows(pending)
    /\ \A c \in Columns :
         Null(pending, c) => \/ OthersLeft(writer, c)
                             \/ proc[writer].at = "backfill" /\ proc[writer].column = c

\* A column is bare until its backfill is committed; before the backfill it is the last one
\* that was added.
BareColumns ==
  \A p \in Processes :
    proc[p].bare # {} =>
      /\ proc[p].at \in {"alter", "backfill"}
      /\ writer = p \/ (proc[p].at = "backfill" /\ proc[p].bare = {proc[p].column})

DiskNulls ==
  \A c \in Columns : Null(disk, c) => c \in torn \/ \E p \in Processes : c \in proc[p].bare

PostgresAtomic == dialect = "postgres" => torn = {} /\ \A p \in Processes : proc[p].bare = {}

MigInv ==
  TypeOK /\ Positions /\ Transaction /\ NoRows(disk) /\ BareColumns /\ DiskNulls /\ PostgresAtomic

-----------------------------------------------------------------------------

LEMMA LaterTransitive ==
  ASSUME NEW D \in Databases, NEW E \in Databases, NEW F \in Databases, Later(D, E), Later(E, F)
  PROVE  Later(D, F)
BY DEF Later

LEMMA LaterReflexive == \A D \in Databases : Later(D, D)
BY DEF Later

LEMMA FitsLater ==
  ASSUME NEW r \in Procs, NEW D \in Databases, NEW E \in Databases, Fits(r, D), Later(D, E)
  PROVE  Fits(r, E)
BY DEF Fits, Later

LEMMA GivenTyped == \A C : Given(C) \in [Columns -> Values]
BY DEF Given, Values

LEMMA AtTyped ==
  ASSUME NEW s \in {"idle", "rename", "check", "create", "inspect", "alter", "done", "failed"}
  PROVE  At(s) \in Procs /\ At(s).at = s /\ At(s).bare = {} /\ At(s).todo = {}
BY DEF At, Procs

LEMMA ViewTyped == ASSUME TypeOK, NEW p \in Processes PROVE View(p) \in Databases
BY DEF TypeOK, View

LEMMA Initially == Init => MigInv
<1> SUFFICES ASSUME Init PROVE MigInv
  OBVIOUS
<1>1. /\ disk \in Databases /\ NoRows(disk) /\ \A c \in Columns : ~Null(disk, c)
  <2>1. CASE disk = Fresh
    <3>1. [r \in Rows |-> Given({})] \in [Rows -> [Columns -> Values]]
      BY GivenTyped
    <3> QED BY <2>1, <3>1 DEF Fresh, Databases, Tables, NoRows, Null
  <2>2. ASSUME NEW t \in {"agent_runs", "sessions"}, disk = Legacy(t)
        PROVE  disk \in Databases /\ NoRows(disk) /\ \A c \in Columns : ~Null(disk, c)
    <3>1. [r \in Rows |-> Given(Old)] \in [Rows -> [Columns -> Values]]
      BY GivenTyped
    <3>2. \A r \in OldRows, c \in Old : [x \in Rows |-> Given(Old)][r][c] = "given"
      BY ColumnsAssumption, RowsAssumption DEF Given
    <3> QED BY <2>2, <3>1, <3>2, ColumnsAssumption, RowsAssumption
      DEF Legacy, Databases, Tables, NoRows, Null
  <2> QED BY <2>1, <2>2 DEF Init
<1>2. At("idle") \in Procs /\ At("idle").at = "idle" /\ At("idle").bare = {}
  BY AtTyped
<1>3. proc \in [Processes -> Procs] /\ \A p \in Processes : proc[p] = At("idle")
  BY <1>2 DEF Init
<1> HIDE DEF At
<1>4. TypeOK
  BY <1>1, <1>3 DEF Init, TypeOK
<1>5. Positions /\ Transaction /\ BareColumns /\ DiskNulls /\ PostgresAtomic
  BY <1>1, <1>2, <1>3 DEF Init, Positions, Fits, Transaction, BareColumns, DiskNulls, PostgresAtomic
<1> QED BY <1>1, <1>4, <1>5 DEF MigInv

\* What p sees is empty only where others have left it so, unless p is about to fill it.
LEMMA NullsSeen ==
  ASSUME MigInv, NEW p \in Processes, NEW c \in Columns, Null(View(p), c)
  PROVE  OthersLeft(p, c) \/ (proc[p].at = "backfill" /\ proc[p].column = c)
<1>1. CASE writer = p
  BY <1>1, ProcessesAssumption DEF MigInv, Transaction, View
<1>2. CASE writer # p
  BY <1>2 DEF MigInv, DiskNulls, BareColumns, View, OthersLeft
<1> QED BY <1>1, <1>2

\* A statement that loses nothing, and what its process may rely on after it.
LEMMA StatementKeeps ==
  ASSUME MigInv, NEW p \in Processes, Running(p), NEW update \in BOOLEAN, NEW new \in Databases,
         NEW r \in Procs, Statement(p, update, new, r),
         r.at \notin {"idle", "done", "failed"}, Fits(r, new), Later(View(p), new), NoRows(new),
         r.bare # {} => r.at \in {"alter", "backfill"},
         IF InTransaction(p, update)
           THEN r.bare = proc[p].bare
           ELSE r.bare = {} \/ (r.at = "backfill" /\ r.bare = {r.column}),
         \A c \in Columns : Null(new, c) =>
           \/ OthersLeft(p, c)
           \/ r.at = "backfill" /\ r.column = c /\ (InTransaction(p, update) \/ c \in r.bare)
  PROVE  MigInv' /\ Later(disk, disk')
<1>0. TypeOK /\ Positions /\ Transaction /\ NoRows(disk) /\ BareColumns /\ DiskNulls /\ PostgresAtomic
  BY DEF MigInv
<1>1. /\ writer \in {NoProcess, p}
      /\ UNCHANGED <<dialect, runs, torn>>
      /\ proc' \in [Processes -> Procs] /\ proc'[p] = r
      /\ \A q \in Processes \ {p} : proc'[q] = proc[q]
  BY <1>0 DEF Statement, Becomes, TypeOK
<1>2. \A c : OthersLeft(p, c) => OthersLeft(p, c)'
  BY <1>1 DEF OthersLeft
<1>3. disk \in Databases /\ pending \in Databases /\ View(p) \in Databases
  BY <1>0, ViewTyped DEF TypeOK
<1>4. CASE InTransaction(p, update)
  <2>1. pending' = new /\ writer' = p /\ disk' = disk
    BY <1>4 DEF Statement
  <2>2. TypeOK'
    BY <1>0, <1>1, <2>1 DEF TypeOK
  <2>3. View(p)' = new /\ \A q \in Processes \ {p} : View(q)' = View(q)
    BY <1>1, <2>1, ProcessesAssumption DEF View
  <2>4. Positions'
    BY <1>0, <1>1, <2>3 DEF Positions
  <2>5. Later(disk, View(p))
    BY <1>0, <1>3, LaterReflexive, ProcessesAssumption DEF Transaction, View
  <2>6. Later(disk, new)
    BY <1>3, <2>5, LaterTransitive
  <2>7. Transaction'
    BY <1>1, <1>2, <2>1, <2>6 DEF Transaction, Running, Null, NoRows, Later
  <2>8. BareColumns' /\ PostgresAtomic'
    BY <1>0, <1>1, <1>4, <2>1, ProcessesAssumption DEF BareColumns, PostgresAtomic
  <2>9. DiskNulls'
    BY <1>0, <1>1, <1>4, <2>1 DEF DiskNulls, Null
  <2> QED BY <1>0, <1>3, <2>1, <2>2, <2>4, <2>7, <2>8, <2>9, LaterReflexive DEF MigInv, NoRows
<1>5. CASE ~InTransaction(p, update)
  <2>1. disk' = new /\ pending' = pending /\ writer' = writer /\ writer = NoProcess
    BY <1>1, <1>5 DEF Statement, InTransaction
  <2>2. View(p) = disk /\ \A q \in Processes : View(q) = disk /\ View(q)' = new
    BY <2>1, ProcessesAssumption DEF View
  <2>3. TypeOK'
    BY <1>0, <1>1, <2>1 DEF TypeOK
  <2>4. Positions'
    BY <1>0, <1>1, <1>3, <2>2, FitsLater DEF Positions, TypeOK
  <2>5. Transaction'
    BY <2>1 DEF Transaction
  <2>6. BareColumns'
    BY <1>0, <1>1, <1>5, <2>1, ProcessesAssumption DEF BareColumns
  <2>7. PostgresAtomic'
    BY <1>1, <1>5 DEF PostgresAtomic, InTransaction
  <2>8. DiskNulls'
    <3> SUFFICES ASSUME NEW c \in Columns, Null(new, c)
                 PROVE  c \in torn \/ \E q \in Processes : c \in proc'[q].bare
      BY <1>1, <2>1 DEF DiskNulls, Null
    <3> QED BY <1>1, <1>5 DEF OthersLeft
  <2> QED BY <2>1, <2>2, <2>3, <2>4, <2>5, <2>6, <2>7, <2>8 DEF MigInv, NoRows
<1> QED BY <1>4, <1>5

\* A run that is cut off: what it left bare is torn.
LEMMA CutOffKeeps ==
  ASSUME MigInv, NEW p \in Processes, Running(p), CutOff(p)
  PROVE  MigInv' /\ Later(disk, disk')
<1>0. TypeOK /\ Positions /\ Transaction /\ NoRows(disk) /\ BareColumns /\ DiskNulls /\ PostgresAtomic
  BY DEF MigInv
<1>1. At("failed") \in Procs /\ At("failed").at = "failed" /\ At("failed").bare = {}
  BY AtTyped
<1>2. /\ UNCHANGED <<dialect, disk, pending, runs>> /\ torn' = torn \cup proc[p].bare
      /\ writer' = IF writer = p THEN NoProcess ELSE writer
      /\ proc' \in [Processes -> Procs] /\ proc'[p] = At("failed")
      /\ \A q \in Processes \ {p} : proc'[q] = proc[q]
  BY <1>0, <1>1 DEF CutOff, Becomes, TypeOK
<1> HIDE DEF At
<1>3. TypeOK'
  BY <1>0, <1>2 DEF TypeOK, Procs
<1>4. \A q \in Processes \ {p} : View(q)' = View(q)
  BY <1>2, ProcessesAssumption DEF View
<1>5. Positions'
  <2>1. Fits(At("failed"), View(p)')
    BY <1>1 DEF Fits
  <2> QED BY <1>0, <1>2, <1>4, <2>1 DEF Positions
<1>6. Transaction'
  <2> SUFFICES ASSUME writer' # NoProcess PROVE Transaction'
    BY DEF Transaction
  <2>1. writer' = writer /\ writer \in Processes \ {p} /\ proc'[writer] = proc[writer]
    BY <1>0, <1>2 DEF TypeOK
  <2>2. \A c : OthersLeft(writer, c) => OthersLeft(writer, c)'
    BY <1>2, <2>1 DEF OthersLeft
  <2> QED BY <1>0, <1>2, <2>1, <2>2 DEF Transaction, Running, Null, NoRows, Later
<1>7. BareColumns' /\ PostgresAtomic'
  BY <1>0, <1>1, <1>2 DEF BareColumns, PostgresAtomic
<1>8. DiskNulls'
  BY <1>0, <1>2 DEF DiskNulls, Null
<1> QED BY <1>0, <1>2, <1>3, <1>5, <1>6, <1>7, <1>8, LaterReflexive DEF MigInv, NoRows, TypeOK

\* p goes on to r without a change of the database.
LEMMA GoesOnKeeps ==
  ASSUME MigInv, NEW p \in Processes, NEW r \in Procs, Becomes(p, r),
         UNCHANGED <<dialect, disk, pending, writer, torn>>, runs' \in Nat,
         proc[p].at # "backfill", proc[p].bare = {}, r.bare = {}, Fits(r, View(p)),
         r.at \notin {"idle", "done", "failed"}
  PROVE  MigInv' /\ Later(disk, disk')
<1>0. TypeOK /\ Positions /\ Transaction /\ NoRows(disk) /\ BareColumns /\ DiskNulls /\ PostgresAtomic
  BY DEF MigInv
<1>1. /\ proc' \in [Processes -> Procs] /\ proc'[p] = r
      /\ \A q \in Processes \ {p} : proc'[q] = proc[q]
      /\ \A q \in Processes : proc'[q].bare = proc[q].bare
  BY <1>0 DEF Becomes, TypeOK
<1>2. TypeOK'
  BY <1>0, <1>1 DEF TypeOK
<1>3. \A q \in Processes : View(q)' = View(q)
  BY DEF View
<1>4. Positions'
  BY <1>0, <1>1, <1>3 DEF Positions
<1>5. Transaction'
  <2> SUFFICES ASSUME writer # NoProcess PROVE Transaction'
    BY DEF Transaction
  <2>1. \A c : OthersLeft(writer, c) => OthersLeft(writer, c)'
    BY <1>1 DEF OthersLeft
  <2>2. writer \in Processes
    BY <1>0 DEF TypeOK
  <2> QED BY <1>0, <1>1, <2>1, <2>2 DEF Transaction, Running, Null, NoRows, Later
<1>6. BareColumns' /\ PostgresAtomic'
  BY <1>0, <1>1 DEF BareColumns, PostgresAtomic
<1>7. DiskNulls'
  BY <1>0, <1>1 DEF DiskNulls, Null
<1> QED BY <1>0, <1>2, <1>4, <1>5, <1>6, <1>7, LaterReflexive DEF MigInv, NoRows, TypeOK

-----------------------------------------------------------------------------
(* The actions.                                                              *)

LEMMA BeginKeeps ==
  ASSUME MigInv, NEW p \in Processes, Begin(p)
  PROVE  MigInv' /\ Later(disk, disk')
<1>1. writer # p /\ proc[p].bare = {} /\ proc[p].at # "backfill"
  BY ProcessesAssumption DEF Begin, Running, MigInv, Transaction, BareColumns
<1>2. \A s \in {"rename", "check"} : At(s) \in Procs /\ At(s).at = s /\ At(s).bare = {}
  BY AtTyped
<1> DEFINE s == IF disk.table = "agent_runs" THEN "rename" ELSE "check"
<1>3. Becomes(p, At(s)) /\ UNCHANGED <<dialect, disk, pending, writer, torn>> /\ runs' = runs + 1
  BY DEF Begin
<1> HIDE DEF At
<1>4. Fits(At(s), View(p))
  BY <1>1, <1>2 DEF Fits, View
<1> QED BY <1>1, <1>2, <1>3, <1>4, GoesOnKeeps DEF MigInv, TypeOK

\* In these steps p has no bare column.
LEMMA NotBare ==
  ASSUME MigInv, NEW p \in Processes, proc[p].at \notin {"alter", "backfill"}
  PROVE  proc[p].bare = {}
BY DEF MigInv, BareColumns

LEMMA CheckKeeps ==
  ASSUME MigInv, NEW p \in Processes, Check(p)
  PROVE  MigInv' /\ Later(disk, disk')
<1>1. \A s \in {"create", "inspect"} : At(s) \in Procs /\ At(s).at = s /\ At(s).bare = {}
  BY AtTyped
<1> DEFINE s == IF View(p).table = "sessions" THEN "inspect" ELSE "create"
<1>2. proc[p].at = "check" /\ Becomes(p, At(s))
      /\ UNCHANGED <<dialect, disk, pending, writer, runs, torn>>
  BY DEF Check, Reads
<1> HIDE DEF At
<1>3. Fits(At(s), View(p))
  BY <1>1, <1>2 DEF Fits, MigInv, Positions
<1> QED BY <1>1, <1>2, <1>3, NotBare, GoesOnKeeps DEF MigInv, TypeOK

LEMMA InspectKeeps ==
  ASSUME MigInv, NEW p \in Processes, Inspect(p)
  PROVE  MigInv' /\ Later(disk, disk')
<1> DEFINE r == [At("alter") EXCEPT !.todo = Columns \ View(p).columns]
<1>1. proc[p].at = "inspect" /\ Becomes(p, r)
      /\ UNCHANGED <<dialect, disk, pending, writer, runs, torn>>
  BY DEF Inspect, Reads
<1>2. r \in Procs /\ r.at = "alter" /\ r.bare = {} /\ r.todo = Columns \ View(p).columns
  BY DEF At, Procs
<1> HIDE DEF r
<1>3. Fits(r, View(p))
  BY <1>1, <1>2 DEF Fits, MigInv, Positions
<1> QED BY <1>1, <1>2, <1>3, NotBare, GoesOnKeeps DEF MigInv, TypeOK

\* A statement whose process has no bare column before or after it, and which sees no
\* column that it could leave empty.
LEMMA PlainStatement ==
  ASSUME MigInv, NEW p \in Processes, NEW s \in {"check", "inspect"}, NEW new \in Databases,
         proc[p].at \in {"rename", "create"}, Statement(p, FALSE, new, At(s)),
         Fits(At(s), new), Later(View(p), new), NoRows(new),
         \A c \in Columns : Null(new, c) => OthersLeft(p, c)
  PROVE  MigInv' /\ Later(disk, disk')
<1>1. At(s) \in Procs /\ At(s).at = s /\ At(s).bare = {}
  BY AtTyped
<1>2. Running(p) /\ proc[p].bare = {}
  BY NotBare DEF Running
<1> HIDE DEF At
<1> QED BY <1>1, <1>2, StatementKeeps

LEMMA RenameKeeps ==
  ASSUME MigInv, NEW p \in Processes, Rename(p)
  PROVE  MigInv' /\ Later(disk, disk')
<1>0. proc[p].at = "rename" /\ Running(p)
  BY DEF Rename, Running
<1>1. CASE View(p).table = "agent_runs"
  <2> DEFINE new == [View(p) EXCEPT !.table = "sessions"]
  <2>1. Statement(p, FALSE, new, At("check"))
    BY <1>1 DEF Rename, FailsUnless
  <2>2. /\ new \in Databases /\ new.table = "sessions" /\ new.columns = View(p).columns
        /\ new.rows = View(p).rows /\ new.data = View(p).data
    BY ViewTyped DEF MigInv, Databases, Tables
  <2> HIDE DEF new
  <2>3. Fits(At("check"), new) /\ NoRows(new)
    BY <2>2, AtTyped DEF Fits, NoRows
  <2>4. Later(View(p), new)
    BY <1>1, <2>2 DEF Later
  <2>5. \A c \in Columns : Null(new, c) => OthersLeft(p, c)
    BY <1>0, <2>2, NullsSeen DEF Null
  <2> QED BY <1>0, <2>1, <2>2, <2>3, <2>4, <2>5, PlainStatement
<1>2. CASE View(p).table # "agent_runs"
  BY <1>0, <1>2, CutOffKeeps DEF Rename, FailsUnless
<1> QED BY <1>1, <1>2

LEMMA CreateKeeps ==
  ASSUME MigInv, NEW p \in Processes, Create(p)
  PROVE  MigInv' /\ Later(disk, disk')
<1>0. proc[p].at = "create" /\ Running(p)
  BY DEF Create, Running
<1>1. CASE View(p).table # "sessions"
  <2> DEFINE new == [View(p) EXCEPT !.table = "sessions", !.columns = Columns]
  <2>1. Statement(p, FALSE, new, At("inspect"))
    BY <1>1 DEF Create, FailsUnless
  <2>2. /\ new \in Databases /\ new.table = "sessions" /\ new.columns = Columns
        /\ new.rows = View(p).rows /\ new.data = View(p).data
    BY ViewTyped DEF MigInv, Databases, Tables
  <2> HIDE DEF new
  <2>3. View(p).table = "none" /\ View(p) \in Databases
    BY <1>0, <1>1, ViewTyped DEF MigInv, Positions, Fits, Databases, Tables
  <2>4. View(p).rows = {}
    BY <2>3, ProcessesAssumption DEF MigInv, Transaction, NoRows, View
  <2>5. Fits(At("inspect"), new) /\ NoRows(new)
    BY <2>2, AtTyped DEF Fits, NoRows
  <2>6. Later(View(p), new)
    BY <1>1, <2>2, <2>3 DEF Later, Databases
  <2>7. \A c \in Columns : ~Null(new, c)
    BY <2>2, <2>4 DEF Null
  <2> QED BY <1>0, <2>1, <2>2, <2>5, <2>6, <2>7, PlainStatement
<1>2. CASE View(p).table = "sessions"
  BY <1>0, <1>2, CutOffKeeps DEF Create, FailsUnless
<1> QED BY <1>1, <1>2

LEMMA AlterKeeps ==
  ASSUME MigInv, NEW p \in Processes, Alter(p)
  PROVE  MigInv' /\ Later(disk, disk')
<1>0. proc[p].at = "alter" /\ Running(p) /\ proc[p] \in Procs
  BY DEF Alter, Running, MigInv, TypeOK
<1> DEFINE r(c) ==
  IF c \in Required
    THEN [proc[p] EXCEPT !.at = "backfill", !.todo = @ \ {c}, !.column = c,
                         !.bare = IF InTransaction(p, FALSE) THEN @ ELSE {c}]
    ELSE [proc[p] EXCEPT !.todo = @ \ {c}]
<1>1. PICK c \in proc[p].todo :
        FailsUnless(p, c \notin View(p).columns,
          Statement(p, FALSE, [View(p) EXCEPT !.columns = @ \cup {c}], r(c)))
  BY DEF Alter
<1>2. CASE c \notin View(p).columns
  <2> DEFINE new == [View(p) EXCEPT !.columns = @ \cup {c}]
  <2>0. Statement(p, FALSE, new, r(c)) /\ c \in Columns
    BY <1>0, <1>1, <1>2 DEF FailsUnless, Procs
  <2>1. /\ r(c) \in Procs /\ r(c).todo = proc[p].todo \ {c}
        /\ c \in Required => /\ r(c).at = "backfill" /\ r(c).column = c
                             /\ r(c).bare = IF InTransaction(p, FALSE) THEN proc[p].bare ELSE {c}
        /\ c \notin Required => r(c).at = "alter" /\ r(c).bare = proc[p].bare
    BY <1>0, <2>0 DEF Procs
  <2>2. /\ new \in Databases /\ new.table = View(p).table /\ new.columns = View(p).columns \cup {c}
        /\ new.rows = View(p).rows /\ new.data = View(p).data
    BY <2>0, ViewTyped DEF MigInv, Databases
  <2> HIDE DEF new, r
  <2>3. Fits(proc[p], View(p))
    BY DEF MigInv, Positions
  <2>4. Fits(r(c), new)
    BY <1>0, <2>0, <2>1, <2>2, <2>3 DEF Fits
  <2>5. Later(View(p), new)
    BY <2>2 DEF Later
  <2>6. NoRows(new)
    BY <1>0, <2>2, <2>3 DEF Fits, NoRows
  <2>7. ~InTransaction(p, FALSE) => proc[p].bare = {}
    BY <1>0 DEF MigInv, BareColumns, InTransaction
  <2>8. ASSUME NEW d \in Columns, Null(new, d)
        PROVE  \/ OthersLeft(p, d)
               \/ r(c).at = "backfill" /\ r(c).column = d
                  /\ (InTransaction(p, FALSE) \/ d \in r(c).bare)
    <3>1. CASE d = c
      BY <2>1, <2>8, <3>1 DEF Null
    <3>2. CASE d # c
      <4>1. Null(View(p), d)
        BY <2>2, <2>8, <3>2 DEF Null
      <4>2. OthersLeft(p, d)
        BY <1>0, <4>1, NullsSeen
      <4> QED BY <4>2
    <3> QED BY <3>1, <3>2
  <2>9. r(c).at \in {"alter", "backfill"}
    BY <2>1
  <2>10. IF InTransaction(p, FALSE)
           THEN r(c).bare = proc[p].bare
           ELSE r(c).bare = {} \/ (r(c).at = "backfill" /\ r(c).bare = {r(c).column})
    BY <2>1, <2>7
  <2> QED BY <1>0, <2>0, <2>1, <2>2, <2>4, <2>5, <2>6, <2>8, <2>9, <2>10, StatementKeeps
<1>3. CASE c \in View(p).columns
  BY <1>0, <1>1, <1>3, CutOffKeeps DEF FailsUnless
<1> QED BY <1>2, <1>3

\* UPDATE ... WHERE column IS NULL touches nothing else.
LEMMA FilledColumn ==
  ASSUME NEW D \in Databases, NEW c \in Columns
  PROVE  /\ Filled(D, c) \in Databases /\ Filled(D, c).table = D.table
         /\ Filled(D, c).columns = D.columns /\ Filled(D, c).rows = D.rows
         /\ Later(D, Filled(D, c))
         /\ \A d \in Columns : Null(Filled(D, c), d) => Null(D, d) /\ d # c
<1> DEFINE data == [r \in Rows |->
             IF r \in D.rows /\ D.data[r][c] = "null" THEN [D.data[r] EXCEPT ![c] = "backfilled"]
                                                      ELSE D.data[r]]
<1>1. data \in [Rows -> [Columns -> Values]]
  BY DEF Databases, Values
<1>2. /\ Filled(D, c) \in Databases /\ Filled(D, c).table = D.table
      /\ Filled(D, c).columns = D.columns /\ Filled(D, c).rows = D.rows
      /\ Filled(D, c).data = data
  BY <1>1 DEF Filled, Databases
<1>3. \A r \in D.rows : /\ data[r][c] # "null"
                        /\ \A d \in Columns \ {c} : data[r][d] = D.data[r][d]
                        /\ D.data[r][c] = "given" => data[r][c] = "given"
  BY DEF Databases
<1> HIDE DEF data
<1>4. Later(D, Filled(D, c))
  <2> SUFFICES ASSUME NEW r \in D.rows, NEW d \in Columns, D.data[r][d] = "given"
               PROVE  data[r][d] = "given"
    BY <1>2 DEF Later
  <2> QED BY <1>3
<1>5. \A d \in Columns : Null(Filled(D, c), d) => Null(D, d) /\ d # c
  BY <1>2, <1>3 DEF Null
<1> QED BY <1>2, <1>4, <1>5

LEMMA BackfillKeeps ==
  ASSUME MigInv, NEW p \in Processes, Backfill(p)
  PROVE  MigInv' /\ Later(disk, disk')
<1> DEFINE c == proc[p].column
           new == Filled(View(p), c)
           r == [proc[p] EXCEPT !.at = "alter", !.column = NoColumn]
<1>1. proc[p].at = "backfill" /\ Running(p) /\ Statement(p, TRUE, new, r) /\ InTransaction(p, TRUE)
  BY DEF Backfill, Running, InTransaction
<1>2. Fits(proc[p], View(p)) /\ c \in Columns
  BY <1>1 DEF MigInv, Positions, Fits
<1>3. /\ new \in Databases /\ new.table = View(p).table /\ new.columns = View(p).columns
      /\ new.rows = View(p).rows /\ Later(View(p), new)
      /\ \A d \in Columns : Null(new, d) => Null(View(p), d) /\ d # c
  BY <1>2, ViewTyped, FilledColumn DEF MigInv
<1>4. /\ r \in Procs /\ r.at = "alter" /\ r.todo = proc[p].todo /\ r.bare = proc[p].bare
  BY DEF MigInv, TypeOK, Procs
<1> HIDE DEF new, r
<1>5. Fits(r, new) /\ NoRows(new)
  BY <1>1, <1>2, <1>3, <1>4 DEF Fits, NoRows
<1>6. \A d \in Columns : Null(new, d) => OthersLeft(p, d)
  BY <1>3, NullsSeen
<1> QED BY <1>1, <1>3, <1>4, <1>5, <1>6, StatementKeeps

LEMMA CommitKeeps ==
  ASSUME MigInv, NEW p \in Processes, Commit(p)
  PROVE  MigInv' /\ Later(disk, disk')
<1>0. TypeOK /\ Positions /\ Transaction /\ NoRows(disk) /\ BareColumns /\ DiskNulls /\ PostgresAtomic
  BY DEF MigInv
<1>1. At("done") \in Procs /\ At("done").at = "done" /\ At("done").bare = {}
  BY AtTyped
<1>2. /\ proc[p].at = "alter" /\ proc[p].todo = {} /\ disk' = View(p)
      /\ writer' = IF writer = p THEN NoProcess ELSE writer
      /\ UNCHANGED <<dialect, pending, runs, torn>>
      /\ proc' \in [Processes -> Procs] /\ proc'[p] = At("done")
      /\ \A q \in Processes \ {p} : proc'[q] = proc[q]
  BY <1>0, <1>1 DEF Commit, Becomes, TypeOK
<1> HIDE DEF At
<1>3. disk \in Databases /\ View(p) \in Databases /\ Later(disk, View(p)) /\ NoRows(View(p))
  BY <1>0, ViewTyped, LaterReflexive, ProcessesAssumption DEF TypeOK, Transaction, View
<1>4. TypeOK'
  BY <1>0, <1>2, <1>3 DEF TypeOK
<1>5. writer # p => disk' = disk
  BY <1>2 DEF View
<1>6. Positions'
  <2> SUFFICES ASSUME NEW q \in Processes PROVE Fits(proc'[q], View(q)')
    BY DEF Positions
  <2>1. CASE q = p
    <3>1. Fits(proc[p], View(p)) /\ View(p)' = View(p)
      BY <1>0, <1>2, ProcessesAssumption DEF Positions, View
    <3> QED BY <1>1, <1>2, <2>1, <3>1 DEF Fits
  <2>2. CASE q # p
    <3>1. Fits(proc[q], View(q)) /\ proc'[q] = proc[q] /\ proc[q] \in Procs
      BY <1>0, <1>2, <2>2 DEF Positions, TypeOK
    <3>2. CASE writer = p
      <4>1. View(q) = disk /\ View(q)' = View(p)
        BY <1>2, <2>2, <3>2, ProcessesAssumption DEF View
      <4> QED BY <1>3, <3>1, <4>1, FitsLater
    <3>3. CASE writer # p
      <4>1. View(q)' = View(q)
        BY <1>2, <1>5, <3>3 DEF View
      <4> QED BY <3>1, <4>1
    <3> QED BY <3>2, <3>3
  <2> QED BY <2>1, <2>2
<1>7. Transaction'
  <2> SUFFICES ASSUME writer' # NoProcess PROVE Transaction'
    BY DEF Transaction
  <2>1. writer' = writer /\ writer \in Processes \ {p} /\ proc'[writer] = proc[writer] /\ disk' = disk
    BY <1>0, <1>2, <1>5 DEF TypeOK
  <2>2. proc[p].bare = {}
    BY <1>0, <1>2, <2>1 DEF BareColumns
  <2>3. \A c : OthersLeft(writer, c) => OthersLeft(writer, c)'
    BY <1>2, <2>1, <2>2 DEF OthersLeft
  <2> QED BY <1>0, <1>2, <2>1, <2>3 DEF Transaction, Running, Null, NoRows, Later
<1>8. BareColumns' /\ PostgresAtomic'
  BY <1>0, <1>1, <1>2 DEF BareColumns, PostgresAtomic
<1>9. DiskNulls'
  <2> SUFFICES ASSUME NEW c \in Columns, Null(View(p), c)
               PROVE  c \in torn \/ \E q \in Processes : c \in proc'[q].bare
    BY <1>2 DEF DiskNulls, Null
  <2>1. OthersLeft(p, c)
    BY <1>2, NullsSeen
  <2> QED BY <1>2, <2>1 DEF OthersLeft
<1> QED BY <1>2, <1>3, <1>4, <1>6, <1>7, <1>8, <1>9 DEF MigInv, NoRows

LEMMA InsertKeeps ==
  ASSUME MigInv, NEW p \in Processes, Insert(p)
  PROVE  MigInv' /\ Later(disk, disk')
<1>0. TypeOK /\ Positions /\ Transaction /\ NoRows(disk) /\ BareColumns /\ DiskNulls /\ PostgresAtomic
  BY DEF MigInv
<1>1. proc[p].at = "done" /\ writer = NoProcess /\ UNCHANGED <<dialect, pending, writer, proc, runs, torn>>
  BY DEF Insert
<1>2. PICK r \in Rows \ disk.rows :
        disk' = [disk EXCEPT !.rows = @ \cup {r}, !.data[r] = Given(disk.columns)]
  BY DEF Insert
<1>3. disk \in Databases /\ Given(disk.columns) \in [Columns -> Values]
  BY <1>0, GivenTyped DEF TypeOK
<1>4. /\ disk' \in Databases /\ disk'.table = disk.table /\ disk'.columns = disk.columns
      /\ disk'.rows = disk.rows \cup {r}
      /\ disk'.data[r] = Given(disk.columns)
      /\ \A q \in Rows \ {r} : disk'.data[q] = disk.data[q]
  BY <1>2, <1>3 DEF Databases
<1>5. \A q \in Processes : View(q) = disk /\ View(q)' = disk'
  BY <1>1, ProcessesAssumption DEF View
<1>6. disk.table = "sessions"
  BY <1>0, <1>1, <1>5 DEF Positions, Fits
<1>7. Later(disk, disk')
  BY <1>2, <1>3, <1>4 DEF Later, Databases
<1>8. \A c \in Columns : Null(disk', c) => Null(disk, c)
  <2>1. \A c \in disk.columns \cap Required : disk'.data[r][c] = "given"
    BY <1>3, <1>4 DEF Given, Databases
  <2> QED BY <1>2, <1>3, <1>4, <2>1 DEF Null, Databases
<1>9. TypeOK'
  BY <1>0, <1>1, <1>4 DEF TypeOK
<1>10. Positions'
  BY <1>0, <1>1, <1>3, <1>4, <1>5, <1>7, FitsLater DEF Positions, TypeOK
<1>11. Transaction' /\ NoRows(disk') /\ BareColumns' /\ PostgresAtomic'
  BY <1>0, <1>1, <1>4, <1>6 DEF Transaction, NoRows, BareColumns, PostgresAtomic
<1>12. DiskNulls'
  <2> SUFFICES ASSUME NEW c \in Columns, Null(disk', c)
               PROVE  c \in torn \/ \E q \in Processes : c \in proc[q].bare
    BY <1>1 DEF DiskNulls, Null
  <2> QED BY <1>0, <1>8 DEF DiskNulls
<1> QED BY <1>7, <1>9, <1>10, <1>11, <1>12 DEF MigInv, NoRows

LEMMA NextKeeps == MigInv /\ Next => MigInv' /\ Later(disk, disk')
<1> SUFFICES ASSUME MigInv, Next PROVE MigInv' /\ Later(disk, disk')
  OBVIOUS
<1>1. ASSUME NEW p \in Processes, Locked(p) \/ Die(p)
      PROVE  MigInv' /\ Later(disk, disk')
  BY <1>1, CutOffKeeps DEF Locked, Die, Running
<1> QED BY <1>1, BeginKeeps, RenameKeeps, CheckKeeps, CreateKeeps, InspectKeeps, AlterKeeps,
           BackfillKeeps, CommitKeeps, InsertKeeps DEF Next

LEMMA StutterKeeps == MigInv /\ UNCHANGED vars => MigInv'
BY DEF MigInv, TypeOK, Positions, View, Transaction, Running, Later, NoRows, Null, OthersLeft,
       BareColumns, DiskNulls, PostgresAtomic, vars

LEMMA Invariance == Spec => []MigInv
<1>1. MigInv /\ [Next]_vars => MigInv'
  BY NextKeeps, StutterKeeps
<1> QED BY Initially, <1>1, PTL DEF Spec

-----------------------------------------------------------------------------
(* The theorems.                                                             *)

\* The databases and the runs keep their types.
THEOREM MigrationTypeCorrect == Spec => []TypeOK
BY Invariance, PTL DEF MigInv

\* A run that ends well leaves the table with every column, whatever others do.
THEOREM DoneIsMigrated == Spec => []DoneMeansMigrated
<1>1. MigInv => DoneMeansMigrated
  <2> SUFFICES ASSUME MigInv, NEW p \in Processes, proc[p].at = "done"
               PROVE  disk.table = "sessions" /\ disk.columns = Columns
    BY DEF DoneMeansMigrated
  <2>1. View(p) = disk
    BY ProcessesAssumption DEF MigInv, Transaction, Running, View
  <2> QED BY <2>1 DEF MigInv, Positions, Fits, TypeOK, Databases
<1> QED BY <1>1, Invariance, PTL

\* A required column is empty only in SQLite, while or because its backfill is not committed.
THEOREM NullsAreExplained == Spec => []NullsExplained
<1>1. MigInv => NullsExplained
  <2> SUFFICES ASSUME MigInv, NEW r \in disk.rows, NEW c \in disk.columns \cap Required,
                      disk.data[r][c] = "null"
               PROVE  dialect = "sqlite" /\ (c \in torn \/ \E p \in Processes : c \in proc[p].bare)
    BY DEF NullsExplained
  <2>1. c \in Columns /\ Null(disk, c)
    BY ColumnsAssumption DEF Null
  <2> QED BY <2>1 DEF MigInv, DiskNulls, PostgresAtomic, TypeOK
<1> QED BY <1>1, Invariance, PTL

\* No step loses a row or a value that was given.
THEOREM RowsAreKept == Spec => RowsSurvive
<1>1. MigInv /\ Next =>
        \A r \in disk.rows :
          /\ r \in disk'.rows
          /\ \A c \in Columns : disk.data[r][c] = "given" => disk'.data[r][c] = "given"
  BY NextKeeps DEF Later
<1>2. MigInv /\ [Next]_vars =>
        [\A r \in disk.rows :
           /\ r \in disk'.rows
           /\ \A c \in Columns : disk.data[r][c] = "given" => disk'.data[r][c] = "given"]_vars
  BY <1>1
<1> QED BY <1>2, Invariance, PTL DEF Spec, RowsSurvive

================================================================================

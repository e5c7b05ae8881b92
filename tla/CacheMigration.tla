--------------------------- MODULE CacheMigration ---------------------------
(***************************************************************************)
(* init_db() and _migrate() of pi_common/cache.py.  Every sensor process   *)
(* of a Pi runs them as it starts, on the one database they share.         *)
(*                                                                         *)
(* sqlite3 opens a transaction before an UPDATE but not before an ALTER    *)
(* TABLE: each column added is durable at once, while the UPDATEs that     *)
(* belong to the columns are durable together, at the final commit.  Which *)
(* UPDATEs run depends on the columns this very call has added.            *)
(***************************************************************************)
EXTENDS Naturals, Sequences

CONSTANTS
  Process,     \* the sensor processes
  LegacyRows,  \* how many rows the cache holds before the upgrade
  MaxNew,      \* bound on the rows saved after a migration
  MaxCuts      \* bound on the exits in the middle of init_db()

\* EXTRA_COLUMNS, those that _migrate() or a drain asks about.
Columns == <<"stream", "tickEpoch", "syncRttMs", "sourceKey">>

ASSUME MigrationAssumption == LegacyRows \in Nat /\ MaxNew \in Nat /\ MaxCuts \in Nat

VARIABLES
  columns,   \* the extra columns of SensorLog
  rows,      \* legacy rows, then new ones; stream, tick and key: not NULL
  pc,        \* where each process is
  existing,  \* the columns this call found
  added,     \* the columns this call has added
  cuts       \* exits so far

vars == <<columns, rows, pc, existing, added, cuts>>

Goto(p, where) == pc' = [pc EXCEPT ![p] = where]

-----------------------------------------------------------------------------
\* PRAGMA table_info.
Inspect(p) ==
  /\ pc[p] = "inspect"
  /\ existing' = [existing EXCEPT ![p] = columns]
  /\ added' = [added EXCEPT ![p] = {}]
  /\ Goto(p, "alter")
  /\ UNCHANGED <<columns, rows, cuts>>

\* Mutated form: a table with some of the columns passes for migrated.
MissingIfNew(p) ==
  {i \in 1 .. Len(Columns) : existing[p] = {} /\ Columns[i] \notin added[p]}

\* The columns still to be added.
Missing(p) == {i \in 1 .. Len(Columns) : Columns[i] \notin existing[p] \cup added[p]}

\* They are added in order.
IsNext(p, i) == i \in Missing(p) /\ \A j \in Missing(p) : i <= j

\* ALTER TABLE ADD COLUMN, durable at once.
AddColumn(p) ==
  /\ pc[p] = "alter"
  /\ \E i \in 1 .. Len(Columns) :
       /\ IsNext(p, i)
       /\ columns' = columns \cup {Columns[i]}
       /\ added' = [added EXCEPT ![p] = @ \cup {Columns[i]}]
  /\ UNCHANGED <<rows, pc, existing, cuts>>

\* Another process has added the column since: "duplicate column name" ends
\* this one, and systemd starts it again.
AddColumnFails(p) ==
  /\ pc[p] = "alter"
  /\ \E i \in 1 .. Len(Columns) : IsNext(p, i) /\ Columns[i] \in columns
  /\ Goto(p, "inspect")
  /\ UNCHANGED <<columns, rows, existing, added, cuts>>

\* Mutated form: every unsent row is retired.
RetiredAll(p, r) == added[p] \cap {"syncRttMs", "sourceKey"} # {}

\* Mutated form: the UPDATE for sourceKey is missing.
RetiredUnticked(p, r) == "syncRttMs" \in added[p] /\ ~r.tick

\* The row is retired by one of the two UPDATEs of uploaded.
Retired(p, r) ==
  \/ "syncRttMs" \in added[p] /\ ~r.tick
  \/ "sourceKey" \in added[p] /\ ~r.key

\* The UPDATEs for the columns added, and the commit.
Commit(p) ==
  /\ pc[p] = "alter"
  /\ Missing(p) = {}
  /\ rows' = [i \in DOMAIN rows |->
                [rows[i] EXCEPT !.stream = @ \/ "stream" \in added[p],
                                !.uploaded = @ \/ Retired(p, rows[i])]]
  /\ Goto(p, "running")
  /\ UNCHANGED <<columns, existing, added, cuts>>

\* A row of this version has every column.
NewRow == [stream |-> TRUE, tick |-> TRUE, key |-> TRUE, uploaded |-> FALSE]

Save(p) ==
  /\ pc[p] = "running"
  /\ Len(rows) < LegacyRows + MaxNew
  /\ rows' = Append(rows, NewRow)
  /\ UNCHANGED <<columns, pc, existing, added, cuts>>

\* The process or the power ends; systemd starts the process again.  Inside
\* init_db() the open transaction is rolled back, the columns stay.
Exit(p) ==
  /\ pc[p] = "alter" => cuts < MaxCuts
  /\ cuts' = IF pc[p] = "alter" THEN cuts + 1 ELSE cuts
  /\ Goto(p, "inspect")
  /\ UNCHANGED <<columns, rows, existing, added>>

-----------------------------------------------------------------------------
Row == [stream : BOOLEAN, tick : BOOLEAN, key : BOOLEAN, uploaded : BOOLEAN]

\* A row an earlier version can have left, when the first n columns exist and
\* the migrations that added them went well.
LeftBehind(r, n) ==
  /\ r.stream <=> n >= 1
  /\ r.tick => n >= 2
  /\ r.key => n = 4
  /\ n >= 3 /\ ~r.tick => r.uploaded
  /\ n = 4 /\ ~r.key => r.uploaded

Init ==
  /\ \E n \in 0 .. Len(Columns) :
       /\ columns = {Columns[i] : i \in 1 .. n}
       /\ rows \in [1 .. LegacyRows -> {r \in Row : LeftBehind(r, n)}]
  /\ pc = [p \in Process |-> "inspect"]
  /\ existing = [p \in Process |-> {}]
  /\ added = [p \in Process |-> {}]
  /\ cuts = 0

Next ==
  \E p \in Process :
    \/ Inspect(p) \/ AddColumn(p) \/ AddColumnFails(p)
    \/ Commit(p) \/ Save(p) \/ Exit(p)

Spec == Init /\ [][Next]_vars

-----------------------------------------------------------------------------
(* Properties.                                                             *)

\* The type invariant.
TypeOK ==
  /\ columns \subseteq {Columns[i] : i \in 1 .. Len(Columns)}
  /\ rows \in Seq(Row) /\ Len(rows) <= LegacyRows + MaxNew
  /\ pc \in [Process -> {"inspect", "alter", "running"}]
  /\ \A p \in Process : existing[p] \cup added[p] \subseteq columns
  /\ cuts \in 0 .. MaxCuts

\* A process that has left init_db() finds every column it will write to,
\* whatever version the table was of, whoever added them and however often
\* the upgrade broke off.
ReadyInv ==
  \A p \in Process : pc[p] = "running" => \A i \in 1 .. Len(Columns) : Columns[i] \in columns

\* The table has its new shape and nobody is inside init_db().
Migrated == "sourceKey" \in columns /\ \A p \in Process : pc[p] # "alter"

\* After the upgrade no row without a source identity waits for an upload
\* that no client will ever make.
LegacyRetired == Migrated => \A i \in DOMAIN rows : ~rows[i].key => rows[i].uploaded

\* An upgrade that nothing interrupts, by two processes at a time, does so.
RetiredUnlessCut == cuts = 0 => LegacyRetired

\* After the upgrade every row has its stream.
StreamBackfilled == Migrated => \A i \in DOMAIN rows : rows[i].stream

\* No migration retires a reading of the new version, although one process
\* may save readings while another is still migrating.
NewRowsKept == \A i \in DOMAIN rows : i > LegacyRows => ~rows[i].uploaded

=============================================================================

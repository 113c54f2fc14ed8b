------------------------------ MODULE Migrate -------------------------------
(***************************************************************************)
(* internal/store: every process (audicatalogd, audicatalog-worker) that   *)
(* opens the database runs the migrations first.  Nothing keeps two of     *)
(* them from running the same migration: the lookup of its version is      *)
(* outside of the transaction, and SQLite lets one transaction write at a  *)
(* time.  The loser's start fails; it is started again.                    *)
(*                                                                         *)
(* The database is its committed state: the versions in schema_migrations  *)
(* and the migrations whose tables, indexes and columns are there.         *)
(***************************************************************************)
EXTENDS Integers, FiniteSets

CONSTANTS
  Processes,  \* that open the database to write
  Migrations, \* the number of embedded migrations
  Additive,   \* those with an ALTER TABLE ADD COLUMN: 003 and 006
  MaxFaults,  \* bound: processes that die, statements that fail
  None

ASSUME MigrationsAssumption == Migrations \in Nat /\ Additive \subseteq 1..Migrations
ASSUME FaultsAssumption == MaxFaults \in Nat
ASSUME ProcessesAssumption == None \notin Processes

VARIABLES
  rows,    \* versions in schema_migrations
  schema,  \* migrations whose effects are in the schema
  writer,  \* the process whose transaction writes, None without one
  step,    \* the next statement of each process
  at,      \* the migration it is at
  faults,
  lost     \* history: migrations each process lost a race for

database == <<rows, schema>>
loop == <<step, at>>
migrateVars == <<database, writer, loop, faults, lost>>

Steps == {"down", "lookup", "apply", "insert", "commit", "open"}

MigrateInit ==
  /\ rows = {} /\ schema = {}
  /\ writer = None
  /\ step = [p \in Processes |-> "down"]
  /\ at = [p \in Processes |-> 1]
  /\ faults = 0
  /\ lost = [p \in Processes |-> {}]

Goto(p, s) == step' = [step EXCEPT ![p] = s]

-----------------------------------------------------------------------------
(* OpenSQLite and Migrate.                                                 *)

\* schema_migrations is created if it is not there.
Start(p) ==
  /\ step[p] = "down"
  /\ Goto(p, "lookup")
  /\ at' = [at EXCEPT ![p] = 1]
  /\ UNCHANGED <<database, writer, faults, lost>>

\* Mutant: the lookup finds nothing.
AppliedNever(v) == FALSE

isMigrationApplied(v) == v \in rows

Skip(p) ==
  /\ step[p] = "lookup" /\ at[p] <= Migrations
  /\ isMigrationApplied(at[p])
  /\ at' = [at EXCEPT ![p] = @ + 1]
  /\ UNCHANGED <<database, writer, step, faults, lost>>

Lookup(p) ==
  /\ step[p] = "lookup" /\ at[p] <= Migrations
  /\ ~isMigrationApplied(at[p])
  /\ Goto(p, "apply")
  /\ UNCHANGED <<database, writer, at, faults, lost>>

\* Mutant: the script runs outside of the transaction.
ApplyAtOnce(p) ==
  /\ step[p] = "apply" /\ writer = None
  /\ at[p] \in Additive => at[p] \notin schema
  /\ writer' = p
  /\ schema' = schema \cup {at[p]}
  /\ Goto(p, "insert")
  /\ UNCHANGED <<rows, at, faults, lost>>

\* BeginTx is deferred: the first statement of the script takes the write lock,
\* and sees what is committed by then.  A script that finds everything there
\* (CREATE IF NOT EXISTS) only reads, and INSERT would take the lock: where it
\* is refused, the start fails as it does here.
Apply(p) ==
  /\ step[p] = "apply" /\ writer = None
  /\ at[p] \in Additive => at[p] \notin schema
  /\ writer' = p
  /\ Goto(p, "insert")
  /\ UNCHANGED <<database, at, faults, lost>>

InsertVersion(p) ==
  /\ step[p] = "insert" /\ at[p] \notin rows
  /\ Goto(p, "commit")
  /\ UNCHANGED <<database, writer, at, faults, lost>>

Commit(p) ==
  /\ step[p] = "commit"
  /\ rows' = rows \cup {at[p]}
  /\ schema' = schema \cup {at[p]}
  /\ writer' = None
  /\ at' = [at EXCEPT ![p] = @ + 1]
  /\ Goto(p, "lookup")
  /\ UNCHANGED <<faults, lost>>

Open(p) ==
  /\ step[p] = "lookup" /\ at[p] > Migrations
  /\ Goto(p, "open")
  /\ UNCHANGED <<database, writer, at, faults, lost>>

-----------------------------------------------------------------------------
(* Starts that fail.                                                       *)

\* The transaction, if there is one, is rolled back.
Fail(p) ==
  /\ Goto(p, "down")
  /\ writer' = IF writer = p THEN None ELSE writer
  /\ UNCHANGED <<database, at>>

\* Another process has committed the migration since it was looked up: a column
\* is there already, or the version is.
LoseRace(p) ==
  /\ \/ step[p] = "apply" /\ writer = None /\ at[p] \in Additive \cap schema
     \/ step[p] = "insert" /\ at[p] \in rows
  /\ Fail(p)
  /\ lost' = [lost EXCEPT ![p] = @ \cup {at[p]}]
  /\ UNCHANGED faults

\* A statement fails (the lock is busy for longer than busy_timeout, the disk is
\* full), or the process dies, before or after it has opened the database.
Fault(p) ==
  /\ step[p] # "down" /\ faults < MaxFaults
  /\ Fail(p)
  /\ faults' = faults + 1
  /\ UNCHANGED lost

Process(p) ==
  \/ Start(p) \/ Skip(p) \/ Lookup(p) \/ Apply(p) \/ InsertVersion(p)
  \/ Commit(p) \/ Open(p) \/ LoseRace(p)

MigrateNext == \E p \in Processes : Process(p) \/ Fault(p)

\* A supervisor starts a process again, and the scheduler runs it.
MigrateFairness == \A p \in Processes : WF_migrateVars(Process(p))

MigrateSpec == MigrateInit /\ [][MigrateNext]_migrateVars /\ MigrateFairness

-----------------------------------------------------------------------------
(* Properties.                                                             *)

MigrateTypeOK ==
  /\ rows \subseteq 1..Migrations /\ schema \subseteq 1..Migrations
  /\ writer \in Processes \cup {None}
  /\ step \in [Processes -> Steps]
  /\ at \in [Processes -> 1..(Migrations + 1)]
  /\ faults \in 0..MaxFaults
  /\ lost \in [Processes -> SUBSET (1..Migrations)]

\* However starts interleave, fail and die, the schema is what the versions say,
\* versions have no gap, and a process that opened the database sees them all.
MigratedWhole ==
  /\ schema = rows
  /\ \A v \in rows : 1..v \subseteq rows
  /\ \A p \in Processes : step[p] = "open" => rows = 1..Migrations

\* A race for a migration fails a process's start once at most: restarted, it
\* finds the version that the other one committed.
LostOnceStep == \A p \in Processes : LoseRace(p) => at[p] \notin lost[p]
LostOnce == [][LostOnceStep]_migrateVars

\* When processes stop dying, all of them open the database, for good.
AllOpen == \A p \in Processes : <>[](step[p] = "open")
=============================================================================

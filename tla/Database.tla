------------------------------ MODULE Database ------------------------------
(***************************************************************************)
(* One database file: processes migrate and open it (Migrate), those that  *)
(* have opened it write, and the snapshot tool copies it (Snapshot) at any *)
(* time, also in the middle of the migrations.  Its pages are the schema,  *)
(* the table of versions, and the data.                                    *)
(***************************************************************************)
EXTENDS Migrate, Snapshot

CONSTANT
  MaxWrites   \* bound: commits of data

ASSUME WritesAssumption == MaxWrites \in Nat
ASSUME ThreePages == NumPages = 3

VARIABLE data  \* commits of the processes that serve

vars == <<migrateVars, snapshotVars, data>>

Pages == <<schema, rows, data>>

Init ==
  /\ MigrateInit /\ SnapshotInit
  /\ data = 0
  /\ states = <<Pages>>

\* A repository's statement, or transaction.
Write(p) ==
  /\ step[p] = "open" /\ writer = None /\ data < MaxWrites
  /\ data' = data + 1
  /\ UNCHANGED migrateVars

\* What a step commits is a state of the source.
Record ==
  /\ states' = IF Pages' = Pages THEN states ELSE Append(states, Pages')
  /\ UNCHANGED <<tool, backupVars, importVars>>

Next ==
  \/ MigrateNext /\ UNCHANGED data /\ Record
  \/ (\E p \in Processes : Write(p)) /\ Record
  \/ SnapshotNext /\ UNCHANGED <<migrateVars, data>>

\* A supervisor starts a process again, the scheduler runs it, and the loop of a
\* backup goes on; nothing makes a process write.
Spec ==
  /\ Init /\ [][Next]_vars
  /\ MigrateFairness /\ SnapshotFairness

-----------------------------------------------------------------------------
(* Properties.                                                             *)

TypeOK ==
  /\ MigrateTypeOK /\ SnapshotTypeOK
  /\ data \in 0..MaxWrites

\* A replica that a server opens without migrating it has the schema that its
\* versions say, and no gap, wherever the migrations were when it was copied.
Whole(pages) == pages[1] = pages[2] /\ \A v \in pages[2] : 1..v \subseteq pages[2]
ReplicaWhole == replica # NoReplica => Whole(replica)
=============================================================================

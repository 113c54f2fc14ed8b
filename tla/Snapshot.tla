------------------------------ MODULE Snapshot ------------------------------
(***************************************************************************)
(* cmd/audicatalog-snapshot.                                               *)
(*                                                                         *)
(* export and sync copy a database that others write to, page by page,     *)
(* with SQLite's online backup: the source is read anew in every step, and *)
(* a commit between two steps restarts the copy; the target is written in  *)
(* one transaction, which the last step commits.                           *)
(*                                                                         *)
(* import copies a snapshot to a temporary file and renames it over the    *)
(* target.  What was not synced may be lost with the power.                *)
(*                                                                         *)
(* One command of the tool runs at a time.                                 *)
(***************************************************************************)
EXTENDS Integers, Sequences

CONSTANTS
  NumPages,   \* of the source
  StepPages,  \* that one step of a backup copies: 128
  NoReplica

ASSUME PagesAssumption == NumPages \in Nat \ {0} /\ StepPages \in Nat \ {0}

VARIABLES
  states,     \* history: every committed state of the source, the last is current
  tool,       \* where the command is
  copied,     \* pages in the open transaction of the target
  seen,       \* the state they were copied from
  replica,    \* the committed pages of the target, NoReplica before the first
  began,      \* history: the state when the running backup began
  promised,   \* history: the state when the last one that succeeded began
  temp,       \* the temporary file
  tempSynced, \* its data is on disk
  target,     \* the file at the target path
  mayLeave,   \* what a loss of power may leave there
  imported    \* history: an import has returned without an error

backupVars == <<copied, seen, replica, began, promised>>
importVars == <<temp, tempSynced, target, mayLeave, imported>>
snapshotVars == <<states, tool, backupVars, importVars>>

SnapshotInit ==
  /\ tool = "idle"
  /\ copied = <<>> /\ seen = 0 /\ replica = NoReplica
  /\ began = 0 /\ promised = 0
  /\ temp = "none" /\ tempSynced = FALSE
  /\ target = "old" /\ mayLeave = {"old"} /\ imported = FALSE

Now == Len(states)

-----------------------------------------------------------------------------
(* backupSQLite.                                                           *)

BeginBackup ==
  /\ tool = "idle"
  /\ tool' = "copying"
  /\ copied' = <<>> /\ seen' = Now /\ began' = Now
  /\ UNCHANGED <<states, replica, promised, importVars>>

\* A commit since the last step restarts the copy.
Kept == IF seen = Now THEN copied ELSE <<>>

\* The pages after n more are copied to those that are kept.
Copied(kept) ==
  LET upTo == IF Len(kept) + StepPages < NumPages THEN Len(kept) + StepPages ELSE NumPages
  IN  kept \o SubSeq(states[Now], Len(kept) + 1, upTo)

\* Step returns false and the loop sleeps; a busy source or target changes nothing.
Step ==
  /\ tool = "copying" /\ Len(Copied(Kept)) < NumPages
  /\ copied' = Copied(Kept) /\ seen' = Now
  /\ UNCHANGED <<states, tool, replica, began, promised, importVars>>

\* Mutant: the loop goes on when Step returns true.
LastStepGoesOn ==
  /\ tool = "copying" /\ Len(Copied(Kept)) = NumPages
  /\ replica' = Copied(Kept)
  /\ copied' = <<>> /\ seen' = 0
  /\ UNCHANGED <<states, tool, began, promised, importVars>>

\* Step returns true: the target is committed.  What the source commits while
\* the step runs (a WAL reader does not stop it) counts as committed after it.
LastStep ==
  /\ tool = "copying" /\ Len(Copied(Kept)) = NumPages
  /\ tool' = "done"
  /\ replica' = Copied(Kept)
  /\ copied' = <<>> /\ seen' = 0
  /\ UNCHANGED <<states, began, promised, importVars>>

\* Mutant: the loop ends after the first step; Finish rolls back and succeeds.
FinishEarly ==
  /\ tool \in {"copying", "done"}
  /\ tool' = "idle" /\ copied' = <<>> /\ seen' = 0 /\ began' = 0
  /\ promised' = began
  /\ UNCHANGED <<states, replica, importVars>>

Finish ==
  /\ tool = "done"
  /\ tool' = "idle" /\ copied' = <<>> /\ seen' = 0 /\ began' = 0
  /\ promised' = began
  /\ UNCHANGED <<states, replica, importVars>>

-----------------------------------------------------------------------------
(* runImport.                                                              *)

\* copyFile truncates what an import that failed has left.
OpenTemp ==
  /\ tool = "idle"
  /\ tool' = "copy"
  /\ temp' = "part" /\ tempSynced' = FALSE
  /\ UNCHANGED <<states, backupVars, target, mayLeave, imported>>

CopyInput ==
  /\ tool = "copy"
  /\ tool' = "sync"
  /\ temp' = "new"
  /\ UNCHANGED <<states, backupVars, tempSynced, target, mayLeave, imported>>

\* Mutant: no sync before the rename.
LeaveUnsynced ==
  /\ tool = "sync"
  /\ tool' = "rename"
  /\ UNCHANGED <<states, backupVars, temp, tempSynced, target, mayLeave, imported>>

\* The end of copyFile, and syncPath.
SyncTemp ==
  /\ tool = "sync"
  /\ tool' = "rename"
  /\ tempSynced' = TRUE
  /\ UNCHANGED <<states, backupVars, temp, target, mayLeave, imported>>

\* Until the directory is synced either file may be at the path after a loss of power.
Rename ==
  /\ tool = "rename"
  /\ tool' = "syncdir"
  /\ target' = temp
  /\ mayLeave' = mayLeave \cup {temp} \cup (IF tempSynced THEN {} ELSE {"part"})
  /\ temp' = "none" /\ tempSynced' = FALSE
  /\ UNCHANGED <<states, backupVars, imported>>

SyncDir ==
  /\ tool = "syncdir"
  /\ tool' = "idle"
  /\ mayLeave' = mayLeave \ {"old"}
  /\ imported' = TRUE
  /\ UNCHANGED <<states, backupVars, temp, tempSynced, target>>

-----------------------------------------------------------------------------
\* A call returns an error, or the process dies: the target of a backup is rolled
\* back; a temporary file that is left is truncated by the next import.
Abandon ==
  /\ tool # "idle"
  /\ tool' = "idle"
  /\ copied' = <<>> /\ seen' = 0 /\ began' = 0
  /\ temp' = "none" /\ tempSynced' = FALSE
  /\ UNCHANGED <<states, replica, promised, target, mayLeave, imported>>

\* The host of the target loses its power.
PowerLoss ==
  /\ tool' = "idle"
  /\ copied' = <<>> /\ seen' = 0 /\ began' = 0
  /\ temp' = "none" /\ tempSynced' = FALSE
  /\ target' \in mayLeave
  /\ mayLeave' = {target'}
  /\ UNCHANGED <<states, replica, promised, imported>>

Backup == Step \/ LastStep \/ Finish
SnapshotNext ==
  \/ BeginBackup \/ Backup
  \/ OpenTemp \/ CopyInput \/ SyncTemp \/ Rename \/ SyncDir
  \/ Abandon \/ PowerLoss

\* The loop goes on.
SnapshotFairness == WF_snapshotVars(Backup)

-----------------------------------------------------------------------------
(* Properties.                                                             *)

SnapshotTypeOK ==
  /\ tool \in {"idle", "copying", "done", "copy", "sync", "rename", "syncdir"}
  /\ Len(copied) < NumPages /\ seen \in 0..Now /\ began \in 0..Now /\ promised \in 0..Now
  /\ temp \in {"none", "part", "new"} /\ tempSynced \in BOOLEAN
  /\ target \in {"old", "part", "new"} /\ mayLeave \subseteq {"old", "part", "new"}
  /\ imported \in BOOLEAN

\* However commits fall between the steps of a backup, and wherever backups end,
\* the target holds one committed state of the source, and after a backup that
\* succeeded none that is older than its beginning.
ReplicaIsAState ==
  \/ replica = NoReplica /\ promised = 0
  \/ \E k \in 1..Now : k >= promised /\ replica = states[k]

\* When the source is left alone a backup ends.
BackupEnds == tool \in {"copying", "done"} ~> tool = "idle"

\* Wherever an import fails, dies or loses power, the target is the old file or
\* the new one, whole, and the new one for good after an import that succeeded.
ImportedWhole ==
  /\ "part" \notin {target} \cup mayLeave
  /\ imported => {target} \cup mayLeave = {"new"}
=============================================================================

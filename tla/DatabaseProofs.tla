--------------------------- MODULE DatabaseProofs ---------------------------
(***************************************************************************)
(* Proofs about Migrate, Snapshot and their composition, for any number of *)
(* processes, migrations, faults and writes, and any size of a step.       *)
(***************************************************************************)
EXTENDS Database, SequenceTheorems, TLAPS

-----------------------------------------------------------------------------
(* Migrations.                                                             *)

\* A process has every migration before the one it is at; the write lock is
\* held from the script to the commit; what was lost was won by another.
MigrateInv ==
  /\ MigrateTypeOK
  /\ schema = rows
  /\ \A v \in rows : 1..v \subseteq rows
  /\ \A p \in Processes : 1..(at[p] - 1) \subseteq rows
  /\ \A p \in Processes : step[p] = "open" => 1..Migrations \subseteq rows
  /\ \A p \in Processes : step[p] \in {"insert", "commit"} <=> writer = p
  /\ \A p \in Processes : step[p] \in {"apply", "insert", "commit"} =>
       at[p] \in 1..Migrations /\ at[p] \notin lost[p]
  /\ \A p \in Processes : lost[p] \subseteq rows

LEMMA MigrateInitInv == MigrateInit => MigrateInv
<1> USE MigrationsAssumption, FaultsAssumption, ProcessesAssumption
<1> SUFFICES ASSUME MigrateInit PROVE MigrateInv OBVIOUS
<1>1. MigrateTypeOK BY DEF MigrateInit, MigrateTypeOK, Steps
<1>2. \A p \in Processes : at[p] = 1 /\ step[p] = "down" /\ lost[p] = {} /\ writer # p
  BY DEF MigrateInit
<1> QED BY <1>1, <1>2 DEF MigrateInit, MigrateInv

LEMMA StartKeeps ==
  ASSUME MigrateInv, NEW p \in Processes, Start(p) \/ Skip(p) \/ Lookup(p) \/ Open(p)
  PROVE  MigrateInv'
<1> USE MigrationsAssumption, FaultsAssumption, ProcessesAssumption
<1>1. UNCHANGED <<rows, schema, writer, faults, lost>>
  BY DEF Start, Skip, Lookup, Open, database
<1>2. MigrateTypeOK'
  <2>1. step' \in [Processes -> Steps]
    BY DEF Start, Skip, Lookup, Open, Goto, MigrateInv, MigrateTypeOK, Steps
  <2>2. at' \in [Processes -> 1..(Migrations + 1)]
    <3>1. /\ at \in [Processes -> 1..(Migrations + 1)]
          /\ Migrations + 1 \in Nat /\ 1 \in 1..(Migrations + 1)
      BY DEF MigrateInv, MigrateTypeOK
    <3>2. at[p] <= Migrations => at[p] + 1 \in 1..(Migrations + 1) BY <3>1
    <3> QED BY <3>1, <3>2 DEF Start, Skip, Lookup, Open
  <2> QED BY <1>1, <2>1, <2>2 DEF MigrateInv, MigrateTypeOK
<1>3. \A q \in Processes \ {p} : step'[q] = step[q] /\ at'[q] = at[q]
  BY DEF Start, Skip, Lookup, Open, Goto, MigrateInv, MigrateTypeOK
<1>4. 1..(at'[p] - 1) \subseteq rows
  <2>1. at[p] \in Nat /\ 1..(at[p] - 1) \subseteq rows BY DEF MigrateInv, MigrateTypeOK
  <2>2. CASE Start(p)
    <3>1. at'[p] = 1 BY <2>2 DEF Start, MigrateInv, MigrateTypeOK
    <3> QED BY <3>1
  <2>3. CASE Skip(p)
    <3>1. at[p] \in rows /\ at'[p] = at[p] + 1
      BY <2>3 DEF Skip, isMigrationApplied, MigrateInv, MigrateTypeOK
    <3> QED BY <2>1, <3>1
  <2>4. CASE Lookup(p) \/ Open(p) BY <2>1, <2>4 DEF Lookup, Open
  <2> QED BY <2>2, <2>3, <2>4
<1>5. step[p] \in {"down", "lookup"} /\ step'[p] \in {"lookup", "apply", "open"}
  BY DEF Start, Skip, Lookup, Open, Goto, MigrateInv, MigrateTypeOK
<1>6. step'[p] = "open" => 1..Migrations \subseteq rows
  <2> SUFFICES ASSUME step'[p] = "open" PROVE 1..Migrations \subseteq rows OBVIOUS
  <2>1. at[p] > Migrations /\ at[p] \in Nat
    BY DEF Start, Skip, Lookup, Open, Goto, MigrateInv, MigrateTypeOK
  <2>2. 1..(at[p] - 1) \subseteq rows BY DEF MigrateInv
  <2> QED BY <2>1, <2>2
<1>7. step'[p] = "apply" => at'[p] \in 1..Migrations /\ at'[p] \notin lost[p]
  <2> SUFFICES ASSUME step'[p] = "apply"
               PROVE  at'[p] \in 1..Migrations /\ at'[p] \notin lost[p]
    OBVIOUS
  <2>1. Lookup(p)
    BY DEF Start, Skip, Open, Goto, MigrateInv, MigrateTypeOK
  <2>2. at' = at /\ at[p] <= Migrations /\ at[p] \notin rows
    BY <2>1 DEF Lookup, isMigrationApplied
  <2> QED BY <2>2 DEF MigrateInv, MigrateTypeOK
<1> QED BY <1>1, <1>2, <1>3, <1>4, <1>5, <1>6, <1>7 DEF MigrateInv

LEMMA WriteKeeps ==
  ASSUME MigrateInv, NEW p \in Processes, Apply(p) \/ InsertVersion(p)
  PROVE  MigrateInv'
<1> USE MigrationsAssumption, FaultsAssumption, ProcessesAssumption
<1>1. UNCHANGED <<rows, schema, at, faults, lost>>
  BY DEF Apply, InsertVersion, database
<1>2. MigrateTypeOK'
  BY DEF Apply, InsertVersion, database, Goto, MigrateInv, MigrateTypeOK, Steps
<1>3. \A q \in Processes \ {p} : step'[q] = step[q]
  BY DEF Apply, InsertVersion, Goto, MigrateInv, MigrateTypeOK
<1>4. step[p] \in {"apply", "insert"} /\ step'[p] \in {"insert", "commit"}
  BY DEF Apply, InsertVersion, Goto, MigrateInv, MigrateTypeOK
<1>5. writer' = p /\ (writer = None \/ writer = p)
  BY DEF Apply, InsertVersion, MigrateInv
<1> QED BY <1>1, <1>2, <1>3, <1>4, <1>5 DEF MigrateInv

LEMMA CommitKeeps ==
  ASSUME MigrateInv, NEW p \in Processes, Commit(p)
  PROVE  MigrateInv'
<1> USE MigrationsAssumption, FaultsAssumption, ProcessesAssumption
<1>1. /\ step[p] = "commit" /\ writer = p
      /\ at[p] \in 1..Migrations /\ 1..(at[p] - 1) \subseteq rows /\ rows \subseteq 1..Migrations
  BY DEF Commit, MigrateInv, MigrateTypeOK
<1>2. /\ rows' = rows \cup {at[p]} /\ schema' = rows'
      /\ writer' = None
      /\ UNCHANGED <<faults, lost>>
  BY DEF Commit, MigrateInv
<1>3. /\ at'[p] = at[p] + 1 /\ step'[p] = "lookup"
      /\ \A q \in Processes \ {p} : step'[q] = step[q] /\ at'[q] = at[q]
  BY DEF Commit, Goto, MigrateInv, MigrateTypeOK
<1>4. MigrateTypeOK'
  <2>1. step' \in [Processes -> Steps]
    BY DEF Commit, Goto, MigrateInv, MigrateTypeOK, Steps
  <2>2. at' \in [Processes -> 1..(Migrations + 1)]
    <3>1. at[p] + 1 \in 1..(Migrations + 1) BY <1>1
    <3> QED BY <3>1 DEF Commit, MigrateInv, MigrateTypeOK
  <2>3. rows' \subseteq 1..Migrations BY <1>1, <1>2
  <2> QED BY <1>2, <2>1, <2>2, <2>3 DEF MigrateInv, MigrateTypeOK
<1>5. \A v \in rows' : 1..v \subseteq rows'
  <2>1. 1..at[p] \subseteq rows' BY <1>1, <1>2
  <2> QED BY <1>2, <2>1 DEF MigrateInv
<1>6. \A q \in Processes : 1..(at'[q] - 1) \subseteq rows'
  <2>1. 1..(at'[p] - 1) \subseteq rows' BY <1>1, <1>2, <1>3
  <2> QED BY <1>2, <1>3, <2>1 DEF MigrateInv
<1> QED BY <1>1, <1>2, <1>3, <1>4, <1>5, <1>6 DEF MigrateInv

LEMMA FailKeeps ==
  ASSUME MigrateInv, NEW p \in Processes, LoseRace(p) \/ Fault(p)
  PROVE  MigrateInv'
<1> USE MigrationsAssumption, FaultsAssumption, ProcessesAssumption
<1>1. /\ Fail(p) /\ UNCHANGED <<rows, schema, at>>
  BY DEF LoseRace, Fault, Fail, database
<1>2. \A q \in Processes : lost'[q] \subseteq rows
  BY DEF LoseRace, Fault, MigrateInv, MigrateTypeOK
<1>3. MigrateTypeOK'
  BY <1>1, <1>2 DEF LoseRace, Fault, Fail, Goto, MigrateInv, MigrateTypeOK, Steps
<1>4. /\ step'[p] = "down" /\ writer' # p
      /\ \A q \in Processes \ {p} : /\ step'[q] = step[q] /\ lost'[q] = lost[q]
                                    /\ writer' = q <=> writer = q
  BY <1>1 DEF LoseRace, Fault, Fail, Goto, MigrateInv, MigrateTypeOK
<1> QED BY <1>1, <1>2, <1>3, <1>4 DEF MigrateInv

LEMMA MigrateStepInv == MigrateInv /\ [MigrateNext]_migrateVars => MigrateInv'
<1> SUFFICES ASSUME MigrateInv, [MigrateNext]_migrateVars PROVE MigrateInv' OBVIOUS
<1>1. ASSUME NEW p \in Processes, Process(p) PROVE MigrateInv'
  BY <1>1, StartKeeps, WriteKeeps, CommitKeeps, FailKeeps DEF Process
<1>2. ASSUME NEW p \in Processes, Fault(p) PROVE MigrateInv' BY <1>2, FailKeeps
<1>3. CASE UNCHANGED migrateVars
  BY <1>3 DEF migrateVars, database, loop, MigrateInv, MigrateTypeOK
<1> QED BY <1>1, <1>2, <1>3 DEF MigrateNext

\* Every step of the composition is one of the migrations, or leaves them alone.
LEMMA NextMigrates == [Next]_vars => [MigrateNext]_migrateVars
BY DEF Next, Write, SnapshotNext, vars

\* The invariant of the migrations holds in every reachable state of Database.
THEOREM MigrateInvariant == Spec => []MigrateInv
<1>1. Init => MigrateInv BY MigrateInitInv DEF Init
<1>2. MigrateInv /\ [Next]_vars => MigrateInv' BY MigrateStepInv, NextMigrates
<1> QED BY <1>1, <1>2, PTL DEF Spec

\* However starts interleave, fail and die, the schema is what the versions say,
\* versions have no gap, and a process that opened the database sees them all.
THEOREM WholeMigrated == Spec => []MigratedWhole
<1>1. MigrateInv => MigratedWhole BY DEF MigrateInv, MigrateTypeOK, MigratedWhole
<1> QED BY <1>1, MigrateInvariant, PTL

\* A race for a migration fails a process's start once at most.
THEOREM EachRaceLostOnce == Spec => LostOnce
<1>1. MigrateInv /\ [Next]_vars => [LostOnceStep]_migrateVars
  BY DEF LostOnceStep, LoseRace, MigrateInv
<1> QED BY <1>1, MigrateInvariant, PTL DEF Spec, LostOnce

-----------------------------------------------------------------------------
(* Backups.                                                                *)

PageValues == (SUBSET (1..Migrations)) \cup Nat
PageLists == {l \in Seq(PageValues) : Len(l) = NumPages}

StatesOK ==
  /\ data \in 0..MaxWrites
  /\ states \in Seq(PageLists) /\ Len(states) >= 1
  /\ \A k \in 1..Len(states) : Whole(states[k])

\* The open transaction of a backup holds a prefix of the state it has seen.
BackupInv ==
  /\ tool \in {"idle", "copying", "done", "copy", "sync", "rename", "syncdir"}
  /\ began \in 0..Now /\ promised \in 0..Now
  /\ tool = "copying" =>
       /\ seen \in 1..Now
       /\ Len(copied) \in 0..(NumPages - 1)
       /\ copied = SubSeq(states[seen], 1, Len(copied))
  /\ tool # "copying" => copied = <<>> /\ seen = 0
  /\ tool = "done" => \E k \in 1..Now : k >= began /\ replica = states[k]
  /\ ReplicaIsAState

\* The steps that touch none of a backup's variables.
LEMMA BackupFrame ==
  ASSUME StatesOK, BackupInv, UNCHANGED <<copied, seen, replica, began, promised>>,
         states' \in Seq(PageLists), Len(states) <= Len(states'),
         \A k \in 1..Len(states) : states'[k] = states[k],
         \/ tool' = tool
         \/ tool \notin {"copying", "done"}
              /\ tool' \in {"idle", "copy", "sync", "rename", "syncdir"}
  PROVE  BackupInv'
<1>1. Now \in Nat /\ Now' \in Nat /\ Now <= Now' /\ 1..Now \subseteq 1..Now'
  BY LenProperties DEF StatesOK, Now
<1>2. \A k \in 1..Now : states'[k] = states[k] BY DEF Now
<1>3. began \in 0..Now' /\ promised \in 0..Now' BY <1>1 DEF BackupInv
<1>4. ReplicaIsAState' BY <1>1, <1>2 DEF BackupInv, ReplicaIsAState
<1>5. tool = "copying" => states'[seen] = states[seen] BY <1>2 DEF BackupInv
<1> QED BY <1>1, <1>2, <1>3, <1>4, <1>5 DEF BackupInv

\* The pages that a step copies and those it keeps are a longer prefix of the
\* current state.
LEMMA CopiedIsPrefix ==
  ASSUME StatesOK, BackupInv, tool = "copying"
  PROVE  LET c == Copied(Kept)
         IN  /\ Len(c) \in (Len(Kept) + 1)..NumPages /\ Len(Kept) \in Nat
             /\ c = SubSeq(states[Now], 1, Len(c))
             /\ Len(c) = NumPages => c = states[Now]
<1> USE PagesAssumption
<1> DEFINE k == Kept
           s == states[Now]
           upTo == IF Len(k) + StepPages < NumPages THEN Len(k) + StepPages ELSE NumPages
<1>1. Now \in Nat /\ Now >= 1 /\ s \in PageLists
  BY LenProperties, ElementOfSeq DEF StatesOK, Now
<1>2. s \in Seq(PageValues) /\ Len(s) = NumPages BY <1>1 DEF PageLists
<1>3. Len(k) \in 0..(NumPages - 1) /\ k = SubSeq(s, 1, Len(k))
  <2>1. CASE seen = Now BY <2>1 DEF Kept, BackupInv
  <2>2. CASE seen # Now
    <3>1. k = <<>> /\ Len(<<>>) = 0 BY <2>2, EmptySeq DEF Kept
    <3>2. SubSeq(s, 1, 0) = <<>> BY <1>2, SubSeqEmpty
    <3> QED BY <3>1, <3>2
  <2> QED BY <2>1, <2>2
<1>4. upTo \in (Len(k) + 1)..NumPages BY <1>3
<1>5. Copied(k) = SubSeq(s, 1, Len(k)) \o SubSeq(s, Len(k) + 1, upTo)
  BY <1>3 DEF Copied
<1> HIDE DEF k, s, upTo
<1>6. Copied(k) = SubSeq(s, 1, upTo)
  <2>1. /\ 1 \in 1..(Len(s) + 1) /\ Len(k) \in (1 - 1)..Len(s)
        /\ upTo \in Len(k)..Len(s)
    BY <1>2, <1>3, <1>4
  <2>2. SubSeq(s, 1, Len(k)) \o SubSeq(s, Len(k) + 1, upTo) = SubSeq(s, 1, upTo)
    BY <1>2, <2>1, ConcatAdjacentSubSeq
  <2> QED BY <1>5, <2>2
<1>7. Len(Copied(k)) = upTo
  <2>1. \A i \in 1..upTo : s[i] \in PageValues
    BY <1>2, <1>3, <1>4, ElementOfSeq
  <2> QED BY <1>3, <1>4, <1>6, <2>1, SubSeqProperties
<1>8. upTo = NumPages => Copied(k) = s BY <1>2, <1>6, SubSeqFull
<1> QED BY <1>3, <1>4, <1>6, <1>7, <1>8 DEF k, s

LEMMA BackupStep ==
  ASSUME StatesOK, BackupInv, BeginBackup \/ Backup \/ Abandon \/ PowerLoss
  PROVE  BackupInv'
<1> USE PagesAssumption
<1>1. Now \in Nat /\ Now >= 1 BY LenProperties DEF StatesOK, Now
<1>2. states' = states /\ Now' = Now
  BY DEF BeginBackup, Backup, Step, LastStep, Finish, Abandon, PowerLoss, Now
<1>3. CASE BeginBackup
  <2>1. states[Now] \in Seq(PageValues)
    BY <1>1, ElementOfSeq DEF StatesOK, PageLists, Now
  <2>2. SubSeq(states[Now], 1, 0) = <<>> /\ Len(<<>>) = 0 BY <2>1, SubSeqEmpty, EmptySeq
  <2> QED BY <1>1, <1>2, <1>3, <2>2 DEF BeginBackup, BackupInv, ReplicaIsAState
<1>4. CASE Step
  <2>1. Len(Copied(Kept)) \in 0..(NumPages - 1)
    <3>1. Len(Copied(Kept)) \in (Len(Kept) + 1)..NumPages /\ Len(Kept) \in Nat
      BY <1>4, CopiedIsPrefix DEF Step
    <3>2. Len(Copied(Kept)) < NumPages BY <1>4 DEF Step
    <3> QED BY <3>1, <3>2
  <2>2. Copied(Kept) = SubSeq(states[Now], 1, Len(Copied(Kept)))
    BY <1>4, CopiedIsPrefix DEF Step
  <2> HIDE DEF Now
  <2> QED BY <1>1, <1>2, <1>4, <2>1, <2>2 DEF Step, BackupInv, ReplicaIsAState
<1>5. CASE LastStep
  <2>1. replica' = states[Now] BY <1>5, CopiedIsPrefix DEF LastStep
  <2> HIDE DEF Now
  <2> QED BY <1>1, <1>2, <1>5, <2>1 DEF LastStep, BackupInv, ReplicaIsAState
<1>6. CASE Finish
  BY <1>1, <1>2, <1>6 DEF Finish, BackupInv, ReplicaIsAState
<1>7. CASE Abandon \/ PowerLoss
  BY <1>1, <1>2, <1>7 DEF Abandon, PowerLoss, BackupInv, ReplicaIsAState
<1> QED BY <1>3, <1>4, <1>5, <1>6, <1>7 DEF Backup

-----------------------------------------------------------------------------
(* Imports.                                                                *)

\* What is renamed is whole and on disk.
ImportInv ==
  /\ temp \in {"none", "part", "new"} /\ tempSynced \in BOOLEAN /\ imported \in BOOLEAN
  /\ tool \in {"sync", "rename"} => temp = "new"
  /\ tool = "rename" => tempSynced
  /\ tool = "syncdir" => target = "new"
  /\ target \in {"old", "new"} /\ mayLeave \subseteq {"old", "new"} /\ target \in mayLeave
  /\ imported => target = "new" /\ mayLeave \subseteq {"new"}

LEMMA ImportStep == ImportInv /\ SnapshotNext => ImportInv'
<1> SUFFICES ASSUME ImportInv, SnapshotNext PROVE ImportInv' OBVIOUS
<1>1. CASE BeginBackup \/ Backup
  <2>1. /\ UNCHANGED <<temp, tempSynced, target, mayLeave, imported>>
        /\ tool' \in {"copying", "done", "idle"}
    BY <1>1 DEF BeginBackup, Backup, Step, LastStep, Finish, importVars
  <2> QED BY <2>1 DEF ImportInv
<1>2. CASE OpenTemp BY <1>2 DEF OpenTemp, ImportInv
<1>3. CASE CopyInput BY <1>3 DEF CopyInput, ImportInv
<1>4. CASE SyncTemp BY <1>4 DEF SyncTemp, ImportInv
<1>5. CASE Rename BY <1>5 DEF Rename, ImportInv
<1>6. CASE SyncDir BY <1>6 DEF SyncDir, ImportInv
<1>7. CASE Abandon BY <1>7 DEF Abandon, ImportInv
<1>8. CASE PowerLoss BY <1>8 DEF PowerLoss, ImportInv
<1> QED BY <1>1, <1>2, <1>3, <1>4, <1>5, <1>6, <1>7, <1>8 DEF SnapshotNext

-----------------------------------------------------------------------------
(* The composition.                                                        *)

IInv == MigrateInv /\ StatesOK /\ BackupInv /\ ImportInv

\* The pages of a migrated database are a state that a backup may copy.
LEMMA PagesWhole ==
  ASSUME MigrateInv, data \in 0..MaxWrites
  PROVE  Pages \in PageLists /\ Whole(Pages)
<1> USE ThreePages, WritesAssumption
<1>1. schema \in PageValues /\ rows \in PageValues /\ data \in PageValues
  BY DEF MigrateInv, MigrateTypeOK, PageValues
<1>2. Pages \in Seq(PageValues) /\ Len(Pages) = 3 BY <1>1 DEF Pages
<1> QED BY <1>2 DEF PageLists, Pages, Whole, MigrateInv

LEMMA InitIInv == Init => IInv
<1> USE WritesAssumption
<1> SUFFICES ASSUME Init PROVE IInv OBVIOUS
<1>1. MigrateInv BY MigrateInitInv DEF Init
<1>2. data \in 0..MaxWrites BY DEF Init
<1>3. states = <<Pages>> /\ Pages \in PageLists /\ Whole(Pages)
  BY <1>1, <1>2, PagesWhole DEF Init
<1>4. StatesOK
  <2>1. states \in Seq(PageLists) /\ Len(states) = 1 /\ states[1] = Pages BY <1>3
  <2> QED BY <1>2, <1>3, <2>1 DEF StatesOK
<1>5. BackupInv
  <2>1. Now \in Nat BY <1>4, LenProperties DEF StatesOK, Now
  <2> QED BY <2>1 DEF Init, SnapshotInit, BackupInv, ReplicaIsAState
<1>6. ImportInv BY DEF Init, SnapshotInit, ImportInv
<1> QED BY <1>1, <1>4, <1>5, <1>6 DEF IInv

\* A step of a process, that may commit.
LEMMA RecordStep ==
  ASSUME IInv, MigrateInv', data' \in 0..MaxWrites, Record
  PROVE  IInv'
<1>1. Pages' \in PageLists /\ Whole(Pages)'
  <2>1. (MigrateInv /\ data \in 0..MaxWrites => Pages \in PageLists /\ Whole(Pages))'
    BY PagesWhole, PTL
  <2> QED BY <2>1 DEF PageLists, PageValues
<1>2. /\ states' = IF Pages' = Pages THEN states ELSE Append(states, Pages')
      /\ UNCHANGED <<tool, copied, seen, replica, began, promised>>
      /\ UNCHANGED <<temp, tempSynced, target, mayLeave, imported>>
  BY DEF Record, backupVars, importVars
<1>3. states \in Seq(PageLists) /\ Len(states) \in Nat /\ Len(states) >= 1
  BY LenProperties DEF IInv, StatesOK
<1>4. /\ states' \in Seq(PageLists) /\ Len(states') \in Nat
      /\ Len(states) <= Len(states') /\ Len(states') <= Len(states) + 1
      /\ \A k \in 1..Len(states) : states'[k] = states[k]
      /\ Len(states') = Len(states) + 1 => states'[Len(states')] = Pages'
  BY <1>1, <1>2, <1>3, AppendProperties
<1>5. StatesOK'
  <2>1. ASSUME NEW k \in 1..Len(states') PROVE Whole(states'[k])
    <3>1. CASE k \in 1..Len(states) BY <1>4, <3>1 DEF IInv, StatesOK
    <3>2. CASE k \notin 1..Len(states)
      <4>1. states'[k] = Pages' BY <1>3, <1>4, <3>2
      <4> QED BY <1>1, <4>1 DEF Whole
    <3> QED BY <3>1, <3>2
  <2> QED BY <1>3, <1>4, <2>1 DEF StatesOK, Whole, PageLists, PageValues
<1>6. BackupInv' BY <1>2, <1>4, BackupFrame DEF IInv
<1>7. ImportInv' BY <1>2 DEF IInv, ImportInv
<1> QED BY <1>5, <1>6, <1>7 DEF IInv

\* A step of the snapshot tool.
LEMMA ToolStep ==
  ASSUME IInv, SnapshotNext, UNCHANGED <<migrateVars, data>>
  PROVE  IInv'
<1>1. states' = states
  BY DEF SnapshotNext, BeginBackup, Backup, Step, LastStep, Finish, OpenTemp, CopyInput,
     SyncTemp, Rename, SyncDir, Abandon, PowerLoss
<1>2. MigrateInv' BY MigrateStepInv DEF IInv
<1>3. StatesOK' BY <1>1 DEF IInv, StatesOK, Whole, PageLists, PageValues
<1>4. BackupInv'
  <2>1. CASE BeginBackup \/ Backup \/ Abandon \/ PowerLoss
    BY <2>1, BackupStep DEF IInv
  <2>2. CASE OpenTemp \/ CopyInput \/ SyncTemp \/ Rename \/ SyncDir
    <3>1. /\ UNCHANGED <<copied, seen, replica, began, promised>>
          /\ tool \notin {"copying", "done"}
          /\ tool' \in {"idle", "copy", "sync", "rename", "syncdir"}
      BY <2>2 DEF OpenTemp, CopyInput, SyncTemp, Rename, SyncDir, backupVars
    <3>2. states' \in Seq(PageLists) /\ Len(states) <= Len(states')
      BY <1>1, LenProperties DEF IInv, StatesOK
    <3> QED BY <1>1, <3>1, <3>2, BackupFrame DEF IInv
  <2> QED BY <2>1, <2>2 DEF SnapshotNext
<1>5. ImportInv' BY ImportStep DEF IInv
<1> QED BY <1>2, <1>3, <1>4, <1>5 DEF IInv

LEMMA StepIInv == IInv /\ [Next]_vars => IInv'
<1> SUFFICES ASSUME IInv, [Next]_vars PROVE IInv' OBVIOUS
<1> USE WritesAssumption
<1>1. MigrateInv' BY MigrateStepInv, NextMigrates DEF IInv
<1>2. CASE MigrateNext /\ UNCHANGED data /\ Record
  BY <1>1, <1>2, RecordStep DEF IInv, StatesOK
<1>3. ASSUME NEW p \in Processes, Write(p), Record PROVE IInv'
  <2>1. data' \in 0..MaxWrites BY <1>3 DEF Write, IInv, StatesOK
  <2> QED BY <1>1, <1>3, <2>1, RecordStep
<1>4. CASE SnapshotNext /\ UNCHANGED <<migrateVars, data>> BY <1>4, ToolStep
<1>5. CASE UNCHANGED vars
  <2>1. StatesOK' BY <1>5 DEF vars, snapshotVars, IInv, StatesOK, Whole, PageLists, PageValues
  <2>2. BackupInv'
    <3>1. states' \in Seq(PageLists) /\ Len(states) <= Len(states')
      BY <1>5, LenProperties DEF vars, snapshotVars, IInv, StatesOK
    <3> QED BY <1>5, <3>1, BackupFrame DEF vars, snapshotVars, backupVars, IInv
  <2>3. ImportInv' BY <1>5 DEF vars, snapshotVars, importVars, IInv, ImportInv
  <2> QED BY <1>1, <2>1, <2>2, <2>3 DEF IInv
<1> QED BY <1>2, <1>3, <1>4, <1>5 DEF Next

\* The invariant of the composition.
THEOREM Invariant == Spec => []IInv
BY InitIInv, StepIInv, PTL DEF Spec

\* Tables, histories and the tool keep their types.
THEOREM TypeCorrect == Spec => []TypeOK
<1>1. IInv => TypeOK
  <2> SUFFICES ASSUME IInv PROVE TypeOK OBVIOUS
  <2>1. Now \in Nat BY LenProperties DEF IInv, StatesOK, Now
  <2>2. Len(copied) < NumPages /\ seen \in 0..Now
    <3>1. CASE tool = "copying"
      <4>1. Len(copied) \in 0..(NumPages - 1) /\ seen \in 1..Now
        BY <3>1 DEF IInv, BackupInv
      <4> QED BY PagesAssumption, <2>1, <4>1
    <3>2. CASE tool # "copying"
      <4>1. copied = <<>> /\ seen = 0 BY <3>2 DEF IInv, BackupInv
      <4>2. Len(copied) = 0 BY <4>1, EmptySeq
      <4> QED BY PagesAssumption, <2>1, <4>1, <4>2
    <3> QED BY <3>1, <3>2
  <2> QED BY <2>2 DEF IInv, MigrateInv, StatesOK, BackupInv, ImportInv, TypeOK, SnapshotTypeOK
<1> QED BY <1>1, Invariant, PTL

\* The target of backups holds one committed state of the source, and none that
\* is older than the beginning of the last backup that succeeded.
THEOREM ReplicasAreStates == Spec => []ReplicaIsAState
<1>1. IInv => ReplicaIsAState BY DEF IInv, BackupInv
<1> QED BY <1>1, Invariant, PTL

\* Whatever commits fall between its steps, a replica changes only to what the
\* source held when the last step began to read it: backups never install an
\* older state after a newer.
THEOREM ReplicasAreCurrent == Spec => [][replica' # replica => replica' = states[Now]]_vars
<1>1. IInv /\ [Next]_vars => [replica' # replica => replica' = states[Now]]_vars
  <2> SUFFICES ASSUME IInv, Next, replica' # replica PROVE replica' = states[Now] OBVIOUS
  <2>1. LastStep
    BY DEF Next, Record, SnapshotNext, BeginBackup, Backup, Step, Finish, OpenTemp, CopyInput,
           SyncTemp, Rename, SyncDir, Abandon, PowerLoss, backupVars
  <2> QED BY <2>1, CopiedIsPrefix DEF LastStep, IInv
<1> QED BY <1>1, Invariant, PTL DEF Spec

Gained ==
  /\ Step => seen' = Now /\ Len(copied') > (IF seen = Now THEN Len(copied) ELSE 0)
  /\ tool = "copying" /\ tool' = "copying" => Step \/ UNCHANGED <<copied, seen>>

\* Each step of a backup has more of the current state than the one before, or
\* starts over when the source has changed; nothing else takes a page away. A
\* source that is left alone is copied in at most NumPages steps.
THEOREM BackupsGain == Spec => [][Gained]_vars
<1>1. IInv /\ [Next]_vars => [Gained]_vars
  <2> SUFFICES ASSUME IInv, Next PROVE Gained OBVIOUS
  <2>1. ASSUME Step
        PROVE  seen' = Now /\ Len(copied') > (IF seen = Now THEN Len(copied) ELSE 0)
    <3>1. /\ Len(Copied(Kept)) \in (Len(Kept) + 1)..NumPages /\ Len(Kept) \in Nat
          /\ copied' = Copied(Kept) /\ seen' = Now
      BY <2>1, CopiedIsPrefix DEF Step, IInv
    <3>2. Len(copied') > Len(Kept) BY <3>1, PagesAssumption
    <3>3. Len(Kept) = IF seen = Now THEN Len(copied) ELSE 0 BY EmptySeq DEF Kept
    <3> QED BY <3>1, <3>2, <3>3
  <2>2. ASSUME tool = "copying", tool' = "copying"
        PROVE  Step \/ UNCHANGED <<copied, seen>>
    BY <2>2
    DEF Next, Record, SnapshotNext, BeginBackup, Backup, LastStep, Finish, OpenTemp, CopyInput,
        SyncTemp, Rename, SyncDir, Abandon, PowerLoss, backupVars
  <2> QED BY <2>1, <2>2 DEF Gained
<1> QED BY <1>1, Invariant, PTL DEF Spec

\* A server that opens a replica without migrating it finds the schema that its
\* versions say, without a gap.
THEOREM ReplicasWhole == Spec => []ReplicaWhole
<1>1. IInv => ReplicaWhole
  <2> SUFFICES ASSUME IInv, replica # NoReplica PROVE Whole(replica) BY DEF ReplicaWhole
  <2>1. PICK k \in 1..Now : replica = states[k] BY DEF IInv, BackupInv, ReplicaIsAState
  <2>2. Whole(states[k]) BY DEF IInv, StatesOK, Now
  <2> QED BY <2>1, <2>2
<1> QED BY <1>1, Invariant, PTL

\* Wherever an import fails, dies or loses power, the target is whole, and new
\* for good after one that succeeded.
THEOREM ImportsWhole == Spec => []ImportedWhole
<1>1. IInv => ImportedWhole BY DEF IInv, ImportInv, ImportedWhole
<1> QED BY <1>1, Invariant, PTL
=============================================================================

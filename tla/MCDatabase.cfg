CONSTANTS
  None = None
  NoReplica = NoReplica
  Processes = {p1, p2}
  Migrations = 2
  Additive = {2}
  MaxFaults = 1
  MaxWrites = 1
  NumPages = 3
  StepPages = 2
SPECIFICATION Spec
INVARIANTS MigratedWhole ReplicaIsAState ImportedWhole
PROPERTIES AllOpen BackupEnds

---------------------------- MODULE JobLifecycle ----------------------------
(***************************************************************************)
(* What the reader of GET /v1/admin/ingest/jobs/{jobId} may rely on: the   *)
(* four statuses of model/ingest.go and the changes between them, and      *)
(* "published" only for an asset with a catalog row.  An outcome may be    *)
(* replaced by the other one; nothing leads back to the queue.             *)
(***************************************************************************)
CONSTANTS Jobs, Assets, AssetOf

VARIABLES
  status,  \* the job's status, "absent" while there is no row
  rows     \* the assets that have a catalog row

vars == <<status, rows>>

Taken == {"processing", "published", "failed"}

Init ==
  /\ status = [j \in Jobs |-> "absent"]
  /\ rows = {}

Become(j, s) ==
  /\ status' = [status EXCEPT ![j] = s]
  /\ rows' = rows

Submit(j)  == status[j] = "absent" /\ Become(j, "queued")
Begin(j)   == status[j] \in {"queued", "processing"} /\ Become(j, "processing")
Fail(j)    == status[j] \in Taken /\ Become(j, "failed")
Publish(j) == /\ status[j] \in Taken
              /\ AssetOf[j] \in rows
              /\ Become(j, "published")

AddRow(a) ==
  /\ rows' = rows \cup {a}
  /\ status' = status

Next ==
  \/ \E j \in Jobs : Submit(j) \/ Begin(j) \/ Fail(j) \/ Publish(j)
  \/ \E a \in Assets : AddRow(a)

Spec == Init /\ [][Next]_vars
=============================================================================

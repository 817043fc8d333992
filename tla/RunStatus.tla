----------------------------- MODULE RunStatus -----------------------------
(***************************************************************************)
(* The values of job_runs.status (CHECK of migration 001_init), and two    *)
(* for rows that are not there: "none", the id is not in use yet, and      *)
(* "removed", the row has been deleted.                                    *)
(***************************************************************************)
Terminal  == {"success", "failed", "timed_out", "cancelled", "skipped_overlap"}
Retryable == {"failed", "timed_out"}
Statuses  == {"none", "queued", "running", "removed"} \cup Terminal
=============================================================================

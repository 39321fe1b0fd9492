------------------------------ MODULE TaskState ------------------------------
(***************************************************************************)
(* The status vocabulary of a backup record and of a schedule run, and the *)
(* pure functions the orchestration code computes with it                  *)
(* (app/services/task_state_service.py and                                 *)
(* _summarize_schedule_run_records in task_orchestration_service.py).      *)
(***************************************************************************)
EXTENDS Naturals, FiniteSets

RecordPending  == {"planned", "queued"}
RecordActive   == RecordPending \cup {"running"}
RecordTerminal == {"cancelled", "succeeded", "failed"}
RecordStatus   == RecordActive \cup RecordTerminal

RunActive   == {"planned", "dispatching", "running", "finalizing", "cancelling"}
RunTerminal == {"cancelled", "partial_cancelled", "succeeded", "partial_failed", "failed"}
RunStatus   == RunActive \cup RunTerminal

\* A row of the backup record table as far as the orchestration looks at it.
\* "absent" is the status of a deleted row: a lookup returns None.
Row == [status : RecordStatus \cup {"absent"}, success : BOOLEAN]

\* Mutant: unfinished records are forgotten.
DeriveIgnoringUnfinished(total, success, fail, cancelled, unfinished) ==
    IF total = 0 \/ (fail = 0 /\ cancelled = 0) THEN "succeeded"
    ELSE IF success = 0 THEN "failed" ELSE "partial_failed"

\* The terminal status a closed run is given from the counts of its records.
\* All arguments are naturals here, so the max(0, int(x or 0)) of the code is
\* the identity.
DeriveRunTerminal(total, success, fail, cancelled, unfinished) ==
    IF total = 0 THEN "succeeded"
    ELSE IF /\ cancelled >= total
            /\ success = 0 /\ fail = 0 /\ unfinished = 0 THEN "cancelled"
    ELSE IF cancelled > 0 /\ unfinished = 0 THEN "partial_cancelled"
    ELSE IF unfinished > 0 THEN (IF success > 0 THEN "partial_failed" ELSE "failed")
    ELSE IF fail = 0 THEN "succeeded"
    ELSE IF success = 0 THEN "failed" ELSE "partial_failed"

-----------------------------------------------------------------------------
\* The classification of _summarize_schedule_run_records, in its order: active
\* first, then cancelled, then by the success column.  rows is a function from
\* record ids to rows; absent rows are not among the records the query returns.
Present(rows)    == {r \in DOMAIN rows : rows[r].status # "absent"}
Unfinished(rows) == {r \in DOMAIN rows : rows[r].status \in RecordActive}
Cancelled(rows)  == {r \in DOMAIN rows : rows[r].status = "cancelled"}
Counted(rows)    == Present(rows) \ (Unfinished(rows) \cup Cancelled(rows))
Successes(rows)  == {r \in Counted(rows) : rows[r].success}
Failures(rows)   == {r \in Counted(rows) : ~rows[r].success}

\* The terminal status derived for a run of total_devices = total from rows.
DerivedStatus(total, rows) ==
    DeriveRunTerminal(total, Cardinality(Successes(rows)), Cardinality(Failures(rows)),
                      Cardinality(Cancelled(rows)), Cardinality(Unfinished(rows)))
=============================================================================

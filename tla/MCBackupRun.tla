----------------------------- MODULE MCBackupRun -----------------------------
(* Instances of BackupRun for TLC. *)
EXTENDS BackupRun, TLC

CONSTANTS r1, r2, w1, w2, t1, t2

MCRecords == {r1, r2}
OneWorker == {w1}
TwoWorkers == {w1, w2}
OneRequest == {t1}
TwoRequests == {t1, t2}

\* Records are interchangeable, and so are the worker processes and the requests.
Symmetric == Permutations(MCRecords) \cup Permutations(TwoWorkers) \cup Permutations(TwoRequests)
=============================================================================

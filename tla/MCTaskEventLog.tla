--------------------------- MODULE MCTaskEventLog ---------------------------
(* Instances of TaskEventLog for TLC. *)
EXTENDS TaskEventLog, TLC

CONSTANTS t1, t2

TwoThreads == {t1, t2}

\* Threads are interchangeable.
Symmetric == Permutations(TwoThreads)
=============================================================================

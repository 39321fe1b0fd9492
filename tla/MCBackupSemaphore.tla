-------------------------- MODULE MCBackupSemaphore --------------------------
(* Instances of BackupSemaphore for TLC. *)
EXTENDS BackupSemaphore

CONSTANTS r1, r2

TwoRecords   == {r1, r2}

\* One slot, one slot with fail-open, and no bound.
Bounded == [slots |-> 1, failOpen |-> FALSE]
MCConfigs == {Bounded, [slots |-> 1, failOpen |-> TRUE], [slots |-> 0, failOpen |-> FALSE]}
BoundedOnly == {Bounded}
=============================================================================

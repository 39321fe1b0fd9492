--------------------------- MODULE MCNotifications ---------------------------
(* Instances of Notifications for TLC. *)
EXTENDS Notifications

CONSTANTS i1, i2

TwoItems == {i1, i2}

Policy(events, accepts, stop) == [events |-> events, accepts |-> accepts, stop |-> stop]

\* The faults are played out with one failure and a policy for it.
MCPlain ==
    [outcome |-> [i \in TwoItems |-> IF i = i1 THEN "backup_failed" ELSE "absent"],
     policy  |-> [p \in 1..2 |-> Policy(IF p = 1 THEN {"backup_failed"} ELSE {}, TwoItems, FALSE)]]

\* The routes, for every outcome of two records and two policies.
MCConfigs ==
    {MCPlain} \cup
    [outcome : [TwoItems -> Outcomes],
     policy  : [1..2 -> [events : {{"backup_summary"}, {"backup_failed", "config_changed"}, {"task_cancelled"}},
                         accepts : (SUBSET TwoItems) \ {{}}, stop : BOOLEAN]]]
=============================================================================

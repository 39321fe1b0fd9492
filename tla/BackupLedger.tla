---------------------------- MODULE BackupLedger ----------------------------
(***************************************************************************)
(* What a schedule run promises to whoever reads its rows: every record    *)
(* gets at most one outcome, which is never replaced and only disappears   *)
(* with the record; the run's verdict is given on open runs only, says     *)
(* "succeeded" only when every outcome that is left does, and disappears   *)
(* only with the last record.  Once the work of a task was doubled (it was *)
(* delivered twice, or went on after its success) the promise is void.     *)
(***************************************************************************)
CONSTANTS Records, Outcomes, Verdicts

VARIABLES outcome, verdict, doubled

ledger == <<outcome, verdict, doubled>>

Init ==
    /\ outcome = [r \in Records |-> "open"]
    /\ verdict = "open"
    /\ doubled = FALSE

\* Outcomes are written once; a record may be deleted with or without one.
RecordsSettle ==
    \A r \in Records :
        \/ outcome'[r] = outcome[r]
        \/ outcome[r] = "open" /\ outcome'[r] \in Outcomes \cup {"gone"}
        \/ outcome[r] \in Outcomes /\ outcome'[r] = "gone"

Judge ==
    /\ verdict = "open" /\ verdict' \in Verdicts
    /\ verdict' = "succeeded" => \A r \in Records : outcome'[r] \in {"succeeded", "gone"}

\* The dispatcher's last write may find the run closed, and opens it again.
Reopen == verdict \in Verdicts /\ verdict' = "open"

Disappear ==
    /\ verdict \in Verdicts /\ verdict' = "gone"
    /\ \A r \in Records : outcome'[r] = "gone"

Next ==
    \/ doubled'
    \/ /\ ~doubled /\ ~doubled'
       /\ RecordsSettle
       /\ verdict' = verdict \/ Judge \/ Reopen \/ Disappear

Spec == Init /\ [][Next]_ledger
=============================================================================

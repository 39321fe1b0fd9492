------------------------------ MODULE BackupRun ------------------------------
(***************************************************************************)
(* One schedule run and its backup records, from the dispatching request   *)
(* to the finalizer that closes the run: the dispatcher (a web request or  *)
(* the scheduler's job running enqueue_schedule_run), the Celery workers   *)
(* (backup_record_task), the finalizer task, the terminate requests, the   *)
(* task_failure / task_revoked signal handlers and record deletion.        *)
(*                                                                         *)
(* A database transaction is one step at its commit, except where the code *)
(* calls out (broker, device, alerts) between reading and writing: there   *)
(* the read is one action, what was read is kept in the state, and the     *)
(* write is another.                                                       *)
(***************************************************************************)
EXTENDS TaskState

CONSTANTS
    Records,          \* the backup records of the run
    Workers,          \* worker processes of the Celery pool
    NoRecord,         \* the record of an idle worker
    MaxPolls,         \* CELERY_SCHEDULE_FINALIZE_MAX_POLLS
    MaxRetries,       \* backup_max_retries
    Terminators,      \* the web requests that terminate the run
    FaultKinds,       \* the faults the environment may inject
    MaxFaults,        \* bound: how many faults happen in a behaviour
    MaxTerminations   \* bound: how many terminate requests read the run

AllFaultKinds == {"crash", "redeliver", "lose", "ambiguous", "dispatcher",
                  "finalizer", "cleanup", "latelimit"}

ASSUME RunAssumption ==
    /\ IsFiniteSet(Records) /\ Records # {}
    /\ NoRecord \notin Records
    /\ MaxPolls \in Nat /\ MaxRetries \in Nat
    /\ FaultKinds \subseteq AllFaultKinds
    /\ MaxFaults \in Nat /\ MaxTerminations \in Nat

VARIABLES
    rec,          \* the committed backup record rows
    run,          \* the committed schedule run row
    broker,       \* how many messages of each record's task are deliverable
    revoked,      \* records whose task id was broadcast as revoked
    job,          \* what each worker process is doing
    dispatcher,   \* the request inside enqueue_schedule_run
    finalizer,    \* the finalizer task: its message, polls and what it read
    terminator,   \* the terminate requests and what each of them read
    budget,       \* faults and terminations used so far (bounds)
    history       \* records abandoned, collectors lost, tasks doubled (history)

vars == <<rec, run, broker, revoked, job, dispatcher, finalizer, terminator, budget, history>>

RunRow   == [status : RunStatus \cup {"missing"}, success : Nat, fail : Nat]
Idle     == [pc |-> "idle", rec |-> NoRecord, retries |-> 0, soft |-> FALSE]
Started(r, pc) == [pc |-> pc, rec |-> r, retries |-> 0, soft |-> FALSE]
Job      == [pc : {"idle", "checked", "executing", "backoff", "written", "acking"},
             rec : Records \cup {NoRecord}, retries : 0..MaxRetries, soft : BOOLEAN]
Dispatcher == [pc : {"commit", "finalizer", "records", "error", "done"}, sent : SUBSET Records]
Finalizer  == [pc : {"none", "queued", "closing", "done"}, polls : 0..MaxPolls,
               rows : [Records -> Row], run : RunRow]
Terminator == [pc : {"idle", "revoking"}, whole : BOOLEAN, sel : SUBSET Records,
               rows : [Records -> Row], run : RunRow]
Budget     == [faults : 0..MaxFaults, terminations : 0..MaxTerminations]
History    == [abandoned : SUBSET Records, collectorLost : BOOLEAN, duplicated : BOOLEAN]

NoRows   == [r \in Records |-> [status |-> "absent", success |-> FALSE]]
NoRun    == [status |-> "missing", success |-> 0, fail |-> 0]
NoTerm   == [pc |-> "idle", whole |-> FALSE, sel |-> {}, rows |-> NoRows, run |-> NoRun]

Executes(w, r) == job[w].rec = r /\ job[w].pc \in {"checked", "executing", "backoff"}
Exists(r)      == rec[r].status # "absent"
RunClosed      == run.status \in RunTerminal
Committed      == dispatcher.pc # "commit"

\* SQLAlchemy writes a column only when the assigned value differs from the one
\* the session loaded; otherwise the row keeps what others committed meanwhile.
Flush(current, loaded, new) == IF new = loaded THEN current ELSE new

\* The finalizer's uncommitted FINALIZING update holds the run's row lock until
\* its transaction ends; a run it read as CANCELLING it did not update.  Another
\* transaction that changes the row waits meanwhile: the conjunct
\* "RunLocked => run' = run" disables its step until the finalizer is through.
RunLocked == finalizer.pc = "closing" /\ finalizer.run.status # "cancelling"

UseFault(kind) ==
    /\ kind \in FaultKinds
    /\ budget.faults < MaxFaults
    /\ budget' = [budget EXCEPT !.faults = @ + 1]

-----------------------------------------------------------------------------
(* crud: the record writes.  Each is a fresh SELECT and an UPDATE in a short *)
(* session; a deleted record is left alone.                                  *)
SetRow(rows, S, row) == [r \in Records |-> IF r \in S /\ rows[r].status # "absent"
                                            THEN row ELSE rows[r]]
Succeeded == [status |-> "succeeded", success |-> TRUE]
Failed    == [status |-> "failed", success |-> FALSE]

\* finish_backup_record: unconditional.
Finish(r, row) == rec' = SetRow(rec, {r}, row)

\* _mark_backup_record_failed_if_unfinished for the records S.
IfUnfinished(rows, S) == {r \in S : rows[r].status \in RecordActive}
FailIfUnfinished(S) == rec' = SetRow(rec, IfUnfinished(rec, S), Failed)

\* update_backup_record_status: the success column is not touched.
SetStatus(S, status) ==
    rec' = [r \in Records |-> IF r \in S /\ Exists(r) THEN [rec[r] EXCEPT !.status = status]
                              ELSE rec[r]]

\* update_schedule_run_status, unconditional when the row exists.
SetRunStatus(status) ==
    run' = IF run.status = "missing" THEN run ELSE [run EXCEPT !.status = status]

-----------------------------------------------------------------------------
(* The dispatcher: enqueue_schedule_run.  In its state "commit" the planned  *)
(* rows are not visible to anyone else yet.                                  *)

\* Mutant: the tasks are dispatched before the first commit.
DispatchUncommitted ==
    /\ dispatcher.pc = "commit"
    /\ dispatcher' = [dispatcher EXCEPT !.pc = "finalizer"]
    /\ UNCHANGED <<rec, run, broker, revoked, job, finalizer, terminator, budget, history>>

\* First commit: run DISPATCHING and every record QUEUED; or, when Celery is
\* disabled, everything FAILED at once.
DispatchCommit ==
    /\ dispatcher.pc = "commit"
    /\ SetRunStatus("dispatching")
    /\ SetStatus(Records, "queued")
    /\ dispatcher' = [dispatcher EXCEPT !.pc = "finalizer"]
    /\ UNCHANGED <<broker, revoked, job, finalizer, terminator, budget, history>>

\* Mutant: the run is left as it is when nothing could be enqueued.
FinishNothing == run' = run

FinishEnqueueFailed ==
    run' = IF run.status \in RunTerminal \cup {"missing"} THEN run
           ELSE [status |-> "failed", success |-> 0, fail |-> Cardinality(Records)]

CeleryDisabled ==
    /\ dispatcher.pc = "commit"
    /\ FailIfUnfinished(Records)
    /\ FinishEnqueueFailed
    /\ dispatcher' = [dispatcher EXCEPT !.pc = "done"]
    /\ UNCHANGED <<broker, revoked, job, finalizer, terminator, budget, history>>

DispatchFinalizer ==
    /\ dispatcher.pc = "finalizer"
    /\ dispatcher' = [dispatcher EXCEPT !.pc = "records"]
    /\ finalizer' = [finalizer EXCEPT !.pc = "queued"]
    /\ UNCHANGED <<rec, run, broker, revoked, job, terminator, budget, history>>

DispatchRecord(r) ==
    /\ dispatcher.pc = "records" /\ r \notin dispatcher.sent
    /\ dispatcher' = [dispatcher EXCEPT !.sent = @ \cup {r}]
    /\ broker' = [broker EXCEPT ![r] = @ + 1]
    /\ UNCHANGED <<rec, run, revoked, job, finalizer, terminator, budget, history>>

\* apply_async raises: nothing was published.
DispatchRaises ==
    /\ \/ dispatcher.pc = "finalizer"
       \/ dispatcher.pc = "records" /\ dispatcher.sent # Records
    /\ dispatcher' = [dispatcher EXCEPT !.pc = "error"]
    /\ UNCHANGED <<rec, run, broker, revoked, job, finalizer, terminator, budget, history>>

\* apply_async raises although the broker accepted the message.
DispatchAmbiguous ==
    /\ UseFault("ambiguous")
    /\ \/ /\ dispatcher.pc = "finalizer"
          /\ finalizer' = [finalizer EXCEPT !.pc = "queued"]
          /\ UNCHANGED <<broker, history>>
       \/ /\ dispatcher.pc = "records"
          /\ \E r \in Records \ dispatcher.sent : broker' = [broker EXCEPT ![r] = @ + 1]
          /\ history' = [history EXCEPT !.duplicated = TRUE]
          /\ UNCHANGED finalizer
    /\ dispatcher' = [dispatcher EXCEPT !.pc = "error"]
    /\ UNCHANGED <<rec, run, revoked, job, terminator>>

\* A write of an active status over a closed run leaves it without a collector
\* when the finalizer is gone.
NoteReopening ==
    history' = [history EXCEPT !.collectorLost =
        @ \/ (RunClosed /\ run'.status \in RunActive /\ finalizer.pc = "done")]

\* All dispatched: the run is set RUNNING whatever became of it meanwhile.
DispatchDone ==
    /\ dispatcher.pc = "records" /\ dispatcher.sent = Records
    /\ ~RunLocked
    /\ SetRunStatus("running")
    /\ dispatcher' = [dispatcher EXCEPT !.pc = "done"]
    /\ NoteReopening
    /\ UNCHANGED <<rec, broker, revoked, job, finalizer, terminator, budget>>

\* The except clause: records not enqueued are failed if still unfinished, the
\* run is closed when none was enqueued and set RUNNING otherwise.
DispatchError ==
    /\ dispatcher.pc = "error"
    /\ FailIfUnfinished(Records \ dispatcher.sent)
    /\ IF dispatcher.sent = {} THEN FinishEnqueueFailed ELSE SetRunStatus("running")
    /\ RunLocked => run' = run
    /\ dispatcher' = [dispatcher EXCEPT !.pc = "done"]
    /\ NoteReopening
    /\ UNCHANGED <<broker, revoked, job, finalizer, terminator, budget>>

\* The web or scheduler process dies after its first commit.
DispatcherCrash ==
    /\ dispatcher.pc \in {"finalizer", "records", "error"}
    /\ UseFault("dispatcher")
    /\ dispatcher' = [dispatcher EXCEPT !.pc = "done"]
    /\ history' = [history EXCEPT !.abandoned = @ \cup (Records \ dispatcher.sent),
                                  !.collectorLost = @ \/ finalizer.pc = "none"]
    /\ UNCHANGED <<rec, run, broker, revoked, job, finalizer, terminator>>

-----------------------------------------------------------------------------
(* The workers: backup_record_task.  acks_late: a message taken from the     *)
(* broker stays unacknowledged until the worker is idle again.               *)

Take(w, r) == job[w].pc = "idle" /\ broker[r] > 0 /\ broker' = [broker EXCEPT ![r] = @ - 1]
Become(w, pc) == job' = [job EXCEPT ![w].pc = pc]
Release(w)    == job' = [job EXCEPT ![w] = Idle]

\* A revoked id: the task is discarded and _on_backup_record_task_revoked runs.
DiscardRevoked(w, r) ==
    /\ r \in revoked /\ Take(w, r)
    /\ rec' = SetRow(rec, IfUnfinished(rec, {r}), [status |-> "cancelled", success |-> FALSE])
    /\ UNCHANGED <<run, revoked, job, dispatcher, finalizer, terminator, budget, history>>

\* Mutant: the task does not look at the status.
MayExecuteAnything(r) == Exists(r)

MayExecute(r) == Exists(r) /\ rec[r].status \notin RecordTerminal

\* The check in the task's first session.  A worker that missed the broadcast
\* of a revoke gets here too.
StartTask(w, r) ==
    /\ Take(w, r)
    /\ job' = [job EXCEPT ![w] = Started(r, IF MayExecute(r) THEN "checked" ELSE "acking")]
    /\ UNCHANGED <<rec, run, revoked, dispatcher, finalizer, terminator, budget, history>>

Step(w, pc) ==
    /\ job[w].pc = pc
    /\ UNCHANGED <<run, broker, revoked, dispatcher, finalizer, terminator, budget, history>>

\* No slot: self.retry publishes the same task again.
WaitForSlot(w) ==
    /\ job[w].pc = "checked"
    /\ broker' = [broker EXCEPT ![job[w].rec] = @ + 1]
    /\ Release(w)
    /\ UNCHANGED <<rec, run, revoked, dispatcher, finalizer, terminator, budget, history>>

\* The semaphore's retries are exhausted: the task fails, and the task_failure
\* handler marks the record failed if it is unfinished.
GiveUpSlot(w) ==
    /\ Step(w, "checked")
    /\ FailIfUnfinished({job[w].rec})
    /\ Become(w, "acking")

\* load_backup_execution_context: RUNNING without looking at the status again.
Execute(w) ==
    /\ Step(w, "checked")
    /\ SetStatus({job[w].rec}, "running")
    /\ Become(w, "executing")

\* Device or template missing, or platforms differ: _abort_backup_execution.
AbortTask(w) ==
    /\ Step(w, "checked")
    /\ Finish(job[w].rec, Failed)
    /\ Become(w, "acking")

\* What follows the commit, up to the return, is still inside the try.
BackupSucceeds(w) ==
    /\ Step(w, "executing")
    /\ Finish(job[w].rec, Succeeded)
    /\ Become(w, "written")

BackupFails(w) ==
    /\ Step(w, "executing")
    /\ Finish(job[w].rec, Failed)
    /\ Become(w, "acking")

\* A retryable failure: the task sleeps and tries again in the same execution.
RetryBackup(w) ==
    /\ Step(w, "executing") /\ job[w].retries < MaxRetries
    /\ job' = [job EXCEPT ![w].pc = "backoff", ![w].retries = @ + 1]
    /\ UNCHANGED rec

Resume(w) == Step(w, "backoff") /\ Become(w, "executing") /\ UNCHANGED rec

\* An attempt that fails at the soft limit: retried if it may be, FAILED if not.
Backoff(w) ==
    /\ job[w].retries < MaxRetries
    /\ job' = [job EXCEPT ![w].pc = "backoff", ![w].retries = @ + 1, ![w].soft = TRUE]
    /\ UNCHANGED rec
GiveUp(w) == Finish(job[w].rec, Failed) /\ Become(w, "acking")

\* SoftTimeLimitExceeded during an attempt.  In the device session netmiko_client
\* turns it into a NetmikoClientError UNKNOWN, which is not retried; elsewhere in
\* the attempt it is retryable itself.
SoftLimit(w) ==
    /\ Step(w, "executing") /\ ~job[w].soft
    /\ Backoff(w) \/ GiveUp(w)

\* After the commit of a success it is taken for a failure of the attempt too: the
\* device is backed up again, or FAILED replaces SUCCEEDED.
SoftLimitWritten(w) ==
    /\ job[w].pc = "written" /\ ~job[w].soft
    /\ UseFault("latelimit")
    /\ Backoff(w) \/ (job[w].retries = MaxRetries /\ GiveUp(w))
    /\ history' = [history EXCEPT !.duplicated = TRUE]
    /\ UNCHANGED <<run, broker, revoked, dispatcher, finalizer, terminator>>

\* Outside the try (the sleep before a retry is) it escapes the task: the
\* task_failure handler runs.
SoftLimitEscapes(w) ==
    /\ job[w].pc \in {"checked", "executing", "backoff"} /\ ~job[w].soft
    /\ FailIfUnfinished({job[w].rec})
    /\ Become(w, "acking")
    /\ UNCHANGED <<run, broker, revoked, dispatcher, finalizer, terminator, budget, history>>

\* Mutant: nothing runs for a task that is killed.
HardLimitUnhandled(w) ==
    /\ job[w].pc # "idle"
    /\ Release(w)
    /\ UNCHANGED <<rec, run, broker, revoked, dispatcher, finalizer, terminator, budget, history>>

\* At the hard limit the pool kills the process; its parent acknowledges the message
\* and sends task_failure, whose handler runs there.  (Handler and kill are one step.)
HardLimit(w) ==
    /\ job[w].pc # "idle"
    /\ FailIfUnfinished({job[w].rec})
    /\ Release(w)
    /\ UNCHANGED <<run, broker, revoked, dispatcher, finalizer, terminator, budget, history>>

Ack(w) ==
    /\ job[w].pc \in {"written", "acking"}
    /\ Release(w)
    /\ UNCHANGED <<rec, run, broker, revoked, dispatcher, finalizer, terminator, budget, history>>

\* Mutant: the message was acknowledged when the task started.
AckedEarly(w) == UNCHANGED broker

\* The process is lost: reject_on_worker_lost requeues the message.
Requeue(w) == broker' = [broker EXCEPT ![job[w].rec] = @ + 1]
Crash(w) ==
    /\ job[w].pc # "idle"
    /\ UseFault("crash")
    /\ Requeue(w)
    /\ Release(w)
    /\ UNCHANGED <<rec, run, revoked, dispatcher, finalizer, terminator, history>>

\* The broker delivers an unacknowledged message again (visibility timeout).
Redeliver(w) ==
    /\ job[w].pc # "idle"
    /\ UseFault("redeliver")
    /\ broker' = [broker EXCEPT ![job[w].rec] = @ + 1]
    /\ history' = [history EXCEPT !.duplicated = TRUE]
    /\ UNCHANGED <<rec, run, revoked, job, dispatcher, finalizer, terminator>>

\* The broker loses a message (restart without persistence, failed republish).
Lose(r) ==
    /\ broker[r] > 0
    /\ UseFault("lose")
    /\ broker' = [broker EXCEPT ![r] = @ - 1]
    /\ history' = [history EXCEPT !.abandoned = @ \cup {r}]
    /\ UNCHANGED <<rec, run, revoked, job, dispatcher, finalizer, terminator>>

-----------------------------------------------------------------------------
(* The finalizer: finalize_schedule_run_task.  A poll that asks to be        *)
(* retried raises inside its session, so its FINALIZING update is rolled     *)
(* back and the run keeps its status.                                        *)

Finished(rows) == {r \in Records : rows[r].status \in RecordTerminal}

\* Mutants of PollAgain: one poll too many, and closing as soon as any record is
\* finished.
PollAgainOffByOne(rows, polls) == Finished(rows) # Records /\ polls <= MaxPolls
PollAgainUntilAny(rows, polls) == Finished(rows) = {} /\ polls < MaxPolls

PollAgain(rows, polls) == Finished(rows) # Records /\ polls < MaxPolls

AlreadyFinished == run.status \in RunTerminal \cup {"missing"}

FinalizerPoll ==
    /\ finalizer.pc = "queued"
    /\ IF AlreadyFinished
       THEN finalizer' = [finalizer EXCEPT !.pc = "done"]
       ELSE IF PollAgain(rec, finalizer.polls)
            THEN finalizer' = [finalizer EXCEPT !.polls = @ + 1]
            ELSE finalizer' = [finalizer EXCEPT !.pc = "closing", !.rows = rec, !.run = run]
    /\ UNCHANGED <<rec, run, broker, revoked, job, dispatcher, terminator, budget, history>>

\* Mutant: the status of a run being cancelled is kept.
CloseRunUnlessCancelling(seen, rows) ==
    run' = [status  |-> IF seen.status = "cancelling" THEN seen.status
                        ELSE DerivedStatus(Cardinality(Records), rows),
            success |-> Cardinality(Successes(rows)), fail |-> Cardinality(Failures(rows))]

\* Mutant: the last poll leaves a run with unfinished records open.
CloseRunIfFinished(seen, rows) ==
    run' = [status  |-> IF Unfinished(rows) # {} THEN seen.status
                        ELSE DerivedStatus(Cardinality(Records), rows),
            success |-> Cardinality(Successes(rows)), fail |-> Cardinality(Failures(rows))]

\* finish_schedule_run of a session that loaded the run as seen: the status
\* always changes, the counts are written when they differ from the loaded ones.
CloseRun(seen, rows) ==
    run' = [status  |-> DerivedStatus(Cardinality(Records), rows),
            success |-> Flush(run.success, seen.success, Cardinality(Successes(rows))),
            fail    |-> Flush(run.fail, seen.fail, Cardinality(Failures(rows)))]

Dismissed == [pc |-> "done", polls |-> finalizer.polls, rows |-> NoRows, run |-> NoRun]

\* Alerts are sent between the read and this commit.  When the row is gone the
\* update matches nothing and the task fails.
FinalizerClose ==
    /\ finalizer.pc = "closing"
    /\ IF run.status = "missing" THEN UNCHANGED run ELSE CloseRun(finalizer.run, finalizer.rows)
    /\ finalizer' = Dismissed
    /\ UNCHANGED <<rec, broker, revoked, job, dispatcher, terminator, budget, history>>

\* Any other exception (database, alerting) rolls the close back and the task
\* is not tried again.
FinalizerFails ==
    /\ finalizer.pc \in {"queued", "closing"}
    /\ UseFault("finalizer")
    /\ finalizer' = Dismissed
    /\ history' = [history EXCEPT !.collectorLost = TRUE]
    /\ UNCHANGED <<rec, run, broker, revoked, job, dispatcher, terminator>>

\* The worker running it is lost: its message is delivered again.
FinalizerCrash ==
    /\ finalizer.pc = "closing"
    /\ UseFault("crash")
    /\ finalizer' = [Dismissed EXCEPT !.pc = "queued"]
    /\ UNCHANGED <<rec, run, broker, revoked, job, dispatcher, terminator, history>>

-----------------------------------------------------------------------------
(* Terminate requests: terminate_schedule_run (whole) and                    *)
(* terminate_selected_schedule_run.  Between reading the rows and the commit *)
(* the request talks to the broker once per pending record.                  *)

\* Mutant: running records are terminated too.
NotFinished(rows, S) == {r \in S : rows[r].status \in RecordActive}

Pending(rows, S) == {r \in S : rows[r].status \in RecordPending}

TerminateRead(t, whole, S) ==
    /\ Committed /\ terminator[t].pc = "idle"
    /\ budget.terminations < MaxTerminations
    /\ run.status \in RunActive
    /\ whole => S = Records
    /\ Pending(rec, S) # {}
    /\ terminator' = [terminator EXCEPT ![t] =
                         [pc |-> "revoking", whole |-> whole, sel |-> Pending(rec, S),
                          rows |-> rec, run |-> run]]
    /\ revoked' = revoked \cup Pending(rec, S)
    /\ budget' = [budget EXCEPT !.terminations = @ + 1]
    /\ UNCHANGED <<rec, run, broker, job, dispatcher, finalizer, history>>

\* cancel_backup_record of rows loaded as pending; success was loaded FALSE.
CancelRows(t) ==
    rec' = [r \in Records |->
              IF r \in terminator[t].sel
              THEN [status  |-> "cancelled",
                    success |-> Flush(rec[r].success, terminator[t].rows[r].success, FALSE)]
              ELSE rec[r]]

\* What the request believes the rows are: its own cancellations over the
\* snapshot it read.
BelievedRows(t) ==
    [r \in Records |-> IF r \in terminator[t].sel
                       THEN [status |-> "cancelled", success |-> FALSE]
                       ELSE terminator[t].rows[r]]

RowsGone(t) == run.status = "missing" \/ \E r \in terminator[t].sel : ~Exists(r)
Dismiss(t)  == terminator' = [terminator EXCEPT ![t] = NoTerm]

TerminateCommit(t) ==
    /\ terminator[t].pc = "revoking" /\ ~RowsGone(t)
    /\ CancelRows(t)
    /\ IF Unfinished(BelievedRows(t)) = {} THEN CloseRun(terminator[t].run, BelievedRows(t))
       ELSE IF terminator[t].whole
            THEN run' = [run EXCEPT !.status = Flush(@, terminator[t].run.status, "cancelling")]
            ELSE UNCHANGED run
    /\ RunLocked => run' = run
    /\ Dismiss(t)
    /\ NoteReopening
    /\ UNCHANGED <<broker, revoked, job, dispatcher, finalizer, budget>>

\* An update of a deleted row rolls the whole request back; so does the database
\* when two requests lock the rows in different orders.
Deadlocked(t) == \E u \in Terminators \ {t} : terminator[u].pc = "revoking"
TerminateRollback(t) ==
    /\ terminator[t].pc = "revoking" /\ (RowsGone(t) \/ Deadlocked(t))
    /\ Dismiss(t)
    /\ UNCHANGED <<rec, run, broker, revoked, job, dispatcher, finalizer, budget, history>>

\* Mutant: the run goes with its first record.
DeleteWithRun(r) ==
    /\ rec[r].status \in RecordTerminal
    /\ rec' = [rec EXCEPT ![r] = [status |-> "absent", success |-> FALSE]]
    /\ run' = IF RunClosed THEN NoRun ELSE run
    /\ UNCHANGED <<broker, revoked, job, dispatcher, finalizer, terminator, budget, history>>

\* Deleting a record: a finished one on request (delete_backup), any by age
\* (cleanup_old_backups) or with its device, if it became active after the check
\* (delete_device).  A closed run that has no record left is deleted with it.
DeleteRecord(r) ==
    /\ \/ rec[r].status \in RecordTerminal /\ UNCHANGED budget
       \/ Committed /\ rec[r].status \in RecordActive /\ UseFault("cleanup")
    /\ rec' = [rec EXCEPT ![r] = [status |-> "absent", success |-> FALSE]]
    /\ run' = IF RunClosed /\ Present(rec) = {r} THEN NoRun ELSE run
    /\ UNCHANGED <<broker, revoked, job, dispatcher, finalizer, terminator, history>>

-----------------------------------------------------------------------------
Init ==
    /\ rec = [r \in Records |-> [status |-> "planned", success |-> FALSE]]
    /\ run = [status |-> "planned", success |-> 0, fail |-> 0]
    /\ broker = [r \in Records |-> 0]
    /\ revoked = {}
    /\ job = [w \in Workers |-> Idle]
    /\ dispatcher = [pc |-> "commit", sent |-> {}]
    /\ finalizer = [pc |-> "none", polls |-> 0, rows |-> NoRows, run |-> NoRun]
    /\ terminator = [t \in Terminators |-> NoTerm]
    /\ budget = [faults |-> 0, terminations |-> 0]
    /\ history = [abandoned |-> {}, collectorLost |-> FALSE, duplicated |-> FALSE]

Dispatch == \/ DispatchCommit \/ CeleryDisabled \/ DispatchFinalizer
            \/ \E r \in Records : DispatchRecord(r)
            \/ DispatchRaises \/ DispatchDone \/ DispatchError

Work(w) == \/ \E r \in Records : StartTask(w, r) \/ DiscardRevoked(w, r)
           \/ WaitForSlot(w) \/ GiveUpSlot(w) \/ Execute(w) \/ AbortTask(w)
           \/ BackupSucceeds(w) \/ BackupFails(w) \/ RetryBackup(w) \/ Resume(w)
           \/ SoftLimit(w) \/ SoftLimitEscapes(w) \/ HardLimit(w) \/ Ack(w)

Finalize == FinalizerPoll \/ FinalizerClose

Terminate(t) == \/ \E whole \in BOOLEAN, S \in SUBSET Records : TerminateRead(t, whole, S)
                \/ TerminateCommit(t) \/ TerminateRollback(t)

Environment == \/ DispatchAmbiguous \/ DispatcherCrash
               \/ \E w \in Workers : Crash(w) \/ Redeliver(w) \/ SoftLimitWritten(w)
               \/ \E r \in Records : Lose(r) \/ DeleteRecord(r)
               \/ FinalizerFails \/ FinalizerCrash

Next == \/ Dispatch \/ Finalize \/ Environment
        \/ \E w \in Workers : Work(w)
        \/ \E t \in Terminators : Terminate(t)

Spec == Init /\ [][Next]_vars

\* The request, the pool and the finalizer keep going.  A task that waits for a
\* slot gets one in the end (its 1,000,000 retries outlast the others); device
\* sessions end (netmiko's timeouts, and the soft limit behind them).
FairSpec ==
    /\ Spec
    /\ WF_vars(Dispatch)
    /\ WF_vars(Finalize)
    /\ \A w \in Workers : /\ WF_vars(Work(w))
                          /\ SF_vars(Execute(w) \/ AbortTask(w) \/ GiveUpSlot(w))

-----------------------------------------------------------------------------
(* Properties. *)

TypeOK ==
    /\ rec \in [Records -> Row]
    /\ run \in RunRow
    /\ broker \in [Records -> Nat]
    /\ revoked \subseteq Records
    /\ job \in [Workers -> Job]
    /\ \A w \in Workers : job[w].pc # "idle" => job[w].rec \in Records
    /\ dispatcher \in Dispatcher
    /\ finalizer \in Finalizer
    /\ terminator \in [Terminators -> Terminator]
    /\ budget \in Budget
    /\ history \in History

\* Whatever is dispatched was committed first: no worker and no finalizer ever
\* meets a planned row ("Make schedule-run and backup records visible before
\* workers load them").
DispatchedIsVisible ==
    /\ \A r \in Records : broker[r] > 0 \/ (\E w \in Workers : job[w].rec = r)
                            => rec[r].status # "planned"
    /\ finalizer.pc # "none" => run.status # "planned"

\* Someone who will finish it stands behind an unfinished record: a message, an
\* execution, or the dispatcher that has not dispatched it yet.  The exceptions
\* are the records the environment took the owner of.
Owned(r) == \/ broker[r] > 0
            \/ \E w \in Workers : Executes(w, r)
            \/ dispatcher.pc # "done" /\ r \notin dispatcher.sent
            \/ r \in history.abandoned

UnfinishedIsOwned == \A r \in Records : rec[r].status \in RecordActive => Owned(r)

\* An open run has a finalizer that will close it, or a dispatcher that is about
\* to dispatch one or to close the run itself, unless it was reopened after its
\* close, or the finalizer was lost to a fault.
OpenRunHasCollector ==
    run.status \in RunActive =>
        \/ finalizer.pc \in {"queued", "closing"}
        \/ dispatcher.pc \in {"commit", "finalizer"}
        \/ dispatcher.pc = "error" /\ dispatcher.sent = {}
        \/ history.collectorLost

\* A terminate request stops what has not started ("pending_only"): a running
\* record is cancelled only by a request that read it pending, or when its task,
\* requeued by a crash, is discarded as revoked.
TerminationIsPendingOnly ==
    [][\A r \in Records : rec[r].status = "running" /\ rec'[r].status = "cancelled" =>
            \/ \E t \in Terminators : terminator[t].rows[r].status \in RecordPending
            \/ broker'[r] < broker[r]]_vars

\* Unless a task was doubled, or undid its own success at the soft limit, and without
\* terminate requests, a record is finished once: crashes, restarts, lost messages,
\* retries and kills at the hard limit never rewrite its outcome.
FinishedStaysFinished ==
    [][\A r \in Records : rec[r].status \in RecordTerminal
                            => \/ rec'[r] = rec[r] \/ rec'[r].status = "absent"
                               \/ history'.duplicated]_vars

\* Unless a task was doubled, a run that says it succeeded tells the truth about
\* every record that still exists, however late a record finished and however the run was closed.
SucceededRunIsTrue ==
    run.status = "succeeded" /\ ~history.duplicated =>
        \A r \in Records : rec[r].status \in {"succeeded", "absent"}

\* Unless a task was doubled, a run closed before its polls ran out carries the
\* counts of its records.
ClosedCountsMatch ==
    RunClosed /\ finalizer.polls < MaxPolls /\ Present(rec) = Records /\ ~history.duplicated =>
        /\ run.success = Cardinality(Successes(rec))
        /\ run.fail = Cardinality(Failures(rec))

\* Refinement: a reader of the rows sees a BackupLedger.  Without terminate
\* requests each record's outcome is written once and the run's verdict is true
\* when it is given, whatever crashes, is lost, is retried or is deleted.
Ledger == INSTANCE BackupLedger WITH
    Outcomes <- RecordTerminal,
    Verdicts <- RunTerminal,
    outcome  <- [r \in Records |-> IF rec[r].status \in RecordTerminal THEN rec[r].status
                                   ELSE IF Exists(r) THEN "open" ELSE "gone"],
    verdict  <- IF RunClosed THEN run.status
                ELSE IF run.status = "missing" THEN "gone" ELSE "open",
    doubled  <- history.duplicated

IsLedger == Ledger!Spec

\* Every run is closed in the end and stays so, also when records are lost,
\* deleted or never finish (the finalizer's polls are bounded), unless its
\* finalizer is lost or a late write reopens it.
RunSettles == <>[](run.status \in RunTerminal \cup {"missing"} \/ history.collectorLost)

\* A queued record is finished in the end, through worker crashes and waits for
\* a slot, unless the environment lost its task.
QueuedIsFinished ==
    \A r \in Records : rec[r].status = "queued" ~>
        (rec[r].status \in RecordTerminal \cup {"absent"} \/ r \in history.abandoned)

\* "Even if revoke fails, a cancelled DB status prevents execution from
\* proceeding" (terminate_schedule_run): a cancelled record is never run.
CancelledNeverRuns ==
    [][\A r \in Records : rec[r].status = "cancelled" => rec'[r].status # "running"]_vars

\* "Enqueue finalizer first so partial backup dispatch failures still have a
\* collector to close the run" (enqueue_schedule_run): an open run whose dispatch
\* is over has its finalizer.
CollectorOutlivesDispatch ==
    run.status \in RunActive /\ dispatcher.pc = "done" => finalizer.pc \in {"queued", "closing"}

=============================================================================

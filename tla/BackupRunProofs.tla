-------------------------- MODULE BackupRunProofs --------------------------
(***************************************************************************)
(* What holds of BackupRun for every number of records and workers, every  *)
(* bound and every mix of faults: types, the visibility of what is         *)
(* dispatched, the owner of an unfinished record, the scope of a           *)
(* termination and the collector of an open run; and, without terminate    *)
(* requests, final outcomes, true counts and the refinement of             *)
(* BackupLedger.                                                           *)
(***************************************************************************)
EXTENDS BackupRun, FiniteSetTheorems, TLAPS

\* derive_schedule_run_terminal_status always closes the run.
LEMMA DeriveIsTerminal ==
    ASSUME NEW total \in Nat, NEW s \in Nat, NEW f \in Nat, NEW c \in Nat, NEW u \in Nat
    PROVE  DeriveRunTerminal(total, s, f, c, u) \in RunTerminal
BY DEF DeriveRunTerminal, RunTerminal

\* The counts of _summarize_schedule_run_records are natural numbers.
LEMMA CountsAreNaturals ==
    ASSUME NEW rows \in [Records -> Row]
    PROVE  /\ Cardinality(Records) \in Nat
           /\ Cardinality(Successes(rows)) \in Nat /\ Cardinality(Failures(rows)) \in Nat
           /\ Cardinality(Cancelled(rows)) \in Nat /\ Cardinality(Unfinished(rows)) \in Nat
<1>1. /\ Successes(rows) \subseteq Records /\ Failures(rows) \subseteq Records
      /\ Cancelled(rows) \subseteq Records /\ Unfinished(rows) \subseteq Records
  BY DEF Successes, Failures, Counted, Present, Cancelled, Unfinished
<1>2. \A S \in SUBSET Records : Cardinality(S) \in Nat
  BY FS_Subset, FS_CardinalityType, RunAssumption DEF RunAssumption
<1> QED BY <1>1, <1>2

\* finish_schedule_run leaves a typed, closed run.
LEMMA CloseRunClosesIt ==
    ASSUME NEW seen \in RunRow, NEW rows \in [Records -> Row], run \in RunRow,
           CloseRun(seen, rows)
    PROVE  run' \in RunRow /\ run'.status \in RunTerminal
<1>1. DerivedStatus(Cardinality(Records), rows) \in RunTerminal
  BY CountsAreNaturals, DeriveIsTerminal DEF DerivedStatus
<1>2. run.success \in Nat /\ run.fail \in Nat
  BY DEF RunRow
<1> QED BY <1>1, <1>2, CountsAreNaturals DEF CloseRun, Flush, RunRow, RunStatus

\* Every write of a record row keeps the rows typed.
LEMMA RowWrites ==
    ASSUME rec \in [Records -> Row]
    PROVE  /\ \A r \in Records, row \in Row : Finish(r, row) => rec' \in [Records -> Row]
           /\ \A S : FailIfUnfinished(S) => rec' \in [Records -> Row]
           /\ \A S : \A status \in RecordStatus : SetStatus(S, status) => rec' \in [Records -> Row]
<1>1. Failed \in Row /\ Succeeded \in Row
  BY DEF Failed, Succeeded, Row, RecordStatus, RecordTerminal
<1> QED BY <1>1 DEF Finish, FailIfUnfinished, SetRow, SetStatus, Row

\* So do the writes of the run that are not its close.
LEMMA RunWrites ==
    ASSUME run \in RunRow
    PROVE  /\ \A status \in RunStatus : SetRunStatus(status) => run' \in RunRow
           /\ FinishEnqueueFailed => run' \in RunRow
<1>1. Cardinality(Records) \in Nat
  BY FS_CardinalityType, RunAssumption DEF RunAssumption
<1> QED BY <1>1 DEF SetRunStatus, FinishEnqueueFailed, RunRow, RunStatus, RunTerminal

JobsTyped == /\ job \in [Workers -> Job]
             /\ \A w \in Workers : job[w].pc # "idle" => job[w].rec \in Records

\* A worker that lets go or goes on keeps the jobs typed.
LEMMA JobWrites ==
    ASSUME JobsTyped, NEW w \in Workers
    PROVE  /\ Release(w) => JobsTyped'
           /\ \A pc \in {"checked", "executing", "backoff", "written", "acking"} :
                 job[w].pc # "idle" /\ Become(w, pc) => JobsTyped'
<1>1. ASSUME Release(w) PROVE JobsTyped'
  <2>1. Idle \in Job
    BY RunAssumption DEF RunAssumption, Idle, Job
  <2> QED BY <1>1, <2>1 DEF JobsTyped, Release, Idle
<1>2. ASSUME NEW pc \in {"checked", "executing", "backoff", "written", "acking"},
             job[w].pc # "idle", Become(w, pc)
      PROVE  JobsTyped'
  <2>1. [job[w] EXCEPT !.pc = pc] \in Job
    BY DEF JobsTyped, Job
  <2>2. job' = [job EXCEPT ![w] = [job[w] EXCEPT !.pc = pc]]
    BY <1>2 DEF Become
  <2>3. [job[w] EXCEPT !.pc = pc].rec = job[w].rec
    BY DEF JobsTyped, Job
  <2> QED BY <1>2, <2>1, <2>2, <2>3 DEF JobsTyped
<1> QED BY <1>1, <1>2

\* Rows, messages, jobs and requests stay within the values the code writes; in
\* particular the finalizer polls at most MaxPolls times and a task is tried at
\* most MaxRetries times again.
THEOREM TypeCorrect == Spec => []TypeOK
<1>1. Init => TypeOK
  <2> SUFFICES ASSUME Init PROVE TypeOK
    OBVIOUS
  <2>1. NoRows \in [Records -> Row] /\ NoRun \in RunRow
    BY DEF NoRows, NoRun, Row, RunRow
  <2>2. /\ rec \in [Records -> Row] /\ run \in RunRow /\ broker \in [Records -> Nat]
        /\ revoked \subseteq Records /\ dispatcher \in Dispatcher
    BY DEF Init, Row, RecordStatus, RecordActive, RecordPending, RunRow, RunStatus, RunActive,
           Dispatcher
  <2>3. JobsTyped
    BY RunAssumption DEF RunAssumption, Init, JobsTyped, Job, Idle
  <2>4. finalizer \in Finalizer /\ terminator \in [Terminators -> Terminator]
    BY <2>1, RunAssumption DEF RunAssumption, Init, Finalizer, Terminator, NoTerm
  <2>5. budget \in Budget /\ history \in History
    BY RunAssumption DEF RunAssumption, Init, Budget, History
  <2> QED BY <2>2, <2>3, <2>4, <2>5 DEF TypeOK, JobsTyped
<1>2. TypeOK /\ [Next]_vars => TypeOK'
  <2> SUFFICES ASSUME TypeOK, [Next]_vars PROVE TypeOK'
    OBVIOUS
  <2>a. JobsTyped
    BY DEF TypeOK, JobsTyped
  <2>b. TypeOK' <=> /\ rec' \in [Records -> Row] /\ run' \in RunRow
                    /\ broker' \in [Records -> Nat] /\ revoked' \subseteq Records
                    /\ JobsTyped' /\ dispatcher' \in Dispatcher
                    /\ finalizer' \in Finalizer
                    /\ terminator' \in [Terminators -> Terminator]
                    /\ budget' \in Budget /\ history' \in History
    BY DEF TypeOK, JobsTyped
  <2>c. \A kind : UseFault(kind) => budget' \in Budget
    BY RunAssumption DEF RunAssumption, TypeOK, UseFault, Budget
  <2>d. NoteReopening => history' \in History
    BY DEF TypeOK, NoteReopening, History, RunClosed
  <2>e. UNCHANGED job => JobsTyped'
    BY <2>a DEF JobsTyped
  <2>f. \A r \in Records : /\ broker' = [broker EXCEPT ![r] = @ + 1] => broker' \in [Records -> Nat]
                           /\ broker[r] > 0 /\ broker' = [broker EXCEPT ![r] = @ - 1]
                                => broker' \in [Records -> Nat]
    BY DEF TypeOK
  <2>g. \A w \in Workers : job[w].pc # "idle" => job[w].rec \in Records
    BY <2>a DEF JobsTyped
  <2>h. NoRows \in [Records -> Row] /\ NoRun \in RunRow /\ Failed \in Row /\ Succeeded \in Row
    BY DEF NoRows, NoRun, Row, RunRow, Failed, Succeeded, RecordStatus, RecordTerminal
  <2>i. finalizer.polls \in 0..MaxPolls /\ finalizer.rows \in [Records -> Row] /\ finalizer.run \in RunRow
        /\ \A t \in Terminators : /\ terminator[t].rows \in [Records -> Row]
                                  /\ terminator[t].run \in RunRow /\ terminator[t].sel \subseteq Records
    BY DEF TypeOK, Finalizer, Terminator
  <2>j. \A pc \in {"none", "queued", "closing", "done"} :
            /\ finalizer' = [finalizer EXCEPT !.pc = pc] => finalizer' \in Finalizer
            /\ finalizer' = [Dismissed EXCEPT !.pc = pc] => finalizer' \in Finalizer
    BY <2>h DEF TypeOK, Finalizer, Dismissed
  <2>k. \A t \in Terminators : Dismiss(t) => terminator' \in [Terminators -> Terminator]
    BY <2>h DEF TypeOK, Dismiss, NoTerm, Terminator
  <2>1. CASE DispatchCommit
    BY <2>1, <2>b, <2>e, RowWrites, RunWrites
       DEF DispatchCommit, TypeOK, RunStatus, RunActive, RecordStatus, RecordActive, RecordPending,
           Dispatcher
  <2>2. CASE CeleryDisabled
    BY <2>2, <2>b, <2>e, RowWrites, RunWrites DEF CeleryDisabled, TypeOK, Dispatcher
  <2>3. CASE DispatchFinalizer
    BY <2>3, <2>b, <2>e, <2>j DEF DispatchFinalizer, TypeOK, Dispatcher
  <2>4. ASSUME NEW r \in Records, DispatchRecord(r) PROVE TypeOK'
    BY <2>4, <2>b, <2>e, <2>f DEF DispatchRecord, TypeOK, Dispatcher
  <2>5. CASE DispatchRaises
    BY <2>5, <2>b, <2>e DEF DispatchRaises, TypeOK, Dispatcher
  <2>6. CASE DispatchDone
    BY <2>6, <2>b, <2>d, <2>e, RunWrites DEF DispatchDone, TypeOK, Dispatcher, RunStatus, RunActive
  <2>7. CASE DispatchError
    BY <2>7, <2>b, <2>d, <2>e, RowWrites, RunWrites
       DEF DispatchError, TypeOK, Dispatcher, RunStatus, RunActive
  <2>8. CASE DispatchAmbiguous
    BY <2>8, <2>b, <2>c, <2>e, <2>f, <2>j DEF DispatchAmbiguous, TypeOK, Dispatcher, History
  <2>9. CASE DispatcherCrash
    BY <2>9, <2>b, <2>c, <2>e DEF DispatcherCrash, TypeOK, Dispatcher, History
  <2>10. ASSUME NEW w \in Workers, NEW r \in Records, StartTask(w, r) PROVE TypeOK'
    <3>1. JobsTyped'
      <4>1. \A pc \in {"checked", "acking"} : Started(r, pc) \in Job /\ Started(r, pc).rec = r
        BY RunAssumption DEF RunAssumption, Started, Job
      <4>2. PICK pc \in {"checked", "acking"} : job' = [job EXCEPT ![w] = Started(r, pc)]
        BY <2>10 DEF StartTask, MayExecute
      <4> QED BY <4>1, <4>2, <2>a DEF JobsTyped
    <3> QED BY <2>10, <3>1, <2>b, <2>f DEF StartTask, Take, TypeOK
  <2>11. ASSUME NEW w \in Workers, NEW r \in Records, DiscardRevoked(w, r) PROVE TypeOK'
    <3>1. rec' \in [Records -> Row]
      BY <2>11 DEF DiscardRevoked, SetRow, TypeOK, Row, RecordStatus, RecordTerminal
    <3> QED BY <2>11, <3>1, <2>b, <2>e, <2>f DEF DiscardRevoked, Take, TypeOK
  <2>12. ASSUME NEW w \in Workers, WaitForSlot(w) PROVE TypeOK'
    BY <2>12, <2>a, <2>b, <2>f, <2>g, JobWrites DEF WaitForSlot, TypeOK
  <2>13. ASSUME NEW w \in Workers, GiveUpSlot(w) \/ SoftLimitEscapes(w) PROVE TypeOK'
    <3>1. JobsTyped'
      BY <2>13, <2>a, JobWrites DEF GiveUpSlot, SoftLimitEscapes, Step
    <3>2. rec' \in [Records -> Row]
      BY <2>13, RowWrites DEF GiveUpSlot, SoftLimitEscapes, TypeOK
    <3> QED BY <2>13, <3>1, <3>2, <2>b DEF GiveUpSlot, SoftLimitEscapes, Step, TypeOK
  <2>14. ASSUME NEW w \in Workers, Execute(w) PROVE TypeOK'
    <3>1. JobsTyped'
      BY <2>14, <2>a, JobWrites DEF Execute, Step
    <3>2. rec' \in [Records -> Row]
      BY <2>14, RowWrites DEF Execute, TypeOK, RecordStatus, RecordActive
    <3> QED BY <2>14, <3>1, <3>2, <2>b DEF Execute, Step, TypeOK
  <2>15. ASSUME NEW w \in Workers, AbortTask(w) \/ BackupSucceeds(w) \/ BackupFails(w) PROVE TypeOK'
    <3>1. JobsTyped'
      BY <2>15, <2>a, JobWrites DEF AbortTask, BackupSucceeds, BackupFails, Step
    <3>2. rec' \in [Records -> Row]
      BY <2>15, <2>g, <2>h, RowWrites DEF AbortTask, BackupSucceeds, BackupFails, Step, TypeOK
    <3> QED BY <2>15, <3>1, <3>2, <2>b DEF AbortTask, BackupSucceeds, BackupFails, Step, TypeOK
  <2>16. ASSUME NEW w \in Workers, RetryBackup(w) \/ Resume(w) PROVE TypeOK'
    <3>1. JobsTyped'
      <4>1. CASE RetryBackup(w)
        BY <4>1, <2>a, RunAssumption DEF RunAssumption, RetryBackup, Step, JobsTyped, Job
      <4>2. CASE Resume(w)
        BY <4>2, <2>a, JobWrites DEF Resume, Step
      <4> QED BY <2>16, <4>1, <4>2
    <3> QED BY <2>16, <3>1, <2>b DEF RetryBackup, Resume, Step, TypeOK
  <2>17. ASSUME NEW w \in Workers, SoftLimit(w) \/ SoftLimitWritten(w) PROVE TypeOK'
    <3>1. job[w].pc # "idle" /\ (Backoff(w) \/ GiveUp(w))
      BY <2>17 DEF SoftLimit, SoftLimitWritten, Step
    <3>2. JobsTyped'
      <4>1. CASE Backoff(w)
        BY <4>1, <3>1, <2>a, RunAssumption DEF RunAssumption, Backoff, JobsTyped, Job
      <4>2. CASE GiveUp(w)
        BY <4>2, <3>1, <2>a, JobWrites DEF GiveUp
      <4> QED BY <3>1, <4>1, <4>2
    <3>3. rec' \in [Records -> Row]
      BY <3>1, <2>g, <2>h, RowWrites DEF Backoff, GiveUp, TypeOK
    <3>4. CASE SoftLimit(w)
      BY <3>4, <3>2, <3>3, <2>b DEF SoftLimit, Step, TypeOK
    <3>5. CASE SoftLimitWritten(w)
      BY <3>5, <3>2, <3>3, <2>b, <2>c DEF SoftLimitWritten, TypeOK, History
    <3> QED BY <2>17, <3>4, <3>5
  <2>18. ASSUME NEW w \in Workers, HardLimit(w) PROVE TypeOK'
    <3>1. JobsTyped' /\ rec' \in [Records -> Row]
      BY <2>18, <2>a, JobWrites, RowWrites DEF HardLimit, TypeOK
    <3> QED BY <2>18, <3>1, <2>b DEF HardLimit, TypeOK
  <2>19. ASSUME NEW w \in Workers, Ack(w) PROVE TypeOK'
    BY <2>19, <2>a, <2>b, JobWrites DEF Ack, TypeOK
  <2>20. ASSUME NEW w \in Workers, Crash(w) PROVE TypeOK'
    BY <2>20, <2>a, <2>b, <2>c, <2>f, <2>g, JobWrites DEF Crash, Requeue, TypeOK
  <2>21. ASSUME NEW w \in Workers, Redeliver(w) PROVE TypeOK'
    BY <2>21, <2>b, <2>c, <2>e, <2>f, <2>g DEF Redeliver, TypeOK, History
  <2>22. ASSUME NEW r \in Records, Lose(r) PROVE TypeOK'
    BY <2>22, <2>b, <2>c, <2>e, <2>f DEF Lose, TypeOK, History
  <2>23. CASE FinalizerPoll
    <3>1. finalizer' \in Finalizer
      <4>1. CASE finalizer' = [finalizer EXCEPT !.pc = "done"]
        BY <4>1, <2>j
      <4>2. CASE PollAgain(rec, finalizer.polls) /\ finalizer' = [finalizer EXCEPT !.polls = @ + 1]
        BY <4>2, RunAssumption DEF RunAssumption, PollAgain, TypeOK, Finalizer
      <4>3. CASE finalizer' = [finalizer EXCEPT !.pc = "closing", !.rows = rec, !.run = run]
        BY <4>3 DEF TypeOK, Finalizer
      <4> QED BY <2>23, <4>1, <4>2, <4>3 DEF FinalizerPoll
    <3> QED BY <2>23, <3>1, <2>b, <2>e DEF FinalizerPoll, TypeOK
  <2>24. CASE FinalizerClose
    <3>1. run' \in RunRow
      BY <2>24, <2>i, CloseRunClosesIt DEF FinalizerClose, TypeOK
    <3>2. finalizer' \in Finalizer
      BY <2>24, <2>h, <2>i DEF FinalizerClose, Dismissed, Finalizer
    <3> QED BY <2>24, <3>1, <3>2, <2>b, <2>e DEF FinalizerClose, TypeOK
  <2>25. CASE FinalizerFails \/ FinalizerCrash
    <3>1. finalizer' \in Finalizer
      BY <2>25, <2>h, <2>i DEF FinalizerFails, FinalizerCrash, Dismissed, Finalizer
    <3>2. history' \in History
      BY <2>25 DEF FinalizerFails, FinalizerCrash, TypeOK, History
    <3> QED BY <2>25, <3>1, <3>2, <2>b, <2>c, <2>e DEF FinalizerFails, FinalizerCrash, TypeOK
  <2>26. ASSUME NEW t \in Terminators, NEW whole \in BOOLEAN, NEW S \in SUBSET Records,
                TerminateRead(t, whole, S)
         PROVE  TypeOK'
    <3>1. Pending(rec, S) \subseteq Records
      BY DEF Pending
    <3>2. terminator' \in [Terminators -> Terminator]
      BY <2>26, <3>1 DEF TerminateRead, TypeOK, Terminator
    <3>3. budget' \in Budget
      BY <2>26, RunAssumption DEF RunAssumption, TerminateRead, TypeOK, Budget
    <3> QED BY <2>26, <3>1, <3>2, <3>3, <2>b, <2>e DEF TerminateRead, TypeOK
  <2>27. ASSUME NEW t \in Terminators, TerminateCommit(t) PROVE TypeOK'
    <3>1. BelievedRows(t) \in [Records -> Row]
      BY <2>i DEF BelievedRows, Row, RecordStatus, RecordTerminal
    <3>2. rec' \in [Records -> Row]
      BY <2>27, <2>i DEF TerminateCommit, CancelRows, Flush, TypeOK, Row, RecordStatus, RecordTerminal
    <3>3. run' \in RunRow
      <4>1. CloseRun(terminator[t].run, BelievedRows(t)) => run' \in RunRow
        BY <2>i, <3>1, CloseRunClosesIt DEF TypeOK
      <4> QED BY <2>27, <4>1 DEF TerminateCommit, Flush, TypeOK, RunRow, RunStatus, RunActive
    <3>4. terminator' \in [Terminators -> Terminator]
      BY <2>27, <2>k DEF TerminateCommit
    <3> QED BY <2>27, <3>2, <3>3, <3>4, <2>b, <2>d, <2>e DEF TerminateCommit, TypeOK
  <2>28. ASSUME NEW t \in Terminators, TerminateRollback(t) PROVE TypeOK'
    BY <2>28, <2>b, <2>e, <2>k DEF TerminateRollback, TypeOK
  <2>29. ASSUME NEW r \in Records, DeleteRecord(r) PROVE TypeOK'
    <3>1. rec' \in [Records -> Row] /\ run' \in RunRow
      BY <2>29, <2>h DEF DeleteRecord, TypeOK, Row
    <3>2. budget' \in Budget
      BY <2>29, <2>c DEF DeleteRecord, TypeOK
    <3> QED BY <2>29, <3>1, <3>2, <2>b, <2>e DEF DeleteRecord, TypeOK
  <2>30. CASE UNCHANGED vars
    BY <2>30, <2>b, <2>e DEF vars, TypeOK
  <2> QED BY <2>1, <2>2, <2>3, <2>4, <2>5, <2>6, <2>7, <2>8, <2>9, <2>10, <2>11, <2>12, <2>13,
             <2>14, <2>15, <2>16, <2>17, <2>18, <2>19, <2>20, <2>21, <2>22, <2>23, <2>24, <2>25,
             <2>26, <2>27, <2>28, <2>29, <2>30
          DEF Next, Dispatch, Work, Finalize, Terminate, Environment
<1> QED BY <1>1, <1>2, PTL DEF Spec
-----------------------------------------------------------------------------
(***************************************************************************)
(* Which actions write which variable.                                     *)
(***************************************************************************)
\* enqueue_schedule_run advances only by its own actions.
LEMMA DispatcherMoves ==
    ASSUME [Next]_vars
    PROVE  \/ dispatcher' = dispatcher
           \/ DispatchCommit \/ CeleryDisabled \/ DispatchFinalizer
           \/ \E r \in Records : DispatchRecord(r)
           \/ DispatchRaises \/ DispatchAmbiguous \/ DispatchDone \/ DispatchError
           \/ DispatcherCrash
BY DEF Next, vars, Dispatch, Work, Finalize, Terminate, Environment, Step, StartTask, DiscardRevoked,
       WaitForSlot, GiveUpSlot, Execute, AbortTask, BackupSucceeds, BackupFails, RetryBackup, Resume,
       SoftLimit, SoftLimitWritten, SoftLimitEscapes, HardLimit, Ack, Crash, Redeliver, Lose, FinalizerPoll,
       FinalizerClose, FinalizerFails, FinalizerCrash, TerminateRead, TerminateCommit,
       TerminateRollback, DeleteRecord

\* The finalizer advances by its own actions and by being dispatched.
LEMMA FinalizerMoves ==
    ASSUME [Next]_vars
    PROVE  \/ finalizer' = finalizer
           \/ DispatchFinalizer \/ DispatchAmbiguous
           \/ FinalizerPoll \/ FinalizerClose \/ FinalizerFails \/ FinalizerCrash
BY DEF Next, vars, Dispatch, Work, Finalize, Terminate, Environment, Step, DispatchCommit,
       CeleryDisabled, DispatchRecord, DispatchRaises, DispatchDone, DispatchError, DispatcherCrash,
       StartTask, DiscardRevoked, WaitForSlot, GiveUpSlot, Execute, AbortTask, BackupSucceeds,
       BackupFails, RetryBackup, Resume, SoftLimit, SoftLimitWritten, SoftLimitEscapes, HardLimit, Ack, Crash,
       Redeliver, Lose, TerminateRead, TerminateCommit, TerminateRollback, DeleteRecord

\* Who writes the run row.
LEMMA RunMoves ==
    ASSUME [Next]_vars
    PROVE  \/ run' = run
           \/ DispatchCommit \/ CeleryDisabled \/ DispatchDone \/ DispatchError
           \/ FinalizerClose \/ \E t \in Terminators : TerminateCommit(t)
           \/ \E r \in Records : DeleteRecord(r)
BY DEF Next, vars, Dispatch, Work, Finalize, Terminate, Environment, Step, DispatchFinalizer,
       DispatchRecord, DispatchRaises, DispatchAmbiguous, DispatcherCrash, StartTask,
       DiscardRevoked, WaitForSlot, GiveUpSlot, Execute, AbortTask, BackupSucceeds, BackupFails,
       RetryBackup, Resume, SoftLimit, SoftLimitWritten, SoftLimitEscapes, HardLimit, Ack, Crash, Redeliver, Lose,
       FinalizerPoll, FinalizerFails, FinalizerCrash, TerminateRead, TerminateRollback

\* Who changes the terminate request.
LEMMA TerminatorMoves ==
    ASSUME [Next]_vars
    PROVE  \/ terminator' = terminator
           \/ \E t \in Terminators :
                 \/ \E whole \in BOOLEAN, S \in SUBSET Records : TerminateRead(t, whole, S)
                 \/ TerminateCommit(t) \/ TerminateRollback(t)
BY DEF Next, vars, Dispatch, Work, Finalize, Terminate, Environment, Step, DispatchCommit,
       CeleryDisabled, DispatchFinalizer, DispatchRecord, DispatchRaises, DispatchAmbiguous,
       DispatchDone, DispatchError, DispatcherCrash, StartTask, DiscardRevoked, WaitForSlot,
       GiveUpSlot, Execute, AbortTask, BackupSucceeds, BackupFails, RetryBackup, Resume, SoftLimit,
       SoftLimitWritten, SoftLimitEscapes, HardLimit, Ack, Crash, Redeliver, Lose, FinalizerPoll, FinalizerClose,
       FinalizerFails, FinalizerCrash, DeleteRecord

\* Who records that something was lost or doubled.
LEMMA HistoryMoves ==
    ASSUME [Next]_vars
    PROVE  \/ history' = history
           \/ NoteReopening \/ DispatcherCrash \/ FinalizerFails \/ DispatchAmbiguous
           \/ \E w \in Workers : SoftLimitWritten(w) \/ Redeliver(w)
           \/ \E r \in Records : Lose(r)
BY DEF Next, vars, Dispatch, Work, Finalize, Terminate, Environment, Step, DispatchCommit,
       CeleryDisabled, DispatchFinalizer, DispatchRecord, DispatchRaises, DispatchAmbiguous,
       DispatchDone, DispatchError, StartTask, DiscardRevoked, WaitForSlot, GiveUpSlot, Execute,
       AbortTask, BackupSucceeds, BackupFails, RetryBackup, Resume, SoftLimit, SoftLimitWritten, SoftLimitEscapes,
       HardLimit, Ack, Crash, Redeliver, FinalizerPoll, FinalizerClose, FinalizerCrash, TerminateRead,
       TerminateCommit, TerminateRollback, DeleteRecord

\* How one row changes in a step, and by whom; a deleted row never does.
LEMMA RowMoves ==
    ASSUME TypeOK, [Next]_vars, NEW r \in Records
    PROVE  \/ rec'[r] = rec[r]
           \/ /\ Exists(r)
              /\ \/ DeleteRecord(r) /\ rec'[r].status = "absent"
                 \/ /\ rec[r].status \in RecordActive /\ rec'[r].status \in RecordTerminal
                    /\ \/ CeleryDisabled
                       \/ DispatchError /\ r \notin dispatcher.sent
                       \/ \E w \in Workers : DiscardRevoked(w, r)
                       \/ \E w \in Workers : HardLimit(w) /\ job[w].rec = r
                 \/ DispatchCommit /\ rec'[r].status = "queued"
                 \/ \E w \in Workers : /\ Execute(w) /\ job[w].rec = r
                                       /\ rec'[r].status = "running"
                 \/ \E w \in Workers : /\ Executes(w, r) /\ job'[w].pc \in {"written", "acking"}
                                       /\ rec'[r].status \in RecordTerminal
                 \/ \E w \in Workers : /\ SoftLimitWritten(w) /\ job[w].rec = r
                                       /\ rec'[r].status \in RecordTerminal
                 \/ \E t \in Terminators : /\ TerminateCommit(t) /\ r \in terminator[t].sel
                                           /\ rec'[r].status = "cancelled"
<1> USE DEF RecordTerminal, Failed, Succeeded
<1>1. rec \in [Records -> Row] /\ job \in [Workers -> Job]
  BY DEF TypeOK
<1>2. ASSUME NEW S, FailIfUnfinished(S)
      PROVE  \/ rec'[r] = rec[r]
             \/ /\ r \in S /\ Exists(r)
                /\ rec[r].status \in RecordActive /\ rec'[r].status \in RecordTerminal
  BY <1>1, <1>2 DEF FailIfUnfinished, SetRow, IfUnfinished, Exists
<1>3. ASSUME NEW q, NEW row, Finish(q, row)
      PROVE  rec'[r] = rec[r] \/ (q = r /\ Exists(r) /\ rec'[r] = row)
  BY <1>1, <1>3 DEF Finish, SetRow, Exists
<1>4. ASSUME NEW S, NEW status, SetStatus(S, status)
      PROVE  rec'[r] = rec[r] \/ (r \in S /\ Exists(r) /\ rec'[r].status = status)
  BY <1>1, <1>4 DEF SetStatus, Row
<1>5. CASE DispatchCommit
  BY <1>5, <1>4 DEF DispatchCommit
<1>6. CASE CeleryDisabled \/ DispatchError
  BY <1>6, <1>2 DEF CeleryDisabled, DispatchError
<1>7. ASSUME NEW w \in Workers, NEW q \in Records, DiscardRevoked(w, q)
      PROVE  \/ rec'[r] = rec[r]
             \/ /\ q = r /\ Exists(r)
                /\ rec[r].status \in RecordActive /\ rec'[r].status \in RecordTerminal
  BY <1>1, <1>7 DEF DiscardRevoked, SetRow, IfUnfinished, Exists
<1>8. ASSUME NEW w \in Workers, Execute(w)
      PROVE  rec'[r] = rec[r] \/ (job[w].rec = r /\ Exists(r) /\ rec'[r].status = "running")
  BY <1>8, <1>4 DEF Execute
<1>9. ASSUME NEW w \in Workers, \/ AbortTask(w) \/ BackupSucceeds(w) \/ BackupFails(w) \/ SoftLimit(w)
                                \/ GiveUpSlot(w) \/ SoftLimitEscapes(w)
      PROVE  \/ rec'[r] = rec[r]
             \/ /\ Exists(r) /\ Executes(w, r) /\ job'[w].pc \in {"written", "acking"}
                /\ rec'[r].status \in RecordTerminal
  <2>1. CASE AbortTask(w) \/ BackupSucceeds(w) \/ BackupFails(w)
    BY <2>1, <1>1, <1>3 DEF AbortTask, BackupSucceeds, BackupFails, Step, Become, Executes, Job
  <2>2. CASE SoftLimit(w)
    BY <2>2, <1>1, <1>3 DEF SoftLimit, Backoff, GiveUp, Step, Become, Executes, Job
  <2>3. CASE GiveUpSlot(w) \/ SoftLimitEscapes(w)
    BY <2>3, <1>1, <1>2 DEF GiveUpSlot, SoftLimitEscapes, Step, Become, Executes, Job
  <2> QED BY <1>9, <2>1, <2>2, <2>3
<1>10. ASSUME NEW w \in Workers, SoftLimitWritten(w)
       PROVE  \/ rec'[r] = rec[r]
              \/ Exists(r) /\ job[w].rec = r /\ rec'[r].status \in RecordTerminal
  BY <1>10, <1>3 DEF SoftLimitWritten, Backoff, GiveUp
<1>11. ASSUME NEW w \in Workers, HardLimit(w)
       PROVE  \/ rec'[r] = rec[r]
              \/ /\ job[w].rec = r /\ Exists(r)
                 /\ rec[r].status \in RecordActive /\ rec'[r].status \in RecordTerminal
  BY <1>11, <1>2 DEF HardLimit
<1>12. ASSUME NEW t \in Terminators, TerminateCommit(t)
       PROVE  \/ rec'[r] = rec[r]
              \/ Exists(r) /\ r \in terminator[t].sel /\ rec'[r].status = "cancelled"
  BY <1>1, <1>12 DEF TerminateCommit, RowsGone, CancelRows
<1>13. ASSUME NEW q \in Records, DeleteRecord(q)
       PROVE  \/ rec'[r] = rec[r]
              \/ q = r /\ Exists(r) /\ rec'[r].status = "absent"
  BY <1>1, <1>13 DEF DeleteRecord, Exists, RecordActive, RecordPending
<1>14. CASE UNCHANGED rec
  BY <1>14
<1> QED
  BY <1>5, <1>6, <1>7, <1>8, <1>9, <1>10, <1>11, <1>12, <1>13, <1>14
     DEF Next, vars, Dispatch, Work, Finalize, Terminate, Environment, Step, DispatchFinalizer,
         DispatchRecord, DispatchRaises, DispatchAmbiguous, DispatchDone, DispatcherCrash, StartTask,
         WaitForSlot, RetryBackup, Resume, Ack, Crash, Redeliver, Lose, FinalizerPoll,
         FinalizerClose, FinalizerFails, FinalizerCrash, TerminateRead, TerminateRollback
-----------------------------------------------------------------------------
(* Owners. *)

\* Nothing is sent before the finalizer is dispatched.
SentIsLate == dispatcher.pc \in {"commit", "finalizer"} => dispatcher.sent = {}

\* No action sends a record before the finalizer is dispatched.
LEMMA SentIsLateKept == ASSUME TypeOK, SentIsLate, [Next]_vars PROVE SentIsLate'
<1> USE DEF SentIsLate, TypeOK, Dispatcher
<1>1. ASSUME NEW r \in Records, DispatchRecord(r) PROVE SentIsLate'
  BY <1>1 DEF DispatchRecord
<1> QED
  BY <1>1, DispatcherMoves DEF DispatchCommit, CeleryDisabled, DispatchFinalizer, DispatchRaises,
     DispatchAmbiguous, DispatchDone, DispatchError, DispatcherCrash

\* An owner stays unless a step takes the last one away.
LEMMA OwnerStays ==
    ASSUME NEW r \in Records, Owned(r),
           broker[r] > 0 => broker'[r] > 0,
           \A w \in Workers : Executes(w, r) => Executes(w, r)',
           dispatcher.pc # "done" /\ r \notin dispatcher.sent =>
               dispatcher'.pc # "done" /\ r \notin dispatcher'.sent,
           r \in history.abandoned => r \in history'.abandoned
    PROVE  Owned(r)'
BY DEF Owned, Executes

\* Every action leaves each unfinished record with an owner.
LEMMA OwnersKept ==
    ASSUME TypeOK, SentIsLate, UnfinishedIsOwned, [Next]_vars
    PROVE  UnfinishedIsOwned'
<1> SUFFICES ASSUME NEW q \in Records, rec'[q].status \in RecordActive PROVE Owned(q)'
  BY DEF UnfinishedIsOwned
<1> USE DEF RecordActive, RecordPending, RecordTerminal
<1>1. broker \in [Records -> Nat] /\ job \in [Workers -> Job] /\ history \in History
      /\ dispatcher \in Dispatcher /\ rec \in [Records -> Row]
  BY DEF TypeOK
<1>2. rec[q].status \in RecordActive => Owned(q)
  BY DEF UnfinishedIsOwned
\* A record becomes active only at the first commit and when it is executed.
<1>3. \/ rec'[q] = rec[q] /\ Owned(q)
      \/ DispatchCommit
      \/ \E w \in Workers : Execute(w) /\ job[w].rec = q
  BY <1>2, RowMoves DEF Exists
<1>4. CASE DispatchCommit
  BY <1>4, <1>1 DEF DispatchCommit, SentIsLate, Owned, Dispatcher
<1>5. ASSUME NEW w \in Workers, Execute(w), job[w].rec = q PROVE Owned(q)'
  BY <1>5, <1>1 DEF Execute, Step, Become, Owned, Executes, Job
<1>6. ASSUME rec'[q] = rec[q], Owned(q) PROVE Owned(q)'
  <2>1. CASE UNCHANGED <<broker, job, dispatcher, history>>
    BY <2>1, <1>6, OwnerStays DEF Executes
  <2>2. CASE CeleryDisabled
    BY <2>2, <1>1 DEF CeleryDisabled, FailIfUnfinished, IfUnfinished, SetRow, Failed
  <2>3. CASE DispatchFinalizer \/ DispatchRaises \/ DispatchAmbiguous
    BY <2>3, <1>1, <1>6, OwnerStays
       DEF DispatchFinalizer, DispatchRaises, DispatchAmbiguous, Executes, Dispatcher, History
  <2>4. ASSUME NEW r \in Records, DispatchRecord(r) PROVE Owned(q)'
    <3>1. CASE r = q
      BY <3>1, <2>4, <1>1 DEF DispatchRecord, Owned
    <3>2. CASE r # q
      BY <3>2, <2>4, <1>1, <1>6, OwnerStays DEF DispatchRecord, Executes, Dispatcher
    <3> QED BY <3>1, <3>2
  <2>5. CASE DispatchDone
    BY <2>5, <1>6, OwnerStays DEF DispatchDone, Executes, NoteReopening
  <2>6. CASE DispatchError
    <3>1. q \in dispatcher.sent
      BY <2>6, <1>1 DEF DispatchError, FailIfUnfinished, IfUnfinished, SetRow, Failed
    <3> QED BY <3>1, <2>6, <1>1, <1>6, OwnerStays
            DEF DispatchError, Executes, NoteReopening, History
  <2>7. CASE DispatcherCrash
    BY <2>7, <1>1, <1>6 DEF DispatcherCrash, Owned, Executes, History
  <2>8. ASSUME NEW w \in Workers, NEW r \in Records, StartTask(w, r) PROVE Owned(q)'
    <3>1. job[w].pc = "idle" /\ job' = [job EXCEPT ![w] = Started(r, IF MayExecute(r) THEN "checked" ELSE "acking")]
      BY <2>8 DEF StartTask, Take
    <3>2. \A v \in Workers : Executes(v, q) => Executes(v, q)'
      BY <3>1, <1>1 DEF Executes
    <3>3. CASE r = q
      <4>1. MayExecute(q)
        BY <1>6 DEF MayExecute, Exists
      <4>2. job'[w] = Started(q, "checked")
        BY <4>1, <3>1, <3>3, <1>1
      <4> QED BY <4>2 DEF Started, Owned, Executes
    <3>4. CASE r # q
      BY <3>2, <3>4, <2>8, <1>1, <1>6, OwnerStays DEF StartTask, Take
    <3> QED BY <3>3, <3>4
  <2>9. ASSUME NEW w \in Workers, NEW r \in Records, DiscardRevoked(w, r) PROVE Owned(q)'
    <3>1. r # q
      BY <2>9, <1>1 DEF DiscardRevoked, SetRow, IfUnfinished
    <3> QED BY <3>1, <2>9, <1>1, <1>6, OwnerStays DEF DiscardRevoked, Take, Executes
  <2>10. ASSUME NEW w \in Workers, WaitForSlot(w) \/ Crash(w) PROVE Owned(q)'
    <3>1. /\ job[w].rec \in Records
          /\ broker' = [broker EXCEPT ![job[w].rec] = @ + 1]
          /\ job' = [job EXCEPT ![w] = Idle]
          /\ UNCHANGED <<dispatcher, history>>
      BY <2>10 DEF WaitForSlot, Crash, Requeue, Release, TypeOK
    <3>2. CASE job[w].rec = q
      BY <3>1, <3>2, <1>1 DEF Owned
    <3>3. CASE job[w].rec # q
      BY <3>1, <3>3, <1>1, <1>6, OwnerStays DEF Executes
    <3> QED BY <3>2, <3>3
  <2>11. ASSUME NEW w \in Workers, GiveUpSlot(w) \/ SoftLimitEscapes(w) PROVE Owned(q)'
    <3>1. job[w].rec # q
      BY <2>11, <1>1
         DEF GiveUpSlot, SoftLimitEscapes, FailIfUnfinished, IfUnfinished, SetRow, Failed
    <3> QED BY <3>1, <2>11, <1>1, <1>6, OwnerStays
            DEF GiveUpSlot, SoftLimitEscapes, Step, Become, Executes, Job
  <2>12. ASSUME NEW w \in Workers, AbortTask(w) \/ BackupSucceeds(w) \/ BackupFails(w)
         PROVE  Owned(q)'
    <3>1. job[w].rec # q
      BY <2>12, <1>1
         DEF AbortTask, BackupSucceeds, BackupFails, Finish, SetRow, Failed, Succeeded
    <3> QED BY <3>1, <2>12, <1>1, <1>6, OwnerStays
            DEF AbortTask, BackupSucceeds, BackupFails, Step, Become, Executes, Job
  <2>13. ASSUME NEW w \in Workers, Execute(w) \/ RetryBackup(w) \/ Resume(w) PROVE Owned(q)'
    <3>1. job'[w].pc \in {"executing", "backoff"} /\ job'[w].rec = job[w].rec
          /\ \A v \in Workers \ {w} : job'[v] = job[v]
      BY <2>13, <1>1 DEF Execute, RetryBackup, Resume, Become, Job
    <3> QED BY <3>1, <2>13, <1>6, OwnerStays DEF Execute, RetryBackup, Resume, Step, Executes
  <2>14. ASSUME NEW w \in Workers, SoftLimit(w) \/ SoftLimitWritten(w) PROVE Owned(q)'
    <3>1. /\ job[w].pc # "idle" /\ \A v \in Workers \ {w} : job'[v] = job[v]
          /\ UNCHANGED <<broker, dispatcher>> /\ history'.abandoned = history.abandoned
      BY <2>14, <1>1 DEF SoftLimit, SoftLimitWritten, Step, Backoff, GiveUp, Become, History
    <3>2. CASE Backoff(w)
      <4>1. job'[w].pc = "backoff" /\ job'[w].rec = job[w].rec
        BY <3>2, <1>1 DEF Backoff, Job
      <4> QED BY <4>1, <3>1, <1>6, OwnerStays DEF Executes
    <3>3. CASE GiveUp(w)
      <4>1. job[w].rec # q
        BY <3>3, <1>1 DEF GiveUp, Finish, SetRow, Failed
      <4> QED BY <4>1, <3>1, <1>6, OwnerStays DEF Executes
    <3> QED BY <2>14, <3>2, <3>3 DEF SoftLimit, SoftLimitWritten
  <2>15. ASSUME NEW w \in Workers, HardLimit(w) PROVE Owned(q)'
    <3>1. job[w].rec # q
      BY <2>15, <1>1 DEF HardLimit, FailIfUnfinished, IfUnfinished, SetRow, Failed
    <3> QED BY <3>1, <2>15, <1>1, <1>6, OwnerStays DEF HardLimit, Release, Executes
  <2>16. ASSUME NEW w \in Workers, Ack(w) PROVE Owned(q)'
    BY <2>16, <1>1, <1>6, OwnerStays DEF Ack, Release, Executes
  <2>17. ASSUME NEW w \in Workers, Redeliver(w) PROVE Owned(q)'
    BY <2>17, <1>1, <1>6, OwnerStays DEF Redeliver, Executes, TypeOK
  <2>18. ASSUME NEW r \in Records, Lose(r) PROVE Owned(q)'
    <3>1. history'.abandoned = history.abandoned \cup {r}
      BY <2>18, <1>1 DEF Lose, History
    <3> QED BY <3>1, <2>18, <1>1, <1>6 DEF Lose, Owned, Executes
  <2>19. CASE FinalizerFails
    BY <2>19, <1>1, <1>6, OwnerStays DEF FinalizerFails, Executes, History
  <2>20. ASSUME NEW t \in Terminators, TerminateCommit(t) PROVE Owned(q)'
    BY <2>20, <1>1, <1>6, OwnerStays DEF TerminateCommit, NoteReopening, Executes, History
  <2> QED
    BY <1>4, <2>1, <2>2, <2>3, <2>4, <2>5, <2>6, <2>7, <2>8, <2>9, <2>10, <2>11, <2>12, <2>13, <2>14,
       <2>15, <2>16, <2>17, <2>18, <2>19, <2>20
       DEF Next, vars, Dispatch, Work, Finalize, Terminate, Environment, FinalizerPoll, FinalizerClose,
           FinalizerCrash, TerminateRead, TerminateRollback, DeleteRecord
<1> QED BY <1>3, <1>4, <1>5, <1>6

\* Of the dispatcher, the workers, the crash and time-limit handling and the
\* terminate requests none leaves an unfinished record without a message, an
\* execution or a dispatcher still to send it, whatever the order of their steps.
THEOREM NoRecordIsOrphaned == Spec => []UnfinishedIsOwned
<1>1. Init => SentIsLate /\ UnfinishedIsOwned
  BY DEF Init, SentIsLate, UnfinishedIsOwned, Owned
<1>2. TypeOK /\ SentIsLate /\ UnfinishedIsOwned /\ [Next]_vars => (SentIsLate /\ UnfinishedIsOwned)'
  BY SentIsLateKept, OwnersKept
<1> QED BY <1>1, <1>2, TypeCorrect, PTL DEF Spec

-----------------------------------------------------------------------------
(* Visibility. *)

\* Until the first commit no one but the dispatcher knows the run; afterwards
\* neither the run nor a record is planned again.
CommitFirst ==
    /\ dispatcher.pc = "commit" =>
          /\ \A r \in Records : broker[r] = 0
          /\ \A w \in Workers : job[w] = Idle
          /\ finalizer.pc = "none" /\ \A t \in Terminators : terminator[t].pc = "idle"
    /\ dispatcher.pc # "commit" =>
          /\ \A r \in Records : rec[r].status # "planned"
          /\ run.status # "planned"

\* The first commit separates a run nobody knows from one without planned rows.
LEMMA CommitFirstKept ==
    ASSUME TypeOK, CommitFirst, [Next]_vars PROVE CommitFirst'
<1>0. dispatcher \in Dispatcher /\ rec \in [Records -> Row] /\ run \in RunRow
  BY DEF TypeOK
<1>1. CASE dispatcher'.pc = "commit"
  <2>1. dispatcher' = dispatcher
    BY <1>1, <1>0, DispatcherMoves
       DEF DispatchCommit, CeleryDisabled, DispatchFinalizer, DispatchRecord, DispatchRaises,
           DispatchAmbiguous, DispatchDone, DispatchError, DispatcherCrash, Dispatcher
  <2>2. /\ \A r \in Records : broker[r] = 0
        /\ \A w \in Workers : job[w] = Idle
        /\ finalizer.pc = "none" /\ \A t \in Terminators : terminator[t].pc = "idle"
        /\ dispatcher.pc = "commit"
    BY <2>1, <1>1 DEF CommitFirst
  <2>3. UNCHANGED <<broker, job>>
    <3>1. \A r \in Records : ~(broker[r] > 0)
      BY <2>2
    <3>2. \A w \in Workers : job[w].pc = "idle"
      BY <2>2 DEF Idle
    <3>3. \A w \in Workers : ~Work(w) /\ ~Crash(w) /\ ~Redeliver(w) /\ ~SoftLimitWritten(w)
      BY <3>1, <3>2 DEF Work, StartTask, DiscardRevoked, Take, WaitForSlot, GiveUpSlot, Execute, AbortTask,
             BackupSucceeds, BackupFails, RetryBackup, Resume, SoftLimit, SoftLimitWritten, SoftLimitEscapes,
             HardLimit, Ack, Step, Crash, Redeliver
    <3>4. ~DispatchAmbiguous /\ \A r \in Records : ~DispatchRecord(r) /\ ~Lose(r)
      BY <3>1, <2>2 DEF DispatchAmbiguous, DispatchRecord, Lose
    <3> QED BY <3>3, <3>4
            DEF Next, vars, Dispatch, Finalize, Terminate, Environment, DispatchCommit, CeleryDisabled,
                DispatchFinalizer, DispatchRaises, DispatchDone, DispatchError, DispatcherCrash,
                FinalizerPoll, FinalizerClose, FinalizerFails, FinalizerCrash, TerminateRead,
                TerminateCommit, TerminateRollback, DeleteRecord
  <2>4. finalizer' = finalizer
    BY <2>2, FinalizerMoves DEF DispatchFinalizer, DispatchAmbiguous, FinalizerPoll, FinalizerClose,
                                FinalizerFails, FinalizerCrash
  <2>5. terminator' = terminator
    BY <2>2, TerminatorMoves DEF TerminateRead, Committed, TerminateCommit, TerminateRollback
  <2> QED BY <1>1, <2>2, <2>3, <2>4, <2>5 DEF CommitFirst
<1>2. CASE dispatcher'.pc # "commit"
  <2>1. ASSUME NEW r \in Records PROVE rec'[r].status # "planned"
    <3>1. CASE DispatchCommit
      BY <3>1, <1>0 DEF DispatchCommit, SetStatus, Exists, Row
    <3>2. CASE CeleryDisabled
      BY <3>2, <1>0 DEF CeleryDisabled, FailIfUnfinished, SetRow, IfUnfinished, Failed,
                        RecordActive, RecordPending
    <3>3. CASE dispatcher.pc = "commit" /\ ~DispatchCommit /\ ~CeleryDisabled
      BY <3>3, <1>2, <1>0, DispatcherMoves
         DEF DispatchFinalizer, DispatchRecord, DispatchRaises, DispatchAmbiguous, DispatchDone,
             DispatchError, DispatcherCrash
    <3>4. CASE dispatcher.pc # "commit"
      BY <3>4, RowMoves DEF CommitFirst, RecordTerminal
    <3> QED BY <3>1, <3>2, <3>3, <3>4
  <2>2. run'.status # "planned"
    <3>1. CASE dispatcher.pc = "commit"
      <4>1. DispatchCommit \/ CeleryDisabled
        BY <3>1, <1>2, DispatcherMoves
           DEF DispatchFinalizer, DispatchRecord, DispatchRaises, DispatchAmbiguous, DispatchDone,
               DispatchError, DispatcherCrash
      <4> QED BY <4>1, <1>0 DEF DispatchCommit, CeleryDisabled, SetRunStatus, FinishEnqueueFailed,
                                RunRow, RunTerminal
    <3>2. CASE dispatcher.pc # "commit"
      <4>1. run.status # "planned"
        BY <3>2 DEF CommitFirst
      <4>2. \A seen \in RunRow, rows \in [Records -> Row] :
                CloseRun(seen, rows) => run'.status # "planned"
        BY <1>0, CloseRunClosesIt DEF RunTerminal
      <4>3. CASE DispatchCommit \/ CeleryDisabled
        BY <4>3, <3>2 DEF DispatchCommit, CeleryDisabled
      <4>4. CASE DispatchDone \/ DispatchError
        BY <4>4, <4>1, <1>0 DEF DispatchDone, DispatchError, SetRunStatus, FinishEnqueueFailed, RunRow
      <4>5. CASE FinalizerClose
        BY <4>5, <4>1, <4>2 DEF FinalizerClose, TypeOK, Finalizer
      <4>6. ASSUME NEW t \in Terminators, TerminateCommit(t) PROVE run'.status # "planned"
        <5>1. BelievedRows(t) \in [Records -> Row] /\ terminator[t].run \in RunRow
          BY DEF BelievedRows, TypeOK, Terminator, Row, RecordStatus, RecordTerminal
        <5> QED BY <4>6, <4>1, <4>2, <5>1, <1>0 DEF TerminateCommit, Flush, RunRow
      <4>7. ASSUME NEW r \in Records, DeleteRecord(r) PROVE run'.status # "planned"
        BY <4>7, <4>1 DEF DeleteRecord, NoRun
      <4> QED BY <4>1, <4>3, <4>4, <4>5, <4>6, <4>7, RunMoves
    <3> QED BY <3>1, <3>2
  <2> QED BY <1>2, <2>1, <2>2 DEF CommitFirst
<1> QED BY <1>1, <1>2

\* Nothing that enqueue_schedule_run hands to the broker can be taken before the
\* rows it is about are committed.
THEOREM DispatchedAfterCommit == Spec => []DispatchedIsVisible
<1>1. Init => CommitFirst
  BY DEF Init, CommitFirst, NoTerm
<1>2. TypeOK /\ CommitFirst /\ [Next]_vars => CommitFirst'
  BY CommitFirstKept
<1>3. TypeOK /\ CommitFirst => DispatchedIsVisible
  BY RunAssumption DEF RunAssumption, CommitFirst, DispatchedIsVisible, TypeOK, Idle
<1> QED BY <1>1, <1>2, <1>3, TypeCorrect, PTL DEF Spec

-----------------------------------------------------------------------------
(* Terminate requests. *)

\* A terminate request holds what it read pending; a request for the whole run
\* holds all of it.
TerminatorHoldsPending ==
    \A t \in Terminators : terminator[t].pc = "revoking" =>
        /\ \A r \in terminator[t].sel : terminator[t].rows[r].status \in RecordPending
        /\ terminator[t].whole => \A r \in Records \ terminator[t].sel :
                                     terminator[t].rows[r].status \notin RecordPending

\* What a terminate request holds does not change until it ends.
LEMMA TerminatorHoldsPendingKept ==
    ASSUME TypeOK, TerminatorHoldsPending, [Next]_vars PROVE TerminatorHoldsPending'
<1>0. terminator \in [Terminators -> Terminator]
  BY DEF TypeOK
<1>1. ASSUME NEW t \in Terminators, NEW whole \in BOOLEAN, NEW S \in SUBSET Records,
             TerminateRead(t, whole, S)
      PROVE  TerminatorHoldsPending'
  BY <1>0, <1>1 DEF TerminateRead, TerminatorHoldsPending, Pending
<1>2. ASSUME NEW t \in Terminators, TerminateCommit(t) \/ TerminateRollback(t)
      PROVE  TerminatorHoldsPending'
  BY <1>0, <1>2 DEF TerminateCommit, TerminateRollback, Dismiss, TerminatorHoldsPending, NoTerm
<1>3. CASE terminator' = terminator
  BY <1>3 DEF TerminatorHoldsPending
<1> QED BY <1>1, <1>2, <1>3, TerminatorMoves

\* terminate_schedule_run cancels a running record only when it read it pending;
\* otherwise it is the task_revoked handler that does, of a requeued task.
THEOREM OnlyPendingIsTerminated == Spec => TerminationIsPendingOnly
<1>1. Init => TerminatorHoldsPending
  BY DEF Init, TerminatorHoldsPending, NoTerm
<1>2. TypeOK /\ TerminatorHoldsPending /\ [Next]_vars => TerminatorHoldsPending'
  BY TerminatorHoldsPendingKept
<1>3. ASSUME TypeOK, TerminatorHoldsPending, [Next]_vars, NEW r \in Records,
             rec[r].status = "running", rec'[r].status = "cancelled"
      PROVE  \/ \E t \in Terminators : terminator[t].rows[r].status \in RecordPending
             \/ broker'[r] < broker[r]
  <2>1. rec \in [Records -> Row] /\ broker \in [Records -> Nat]
    BY <1>3 DEF TypeOK
  <2>2. ASSUME NEW S, FailIfUnfinished(S) PROVE rec'[r].status # "cancelled"
    BY <2>1, <2>2, <1>3 DEF FailIfUnfinished, SetRow, Failed
  <2>3. ASSUME NEW q, NEW row \in {Failed, Succeeded}, Finish(q, row)
        PROVE  rec'[r].status # "cancelled"
    BY <2>1, <2>3, <1>3 DEF Finish, SetRow, Failed, Succeeded
  <2>4. ASSUME NEW S, NEW status \in {"queued", "running"}, SetStatus(S, status)
        PROVE  rec'[r].status # "cancelled"
    BY <2>1, <2>4, <1>3 DEF SetStatus, Row
  <2>5. CASE DispatchCommit \/ CeleryDisabled \/ DispatchError
    BY <2>5, <2>2, <2>4, <1>3 DEF DispatchCommit, CeleryDisabled, DispatchError
  <2>6. ASSUME NEW w \in Workers, NEW q \in Records, DiscardRevoked(w, q)
        PROVE  broker'[r] < broker[r]
    <3>1. q = r
      BY <2>1, <2>6, <1>3 DEF DiscardRevoked, SetRow, IfUnfinished
    <3> QED BY <2>1, <2>6, <3>1 DEF DiscardRevoked, Take
  <2>7. ASSUME NEW w \in Workers,
               GiveUpSlot(w) \/ Execute(w) \/ AbortTask(w) \/ BackupSucceeds(w) \/ BackupFails(w)
                 \/ SoftLimit(w) \/ SoftLimitWritten(w) \/ SoftLimitEscapes(w) \/ HardLimit(w)
        PROVE  rec'[r].status # "cancelled"
    BY <2>7, <2>2, <2>3, <2>4, <1>3
       DEF GiveUpSlot, Execute, AbortTask, BackupSucceeds, BackupFails, SoftLimit, SoftLimitWritten,
           SoftLimitEscapes, HardLimit, Backoff, GiveUp
  <2>8. ASSUME NEW t \in Terminators, TerminateCommit(t)
        PROVE  terminator[t].rows[r].status \in RecordPending
    BY <2>1, <2>8, <1>3 DEF TerminateCommit, CancelRows, TerminatorHoldsPending
  <2>9. ASSUME NEW q \in Records, DeleteRecord(q) PROVE rec'[r].status # "cancelled"
    BY <2>1, <2>9, <1>3 DEF DeleteRecord
  <2>10. CASE UNCHANGED rec
    BY <2>10, <1>3
  <2> QED
    BY <1>3, <2>5, <2>6, <2>7, <2>8, <2>9, <2>10
       DEF Next, vars, Dispatch, Work, Finalize, Terminate, Environment, Step, DispatchFinalizer,
           DispatchRecord, DispatchRaises, DispatchAmbiguous, DispatchDone, DispatcherCrash, StartTask,
           WaitForSlot, RetryBackup, Resume, HardLimit, Ack, Crash, Redeliver, Lose, FinalizerPoll,
           FinalizerClose, FinalizerFails, FinalizerCrash, TerminateRead, TerminateRollback
<1>4. TypeOK /\ TerminatorHoldsPending /\ [Next]_vars =>
        [\A r \in Records : rec[r].status = "running" /\ rec'[r].status = "cancelled" =>
             \/ \E t \in Terminators : terminator[t].rows[r].status \in RecordPending
             \/ broker'[r] < broker[r]]_vars
  BY <1>3
<1> QED BY <1>1, <1>2, <1>4, TypeCorrect, PTL DEF Spec, TerminationIsPendingOnly

-----------------------------------------------------------------------------
(* The collector of an open run. *)

\* The finalizer is dispatched after the first commit.
FinalizerNotYet == dispatcher.pc \in {"commit", "finalizer"} => finalizer.pc = "none"

\* Before the finalizer is dispatched no record is, so none runs, and no
\* terminate request has seen one running.
FinalizerFirst ==
    finalizer.pc = "none" =>
        /\ dispatcher.sent = {} /\ dispatcher.pc # "records"
        /\ \A r \in Records : broker[r] = 0 /\ rec[r].status # "running"
        /\ \A w \in Workers : job[w] = Idle
        /\ \A t \in Terminators : terminator[t].pc = "revoking" =>
              \A r \in Records : terminator[t].rows[r].status # "running"

\* The collector of an open run, without the cases OpenRunHasCollector may leave
\* open because they do not happen.
CollectorIsKnown ==
    run.status \in RunActive =>
        \/ finalizer.pc \in {"queued", "closing"}
        \/ /\ finalizer.pc = "none"
           /\ \/ dispatcher.pc \in {"commit", "finalizer"}
              \/ dispatcher.pc = "error" /\ dispatcher.sent = {}
        \/ history.collectorLost

\* There is no finalizer before the dispatcher dispatches it.
LEMMA FinalizerNotYetKept ==
    ASSUME TypeOK, FinalizerNotYet, [Next]_vars PROVE FinalizerNotYet'
<1> USE DEF FinalizerNotYet, TypeOK, Dispatcher
<1>1. CASE DispatchFinalizer \/ DispatchAmbiguous
  BY <1>1 DEF DispatchFinalizer, DispatchAmbiguous
<1>2. CASE FinalizerPoll \/ FinalizerClose \/ FinalizerFails \/ FinalizerCrash
  BY <1>2 DEF FinalizerPoll, FinalizerClose, FinalizerFails, FinalizerCrash
<1>3. CASE finalizer' = finalizer
  <2>1. dispatcher'.pc \in {"commit", "finalizer"} => dispatcher.pc \in {"commit", "finalizer"}
    BY DispatcherMoves
       DEF DispatchCommit, CeleryDisabled, DispatchFinalizer, DispatchRecord, DispatchRaises,
           DispatchAmbiguous, DispatchDone, DispatchError, DispatcherCrash
  <2> QED BY <2>1, <1>3
<1> QED BY <1>1, <1>2, <1>3, FinalizerMoves

\* Before the finalizer no record is dispatched, so none runs or is seen running.
LEMMA FinalizerFirstKept ==
    ASSUME TypeOK, FinalizerFirst, [Next]_vars PROVE FinalizerFirst'
<1> SUFFICES ASSUME finalizer'.pc = "none" PROVE FinalizerFirst'
  BY DEF FinalizerFirst
<1>0. dispatcher \in Dispatcher /\ finalizer \in Finalizer /\ job \in [Workers -> Job]
  BY DEF TypeOK
<1>1. finalizer' = finalizer
  <2>1. CASE DispatchFinalizer \/ DispatchAmbiguous
    BY <2>1, <1>0 DEF DispatchFinalizer, DispatchAmbiguous, Finalizer
  <2>2. CASE FinalizerPoll
    BY <2>2, <1>0 DEF FinalizerPoll, Finalizer
  <2>3. CASE FinalizerClose \/ FinalizerFails \/ FinalizerCrash
    BY <2>3 DEF FinalizerClose, FinalizerFails, FinalizerCrash, Dismissed
  <2> QED BY <2>1, <2>2, <2>3, FinalizerMoves
<1>2. /\ dispatcher.sent = {} /\ dispatcher.pc # "records"
      /\ \A r \in Records : ~(broker[r] > 0)
      /\ \A r \in Records : broker[r] = 0 /\ rec[r].status # "running"
      /\ \A w \in Workers : job[w] = Idle
      /\ \A t \in Terminators : terminator[t].pc = "revoking" =>
            \A r \in Records : terminator[t].rows[r].status # "running"
  BY <1>1 DEF FinalizerFirst
<1>3. \A w \in Workers : ~Work(w) /\ ~Crash(w) /\ ~Redeliver(w) /\ ~SoftLimitWritten(w)
  <2>1. \A w \in Workers : job[w].pc = "idle"
    BY <1>2 DEF Idle
  <2> QED BY <1>2, <2>1
          DEF Work, StartTask, DiscardRevoked, Take, WaitForSlot, GiveUpSlot, Execute, AbortTask,
              BackupSucceeds, BackupFails, RetryBackup, Resume, SoftLimit, SoftLimitWritten, SoftLimitEscapes,
              HardLimit, Ack, Step, Crash, Redeliver
<1>4. ~DispatchFinalizer /\ ~DispatchAmbiguous /\ \A r \in Records : ~DispatchRecord(r) /\ ~Lose(r)
  BY <1>0, <1>1, <1>2
     DEF DispatchFinalizer, DispatchAmbiguous, DispatchRecord, Lose, Finalizer
<1>5. UNCHANGED <<broker, job>>
  BY <1>3, <1>4
     DEF Next, vars, Dispatch, Finalize, Terminate, Environment, DispatchCommit, CeleryDisabled,
         DispatchRaises, DispatchDone, DispatchError, DispatcherCrash, FinalizerPoll, FinalizerClose,
         FinalizerFails, FinalizerCrash, TerminateRead, TerminateCommit, TerminateRollback,
         DeleteRecord
<1>6. dispatcher'.sent = {} /\ dispatcher'.pc # "records"
  BY <1>0, <1>2, <1>4, DispatcherMoves
     DEF DispatchCommit, CeleryDisabled, DispatchRaises, DispatchDone, DispatchError, DispatcherCrash,
         Dispatcher
<1>7. \A r \in Records : rec'[r].status # "running"
  <2> SUFFICES ASSUME NEW r \in Records PROVE rec'[r].status # "running"
    OBVIOUS
  <2>1. \A w \in Workers : ~Execute(w)
    BY <1>3 DEF Work
  <2> QED BY <2>1, <1>2, RowMoves DEF RecordTerminal
<1>8. \A t \in Terminators : terminator'[t].pc = "revoking" =>
         \A r \in Records : terminator'[t].rows[r].status # "running"
  <2>1. terminator \in [Terminators -> Terminator]
    BY DEF TypeOK
  <2>2. ASSUME NEW u \in Terminators, NEW whole \in BOOLEAN, NEW S \in SUBSET Records,
               TerminateRead(u, whole, S), NEW t \in Terminators
        PROVE  terminator'[t] = terminator[t] \/ terminator'[t].rows = rec
    BY <2>1, <2>2 DEF TerminateRead
  <2>3. ASSUME NEW u \in Terminators, TerminateCommit(u) \/ TerminateRollback(u), NEW t \in Terminators
        PROVE  terminator'[t] = terminator[t] \/ terminator'[t].pc = "idle"
    BY <2>1, <2>3 DEF TerminateCommit, TerminateRollback, Dismiss, NoTerm
  <2> QED BY <2>2, <2>3, <1>2, TerminatorMoves
<1> QED BY <1>1, <1>2, <1>5, <1>6, <1>7, <1>8 DEF FinalizerFirst

\* Every action leaves an open run with the collector CollectorIsKnown names.
LEMMA CollectorIsKnownKept ==
    ASSUME TypeOK, SentIsLate, TerminatorHoldsPending, FinalizerFirst, FinalizerNotYet,
           CollectorIsKnown, [Next]_vars
    PROVE  CollectorIsKnown'
<1> SUFFICES ASSUME run'.status \in RunActive, ~history'.collectorLost
             PROVE  \/ finalizer'.pc \in {"queued", "closing"}
                    \/ /\ finalizer'.pc = "none"
                       /\ \/ dispatcher'.pc \in {"commit", "finalizer"}
                          \/ dispatcher'.pc = "error" /\ dispatcher'.sent = {}
  BY DEF CollectorIsKnown
<1>0. dispatcher \in Dispatcher /\ finalizer \in Finalizer /\ run \in RunRow /\ history \in History
      /\ terminator \in [Terminators -> Terminator]
  BY DEF TypeOK
<1>1. ~history.collectorLost
  BY <1>0, HistoryMoves DEF NoteReopening, DispatcherCrash, SoftLimitWritten, Lose, FinalizerFails,
                              Redeliver, DispatchAmbiguous, History
<1>2. \A seen \in RunRow, rows \in [Records -> Row] :
          CloseRun(seen, rows) => run'.status \in RunTerminal
  BY <1>0, CloseRunClosesIt
<1>3. RunActive \cap RunTerminal = {} /\ "missing" \notin RunActive
  BY DEF RunActive, RunTerminal
<1>4. CASE run.status \in RunActive
  <2>1. \/ finalizer.pc \in {"queued", "closing"}
        \/ /\ finalizer.pc = "none"
           /\ \/ dispatcher.pc \in {"commit", "finalizer"}
              \/ dispatcher.pc = "error" /\ dispatcher.sent = {}
    BY <1>1, <1>4 DEF CollectorIsKnown
  <2>2. CASE finalizer.pc \in {"queued", "closing"}
    <3>1. CASE DispatchFinalizer \/ DispatchAmbiguous
      BY <3>1, <2>2, <1>0 DEF DispatchFinalizer, DispatchAmbiguous, Finalizer
    <3>2. CASE FinalizerPoll
      BY <3>2, <1>4, <1>3, <1>0 DEF FinalizerPoll, AlreadyFinished, Finalizer
    <3>3. CASE FinalizerClose
      BY <3>3, <1>0, <1>2, <1>3 DEF FinalizerClose, Finalizer
    <3>4. CASE FinalizerFails
      BY <3>4, <1>0 DEF FinalizerFails, History
    <3>5. CASE FinalizerCrash
      BY <3>5 DEF FinalizerCrash, Dismissed
    <3> QED BY <3>1, <3>2, <3>3, <3>4, <3>5, <2>2, FinalizerMoves
  <2>3. CASE finalizer.pc = "none"
    <3>1. ~FinalizerPoll /\ ~FinalizerClose /\ ~FinalizerFails /\ ~FinalizerCrash
      BY <2>3 DEF FinalizerPoll, FinalizerClose, FinalizerFails, FinalizerCrash
    <3>2. CASE DispatchFinalizer
      BY <3>2, <1>0 DEF DispatchFinalizer, Finalizer
    <3>3. CASE DispatchAmbiguous
      BY <3>3, <2>3, <1>0 DEF DispatchAmbiguous, FinalizerFirst, Finalizer
    <3>4. CASE finalizer' = finalizer /\ ~DispatchFinalizer /\ ~DispatchAmbiguous
      <4>1. CASE dispatcher' = dispatcher
        BY <4>1, <3>4, <2>1, <2>3
      <4>2. CASE DispatchCommit
        BY <4>2, <3>4, <2>3, <1>0 DEF DispatchCommit, Dispatcher
      <4>3. ~CeleryDisabled
        <5>1. CeleryDisabled => run'.status \notin RunActive
          BY <1>3, <1>4 DEF CeleryDisabled, FinishEnqueueFailed, RunTerminal
        <5> QED BY <5>1
      <4>4. ~DispatchDone /\ \A r \in Records : ~DispatchRecord(r)
        BY <2>3 DEF DispatchDone, DispatchRecord, FinalizerFirst
      <4>5. CASE DispatchRaises
        BY <4>5, <3>4, <2>3, <1>0 DEF DispatchRaises, FinalizerFirst, Dispatcher
      <4>6. ~DispatchError
        <5>1. dispatcher.sent = {}
          BY <2>3 DEF FinalizerFirst
        <5>2. DispatchError => run'.status \notin RunActive
          BY <5>1, <1>3, <1>4 DEF DispatchError, FinishEnqueueFailed, RunTerminal
        <5> QED BY <5>2
      <4>7. ~DispatcherCrash
        <5>1. ASSUME DispatcherCrash PROVE history'.collectorLost
          <6>1. history'.collectorLost = (history.collectorLost \/ finalizer.pc = "none")
            BY <5>1 DEF DispatcherCrash
          <6> QED BY <6>1, <2>3
        <5> QED BY <5>1
      <4> QED BY <4>1, <4>2, <4>3, <4>4, <4>5, <4>6, <4>7, <3>4, DispatcherMoves
    <3> QED BY <3>1, <3>2, <3>3, <3>4, FinalizerMoves
  <2> QED BY <2>1, <2>2, <2>3
\* A closed run becomes active again: the writer noted the loss, or a finalizer is left.
<1>5. CASE run.status \notin RunActive
  <2>1. run' # run
    BY <1>5
  <2>2. run.status = "missing" \/ RunClosed
    BY <1>0, <1>5 DEF RunRow, RunStatus, RunClosed
  <2>3. ~CeleryDisabled /\ ~FinalizerClose /\ \A r \in Records : ~DeleteRecord(r)
    <3>1. ASSUME CeleryDisabled PROVE FALSE
      BY <3>1, <2>1, <2>2 DEF CeleryDisabled, FinishEnqueueFailed, RunClosed
    <3>2. ASSUME FinalizerClose PROVE FALSE
      BY <3>2, <2>1, <1>0, <1>2, <1>3 DEF FinalizerClose, Finalizer
    <3>3. ASSUME NEW r \in Records, DeleteRecord(r) PROVE FALSE
      BY <3>3, <2>1, <1>3 DEF DeleteRecord, NoRun
    <3> QED BY <3>1, <3>2, <3>3
  <2>4. CASE DispatchCommit
    <3>1. finalizer.pc = "none" /\ finalizer' = finalizer /\ dispatcher'.pc = "finalizer"
      BY <2>4, <1>0 DEF DispatchCommit, FinalizerNotYet, Dispatcher
    <3> QED BY <3>1
  <2>5. CASE DispatchDone \/ DispatchError \/ \E t \in Terminators : TerminateCommit(t)
    <3>1. NoteReopening /\ finalizer' = finalizer
      BY <2>5 DEF DispatchDone, DispatchError, TerminateCommit
    <3>2. RunClosed
      BY <2>1, <2>2, <2>5
         DEF DispatchDone, DispatchError, TerminateCommit, RowsGone, SetRunStatus,
             FinishEnqueueFailed
    <3>3. finalizer.pc # "done"
      BY <3>1, <3>2, <1>0 DEF NoteReopening, History
    <3>4. finalizer.pc # "none"
      <4> SUFFICES ASSUME finalizer.pc = "none" PROVE FALSE
        OBVIOUS
      <4>1. /\ dispatcher.sent = {} /\ dispatcher.pc # "records"
            /\ \A t \in Terminators : terminator[t].pc = "revoking" =>
                 \A r \in Records : terminator[t].rows[r].status # "running"
        BY DEF FinalizerFirst
      <4>2. CASE DispatchDone \/ DispatchError
        BY <4>1, <4>2, <2>1, <3>2 DEF DispatchDone, DispatchError, FinishEnqueueFailed, RunClosed
      <4>3. ASSUME NEW t \in Terminators, TerminateCommit(t) PROVE FALSE
        <5>1. BelievedRows(t) \in [Records -> Row]
          BY <1>0 DEF BelievedRows, Terminator, Row, RecordStatus, RecordTerminal
        <5>2. terminator[t].whole => Unfinished(BelievedRows(t)) = {}
          BY <4>1, <4>3 DEF TerminateCommit, TerminatorHoldsPending, Unfinished, BelievedRows,
                             RecordActive, RecordPending
        <5> QED BY <5>1, <5>2, <4>3, <2>1, <1>0, <1>2, <1>3 DEF TerminateCommit, Terminator
      <4> QED BY <2>5, <4>2, <4>3
    <3> QED BY <3>1, <3>3, <3>4, <1>0 DEF Finalizer
  <2> QED BY <2>1, <2>3, <2>4, <2>5, RunMoves
<1> QED BY <1>4, <1>5

\* enqueue_schedule_run dispatches the finalizer first: whatever fails afterwards,
\* an open run keeps a finalizer, or a dispatcher that will dispatch one or close
\* the run, unless a fault or a late write took it (history.collectorLost).
THEOREM OpenRunIsCollected == Spec => []OpenRunHasCollector
<1> DEFINE CInv == /\ SentIsLate /\ TerminatorHoldsPending /\ FinalizerFirst /\ FinalizerNotYet
                   /\ CollectorIsKnown
<1>1. Init => CInv
  BY DEF Init, SentIsLate, TerminatorHoldsPending, FinalizerFirst, FinalizerNotYet, CollectorIsKnown,
         NoTerm
<1>2. TypeOK /\ CInv /\ [Next]_vars => CInv'
  BY SentIsLateKept, TerminatorHoldsPendingKept, FinalizerFirstKept, FinalizerNotYetKept,
     CollectorIsKnownKept
<1>3. CInv => OpenRunHasCollector
  BY DEF CollectorIsKnown, OpenRunHasCollector
<1> QED BY <1>1, <1>2, <1>3, TypeCorrect, PTL DEF Spec

-----------------------------------------------------------------------------
(* What holds when nobody terminates the run and as long as no task was        *)
(* doubled (delivered again, accepted by the broker although apply_async       *)
(* raised, or going on after its committed success): the outcome of a record is final, a run that says it succeeded is  *)
(* right, the counts of a closed run are those of its rows, and the rows       *)
(* implement BackupLedger.  Crashes, lost messages, hard kills, a dying        *)
(* dispatcher or finalizer and deletions are allowed throughout.               *)

\* Without duplicates and terminate requests a record's task exists once: with
\* the dispatcher, then in the broker, then with one worker.
OneCopy ==
    /\ \A w \in Workers : job[w].pc = "idle" => job[w].rec = NoRecord
    /\ \A r \in Records :
          /\ r \notin dispatcher.sent => broker[r] = 0 /\ \A w \in Workers : job[w].rec # r
          /\ broker[r] <= 1
          /\ broker[r] = 1 => \A w \in Workers : job[w].rec # r
          /\ \A w, v \in Workers : job[w].rec = r /\ job[v].rec = r => w = v

\* What is executed is unfinished or was deleted meanwhile, and nothing is finished
\* before the first commit.
ExecutedIsActive ==
    /\ \A r \in Records, w \in Workers :
          Executes(w, r) => rec[r].status \in RecordActive \cup {"absent"}
    /\ dispatcher.pc = "commit" => \A r \in Records : rec[r].status = "planned"

\* Nobody terminates the run.
NoTermination == revoked = {} /\ \A t \in Terminators : terminator[t].pc = "idle"

\* Without terminate requests nothing is revoked.
LEMMA NoTerminationKept ==
    ASSUME MaxTerminations = 0, TypeOK, NoTermination, [Next]_vars PROVE NoTermination'
<1>1. \A t \in Terminators :
        /\ ~TerminateCommit(t) /\ ~TerminateRollback(t)
        /\ \A whole \in BOOLEAN, S \in SUBSET Records : ~TerminateRead(t, whole, S)
  BY DEF NoTermination, TerminateCommit, TerminateRollback, TerminateRead, TypeOK, Budget
<1>2. terminator' = terminator
  BY <1>1, TerminatorMoves
<1>3. revoked' = revoked
  BY <1>1 DEF Next, vars, Dispatch, Work, Finalize, Terminate, Environment, Step, DispatchCommit,
       CeleryDisabled, DispatchFinalizer, DispatchRecord, DispatchRaises, DispatchAmbiguous,
       DispatchDone, DispatchError, DispatcherCrash, StartTask, DiscardRevoked, WaitForSlot,
       GiveUpSlot, Execute, AbortTask, BackupSucceeds, BackupFails, RetryBackup, Resume, SoftLimit,
       SoftLimitWritten, SoftLimitEscapes, HardLimit, Ack, Crash, Redeliver, Lose, FinalizerPoll, FinalizerClose,
       FinalizerFails, FinalizerCrash, DeleteRecord
<1> QED BY <1>2, <1>3 DEF NoTermination

\* Workers that go on with the record they have, or drop it, make no copy.
LEMMA JobsMakeNoCopy ==
    ASSUME OneCopy, broker' = broker, dispatcher'.sent = dispatcher.sent,
           \A w \in Workers : \/ job'[w] = job[w] \/ job'[w] = Idle
                              \/ job'[w].pc # "idle" /\ job'[w].rec = job[w].rec
    PROVE  OneCopy'
<1>1. \A w \in Workers : job'[w].rec = job[w].rec \/ job'[w].rec = NoRecord
  BY DEF Idle
<1>2. \A w \in Workers : job'[w].pc = "idle" => job'[w].rec = NoRecord
  BY DEF Idle, OneCopy
<1> QED BY <1>1, <1>2, RunAssumption DEF RunAssumption, OneCopy

\* That a task was doubled is never forgotten.
LEMMA DoublingIsRemembered ==
    ASSUME TypeOK, [Next]_vars, ~history'.duplicated
    PROVE  /\ ~history.duplicated
           /\ \A w \in Workers : ~Redeliver(w) /\ ~SoftLimitWritten(w)
           /\ DispatchAmbiguous => UNCHANGED <<broker, job>> /\ dispatcher'.sent = dispatcher.sent
<1>0. history \in History /\ dispatcher \in Dispatcher
  BY DEF TypeOK
<1>1. /\ \A w \in Workers : ~Redeliver(w) /\ ~SoftLimitWritten(w)
      /\ DispatchAmbiguous => /\ UNCHANGED <<broker, job, history>>
                              /\ dispatcher'.sent = dispatcher.sent
  BY <1>0 DEF Redeliver, SoftLimitWritten, DispatchAmbiguous, History, Dispatcher
<1>2. history'.duplicated = history.duplicated
  BY <1>0, <1>1, HistoryMoves
     DEF NoteReopening, DispatcherCrash, FinalizerFails, Lose, History
<1> QED BY <1>1, <1>2

\* Unless a message was doubled no action copies a task.
LEMMA OneCopyKept ==
    ASSUME ~history'.duplicated, TypeOK, OneCopy, NoTermination, [Next]_vars
    PROVE  OneCopy'
<1>0. /\ broker \in [Records -> Nat] /\ job \in [Workers -> Job] /\ dispatcher \in Dispatcher
      /\ \A w \in Workers : job[w].pc # "idle" => job[w].rec \in Records
  BY DEF TypeOK
<1>1. \A w \in Workers : /\ ~Redeliver(w) /\ ~SoftLimitWritten(w)
                        /\ \A r \in Records : ~DiscardRevoked(w, r)
  BY DoublingIsRemembered DEF DiscardRevoked, NoTermination
<1>2. CASE UNCHANGED <<broker, job>> /\ dispatcher'.sent = dispatcher.sent
  BY <1>2, JobsMakeNoCopy
<1>3. CASE \/ DispatchCommit \/ CeleryDisabled \/ DispatchFinalizer \/ DispatchRaises \/ DispatchDone
           \/ DispatchError \/ DispatcherCrash \/ DispatchAmbiguous
  BY <1>0, <1>2, <1>3, DoublingIsRemembered
     DEF DispatchCommit, CeleryDisabled, DispatchFinalizer, DispatchRaises, DispatchDone,
         DispatchError, DispatcherCrash, Dispatcher
<1>4. ASSUME NEW r \in Records, DispatchRecord(r) PROVE OneCopy'
  BY <1>4, <1>0 DEF DispatchRecord, OneCopy, Dispatcher
<1>5. ASSUME NEW w \in Workers, NEW r \in Records, StartTask(w, r) PROVE OneCopy'
  <2>1. PICK pc \in {"checked", "acking"} : job' = [job EXCEPT ![w] = Started(r, pc)]
    BY <1>5 DEF StartTask, MayExecute
  <2>2. Started(r, pc).rec = r /\ Started(r, pc).pc # "idle"
    BY DEF Started
  <2>3. broker[r] > 0 /\ broker' = [broker EXCEPT ![r] = @ - 1] /\ dispatcher' = dispatcher
    BY <1>5 DEF StartTask, Take
  <2>4. broker[r] = 1 /\ broker'[r] = 0 /\ r \in dispatcher.sent
        /\ \A v \in Workers : job[v].rec # r
    BY <2>3, <1>0 DEF OneCopy
  <2>5. /\ job'[w].rec = r /\ job'[w].pc # "idle"
        /\ \A v \in Workers \ {w} : job'[v] = job[v]
        /\ \A q \in Records \ {r} : broker'[q] = broker[q]
    BY <2>1, <2>2, <2>3, <1>0
  <2> QED BY <2>3, <2>4, <2>5 DEF OneCopy
<1>6. ASSUME NEW w \in Workers, WaitForSlot(w) \/ Crash(w) PROVE OneCopy'
  <2>1. /\ job[w].pc # "idle" /\ dispatcher' = dispatcher
        /\ broker' = [broker EXCEPT ![job[w].rec] = @ + 1]
        /\ job' = [job EXCEPT ![w] = Idle]
    BY <1>6 DEF WaitForSlot, Crash, Requeue, Release
  <2>2. PICK r \in Records : r = job[w].rec
    BY <2>1, <1>0
  <2>3. broker[r] = 0 /\ r \in dispatcher.sent
    <3>1. broker[r] \in Nat /\ broker[r] <= 1 /\ broker[r] # 1
      BY <2>2, <1>0 DEF OneCopy
    <3>2. r \in dispatcher.sent
      BY <2>2 DEF OneCopy
    <3> QED BY <3>1, <3>2
  <2>4. /\ job'[w] = Idle /\ broker'[r] = 1
        /\ \A v \in Workers \ {w} : job'[v] = job[v] /\ job[v].rec # r
        /\ \A q \in Records \ {r} : broker'[q] = broker[q]
    BY <2>1, <2>2, <2>3, <1>0 DEF OneCopy
  <2>5. Idle.pc = "idle" /\ Idle.rec = NoRecord /\ NoRecord \notin Records
    BY RunAssumption DEF RunAssumption, Idle
  <2> QED BY <2>1, <2>3, <2>4, <2>5 DEF OneCopy
<1>7. ASSUME NEW w \in Workers, \/ GiveUpSlot(w) \/ Execute(w) \/ AbortTask(w) \/ BackupSucceeds(w)
                                \/ BackupFails(w) \/ RetryBackup(w) \/ Resume(w) \/ SoftLimit(w)
                                \/ SoftLimitEscapes(w)
      PROVE  OneCopy'
  <2>1. /\ broker' = broker /\ dispatcher' = dispatcher
        /\ job'[w].pc # "idle" /\ job'[w].rec = job[w].rec
        /\ \A v \in Workers \ {w} : job'[v] = job[v]
    BY <1>7, <1>0 DEF GiveUpSlot, Execute, AbortTask, BackupSucceeds, BackupFails, RetryBackup, Resume,
       SoftLimit, SoftLimitEscapes, Backoff, GiveUp, Step, Become, Job
  <2> QED BY <2>1, JobsMakeNoCopy
<1>8. ASSUME NEW w \in Workers, HardLimit(w) \/ Ack(w) PROVE OneCopy'
  BY <1>8, <1>0, JobsMakeNoCopy DEF HardLimit, Ack, Release
<1>9. ASSUME NEW r \in Records, Lose(r) PROVE OneCopy'
  BY <1>9, <1>0 DEF Lose, OneCopy
<1> QED
  BY <1>1, <1>2, <1>3, <1>4, <1>5, <1>6, <1>7, <1>8, <1>9
     DEF Next, vars, Dispatch, Work, Finalize, Terminate, Environment, FinalizerPoll, FinalizerClose,
         FinalizerFails, FinalizerCrash, TerminateRead, TerminateCommit, TerminateRollback,
         DeleteRecord

\* An execution goes on, or begins with a row that may be executed.
LEMMA ExecutionBegins ==
    ASSUME ~history'.duplicated, TypeOK, OneCopy, [Next]_vars,
           NEW w \in Workers, NEW r \in Records, Executes(w, r)'
    PROVE  Executes(w, r) \/ (MayExecute(r) /\ rec' = rec)
<1>0. job \in [Workers -> Job]
  BY DEF TypeOK
<1>1. CASE job'[w] = job[w]
  BY <1>1 DEF Executes
<1>2. ASSUME NEW v \in Workers, NEW q \in Records, StartTask(v, q)
      PROVE  job'[w] = job[w] \/ (MayExecute(r) /\ rec' = rec)
  BY <1>2, <1>0 DEF StartTask, MayExecute, Started, Executes
<1>3. ASSUME NEW v \in Workers, \/ WaitForSlot(v) \/ Crash(v) \/ HardLimit(v) \/ Ack(v)
      PROVE  job'[w] = job[w]
  BY <1>3, <1>0 DEF WaitForSlot, Crash, HardLimit, Ack, Release, Executes, Idle
<1>4. ASSUME NEW v \in Workers, \/ GiveUpSlot(v) \/ Execute(v) \/ AbortTask(v) \/ BackupSucceeds(v)
                                \/ BackupFails(v) \/ RetryBackup(v) \/ Resume(v) \/ SoftLimit(v)
                                \/ SoftLimitEscapes(v)
      PROVE  job'[w] = job[w] \/ Executes(w, r)
  BY <1>4, <1>0 DEF GiveUpSlot, Execute, AbortTask, BackupSucceeds, BackupFails, RetryBackup, Resume,
       SoftLimit, SoftLimitEscapes, Backoff, GiveUp, Step, Become, Job, Executes
<1> QED
  BY <1>1, <1>2, <1>3, <1>4, DoublingIsRemembered
     DEF Next, vars, Dispatch, Work, Finalize, Terminate, Environment, DispatchCommit, CeleryDisabled,
         DispatchFinalizer, DispatchRecord, DispatchRaises, DispatchAmbiguous, DispatchDone,
         DispatchError, DispatcherCrash, DiscardRevoked, Redeliver, Lose, FinalizerPoll,
         FinalizerClose, FinalizerFails, FinalizerCrash, TerminateRead, TerminateCommit,
         TerminateRollback, DeleteRecord

\* A worker that executes a record has it alone, so only its own step finishes it.
LEMMA ExecutedIsActiveKept ==
    ASSUME ~history'.duplicated, TypeOK, SentIsLate, OneCopy, NoTermination, ExecutedIsActive, [Next]_vars
    PROVE  ExecutedIsActive'
<1>0. /\ rec \in [Records -> Row] /\ job \in [Workers -> Job] /\ dispatcher \in Dispatcher
  BY DEF TypeOK
<1> USE DEF RecordActive, RecordPending, RecordTerminal
<1>1. /\ \A t \in Terminators : ~TerminateCommit(t)
      /\ \A w \in Workers : ~SoftLimitWritten(w) /\ \A r \in Records : ~DiscardRevoked(w, r)
  BY DoublingIsRemembered DEF NoTermination, TerminateCommit, DiscardRevoked
<1>2. \A r \in Records, w \in Workers : r \notin dispatcher.sent => job[w].rec # r
  BY DEF OneCopy
<1>3. ASSUME dispatcher'.pc = "commit", NEW r \in Records PROVE rec'[r].status = "planned"
  <2>1. dispatcher' = dispatcher /\ ~DispatchCommit /\ ~CeleryDisabled /\ ~DispatchError
    BY <1>0, <1>3, DispatcherMoves
       DEF DispatchCommit, CeleryDisabled, DispatchFinalizer, DispatchRecord, DispatchRaises,
           DispatchAmbiguous, DispatchDone, DispatchError, DispatcherCrash, Dispatcher
  <2>2. rec[r].status = "planned" /\ r \notin dispatcher.sent
    BY <2>1, <1>3 DEF ExecutedIsActive, SentIsLate
  <2>3. ~DeleteRecord(r)
    BY <2>1, <2>2, <1>3 DEF DeleteRecord, Committed
  <2>4. \A w \in Workers : HardLimit(w) => job[w].rec # r
    BY <2>2, <1>2
  <2> QED BY <2>1, <2>2, <2>3, <2>4, <1>1, <1>2, RowMoves DEF Executes
<1>4. ASSUME NEW r \in Records, NEW w \in Workers, Executes(w, r)'
      PROVE  rec'[r].status \in RecordActive \cup {"absent"}
  <2>1. CASE MayExecute(r) /\ rec' = rec
    BY <2>1, <1>0 DEF MayExecute, Exists, Row, RecordStatus
  <2>2. CASE Executes(w, r)
    <3>1. rec[r].status \in RecordActive \cup {"absent"} /\ job[w].rec = r /\ r \in dispatcher.sent
      BY <2>2, <1>2 DEF ExecutedIsActive, Executes
    <3>2. ~CeleryDisabled
      BY <3>1 DEF CeleryDisabled, SentIsLate
    <3>3. \A v \in Workers : Executes(v, r) => v = w
      BY <3>1 DEF OneCopy, Executes
    <3>4. job'[w].pc \notin {"idle", "written", "acking"}
      BY <1>4 DEF Executes
    <3>5. \A v \in Workers : HardLimit(v) => job[v].rec # r
      <4>1. ASSUME NEW v \in Workers, HardLimit(v), job[v].rec = r PROVE FALSE
        <5>1. v = w
          BY <3>1, <4>1 DEF OneCopy
        <5> QED BY <5>1, <4>1, <3>4, <1>0 DEF HardLimit, Release, Idle
      <4> QED BY <4>1
    <3> QED BY <3>1, <3>2, <3>3, <3>4, <3>5, <1>1, RowMoves DEF Exists
  <2> QED BY <1>4, <2>1, <2>2, ExecutionBegins
<1> QED BY <1>3, <1>4 DEF ExecutedIsActive

\* The strengthening under which the outcomes are final.
SingleDelivery == SentIsLate /\ OneCopy /\ NoTermination /\ ExecutedIsActive

\* The inductive invariant: as long as no task was doubled.
UnlessDoubled == NoTermination /\ (history.duplicated \/ SingleDelivery)

LEMMA SingleDeliveryHolds ==
    ASSUME MaxTerminations = 0 PROVE Spec => []UnlessDoubled
<1>1. Init => UnlessDoubled
  BY RunAssumption
     DEF RunAssumption, Init, UnlessDoubled, SingleDelivery, SentIsLate, OneCopy, NoTermination, ExecutedIsActive,
         Executes, Idle, NoTerm
<1>2. TypeOK /\ UnlessDoubled /\ [Next]_vars => UnlessDoubled'
  BY SentIsLateKept, OneCopyKept, NoTerminationKept, ExecutedIsActiveKept, DoublingIsRemembered
     DEF UnlessDoubled, SingleDelivery
<1> QED BY <1>1, <1>2, TypeCorrect, PTL DEF Spec

\* In that environment no action rewrites a finished row or revives a deleted one.
LEMMA FinalRows ==
    ASSUME ~history'.duplicated, TypeOK, SingleDelivery, [Next]_vars, NEW r \in Records
    PROVE  /\ rec[r].status \in RecordTerminal => rec'[r] = rec[r] \/ rec'[r].status = "absent"
           /\ rec[r].status = "absent" => rec'[r] = rec[r]
<1> SUFFICES ASSUME rec[r].status \in RecordTerminal \cup {"absent"}
             PROVE  \/ rec'[r] = rec[r]
                    \/ rec'[r].status = "absent" /\ rec[r].status \in RecordTerminal
  BY DEF RecordTerminal
<1>1. rec[r].status \notin RecordActive /\ rec[r].status # "planned"
  BY DEF RecordActive, RecordPending, RecordTerminal
<1>2. CASE rec[r].status = "absent"
  BY <1>2, RowMoves DEF Exists
<1>3. CASE rec[r].status \in RecordTerminal
  <2>1. \A w \in Workers : ~Executes(w, r) /\ ~SoftLimitWritten(w)
    BY <1>3, DoublingIsRemembered
       DEF SingleDelivery, ExecutedIsActive, RecordActive, RecordPending, RecordTerminal
  <2>2. ~DispatchCommit /\ \A t \in Terminators : ~TerminateCommit(t)
    BY <1>1 DEF SingleDelivery, ExecutedIsActive, DispatchCommit, NoTermination, TerminateCommit
  <2>3. \A w \in Workers : Execute(w) => job[w].rec # r
    BY <2>1 DEF Execute, Step, Executes
  <2> QED BY <1>1, <1>3, <2>1, <2>2, <2>3, RowMoves
<1> QED BY <1>2, <1>3

\* A record's outcome is written once: worker crashes, hard kills, lost messages
\* and dispatcher crashes never make backup_record_task, the signal handlers or the
\* dispatcher overwrite it, as long as the broker delivers each task once.
THEOREM OutcomesAreFinal ==
    ASSUME MaxTerminations = 0 PROVE Spec => FinishedStaysFinished
<1>1. TypeOK /\ UnlessDoubled /\ [Next]_vars =>
        [\A r \in Records : rec[r].status \in RecordTerminal
                              => \/ rec'[r] = rec[r] \/ rec'[r].status = "absent"
                                 \/ history'.duplicated]_vars
  BY FinalRows, DoublingIsRemembered DEF UnlessDoubled
<1> QED BY <1>1, TypeCorrect, SingleDeliveryHolds, PTL DEF Spec, FinishedStaysFinished

-----------------------------------------------------------------------------
(* The truth of a succeeded run. *)

\* The success column is set only together with the status.
SuccessIsSucceeded(rows) == \A r \in Records : rows[r].success => rows[r].status = "succeeded"

\* What the closing finalizer read as finished or deleted is still so.
ClosingSeesFinal ==
    finalizer.pc = "closing" =>
        /\ SuccessIsSucceeded(finalizer.rows)
        /\ \A r \in Records :
              /\ finalizer.rows[r].status \in RecordTerminal =>
                     rec[r] = finalizer.rows[r] \/ rec[r].status = "absent"
              /\ finalizer.rows[r].status = "absent" => rec[r].status = "absent"

\* DeriveRunTerminal says succeeded only of rows that all succeeded or are gone.
LEMMA SucceededCounts ==
    ASSUME NEW rows \in [Records -> Row], SuccessIsSucceeded(rows),
           DerivedStatus(Cardinality(Records), rows) = "succeeded"
    PROVE  \A r \in Records : rows[r].status \in {"succeeded", "absent"}
<1>1. \A S \in SUBSET Records : IsFiniteSet(S) /\ Cardinality(S) \in Nat
                                /\ (Cardinality(S) = 0 <=> S = {})
  BY FS_Subset, FS_CardinalityType, FS_EmptySet, RunAssumption DEF RunAssumption
<1>2. Cardinality(Records) # 0
  BY <1>1, RunAssumption DEF RunAssumption
<1>3. /\ Cardinality(Failures(rows)) = 0 /\ Cardinality(Cancelled(rows)) = 0
      /\ Cardinality(Unfinished(rows)) = 0
  BY <1>2, CountsAreNaturals DEF DerivedStatus, DeriveRunTerminal
<1>4. Failures(rows) \subseteq Records /\ Cancelled(rows) \subseteq Records
      /\ Unfinished(rows) \subseteq Records
  BY DEF Failures, Counted, Present, Cancelled, Unfinished
<1>5. Failures(rows) = {} /\ Cancelled(rows) = {} /\ Unfinished(rows) = {}
  BY <1>1, <1>3, <1>4
<1> QED
  BY <1>5 DEF SuccessIsSucceeded, Failures, Counted, Present, Cancelled, Unfinished

\* No write leaves success set on a row that has not succeeded.
LEMMA SuccessIsSucceededKept ==
    ASSUME ~history'.duplicated, TypeOK, SingleDelivery, SuccessIsSucceeded(rec), [Next]_vars
    PROVE  SuccessIsSucceeded(rec)'
<1> SUFFICES ASSUME NEW r \in Records, rec'[r].success, rec'[r] # rec[r]
             PROVE  rec'[r].status = "succeeded"
  BY DEF SuccessIsSucceeded
<1>1. rec \in [Records -> Row]
  BY DEF TypeOK
<1>2. ~rec[r].success \/ rec[r].status = "succeeded"
  BY DEF SuccessIsSucceeded
<1>3. ASSUME NEW S, FailIfUnfinished(S) PROVE FALSE
  BY <1>1, <1>3 DEF FailIfUnfinished, SetRow, Failed
<1>4. ASSUME NEW q, NEW row \in {Failed, Succeeded}, Finish(q, row)
      PROVE  rec'[r].status = "succeeded"
  BY <1>1, <1>4 DEF Finish, SetRow, Failed, Succeeded
<1>5. ASSUME NEW S, NEW status, SetStatus(S, status), ~rec[r].success PROVE FALSE
  BY <1>1, <1>5 DEF SetStatus, Row
<1>6. CASE DispatchCommit
  BY <1>6, <1>2, <1>5 DEF DispatchCommit, SingleDelivery, ExecutedIsActive
<1>7. CASE CeleryDisabled \/ DispatchError
  BY <1>7, <1>3 DEF CeleryDisabled, DispatchError
<1>8. ASSUME NEW w \in Workers, Execute(w) PROVE rec'[r].status = "succeeded"
  <2>1. CASE job[w].rec = r
    <3>1. ~rec[r].success
      BY <2>1, <1>8, <1>2 DEF Execute, Step, SingleDelivery, ExecutedIsActive, Executes, RecordActive,
                              RecordPending
    <3> QED BY <3>1, <1>8, <1>5 DEF Execute
  <2>2. CASE job[w].rec # r
    BY <2>2, <1>8, <1>1 DEF Execute, SetStatus
  <2> QED BY <2>1, <2>2
<1>9. ASSUME NEW w \in Workers, GiveUpSlot(w) \/ AbortTask(w) \/ BackupSucceeds(w) \/ BackupFails(w)
                                  \/ SoftLimit(w) \/ SoftLimitEscapes(w) \/ HardLimit(w)
      PROVE  rec'[r].status = "succeeded"
  BY <1>9, <1>3, <1>4
     DEF GiveUpSlot, AbortTask, BackupSucceeds, BackupFails, SoftLimit, Backoff, GiveUp, SoftLimitEscapes,
         HardLimit
<1>10. /\ \A t \in Terminators : ~TerminateCommit(t)
       /\ \A w \in Workers : ~SoftLimitWritten(w) /\ \A q \in Records : ~DiscardRevoked(w, q)
  BY DoublingIsRemembered DEF SingleDelivery, NoTermination, TerminateCommit, DiscardRevoked
<1>11. \A q \in Records : ~DeleteRecord(q)
  BY <1>1 DEF DeleteRecord
<1> QED
  BY <1>6, <1>7, <1>8, <1>9, <1>10, <1>11
     DEF Next, vars, Dispatch, Work, Finalize, Terminate, Environment, Step, DispatchFinalizer,
         DispatchRecord, DispatchRaises, DispatchAmbiguous, DispatchDone, DispatcherCrash, StartTask,
         WaitForSlot, RetryBackup, Resume, HardLimit, Ack, Crash, Redeliver, Lose, FinalizerPoll,
         FinalizerClose, FinalizerFails, FinalizerCrash, TerminateRead, TerminateRollback

\* What the finalizer read as finished does not change under it.
LEMMA ClosingSeesFinalKept ==
    ASSUME ~history'.duplicated, TypeOK, SingleDelivery, SuccessIsSucceeded(rec), ClosingSeesFinal,
           [Next]_vars
    PROVE  ClosingSeesFinal'
<1> SUFFICES ASSUME finalizer'.pc = "closing" PROVE ClosingSeesFinal'
  BY DEF ClosingSeesFinal
<1>0. finalizer \in Finalizer
  BY DEF TypeOK
<1>1. CASE finalizer' = finalizer
  <2>1. \A r \in Records :
          /\ finalizer.rows[r].status \in RecordTerminal =>
                 rec[r] = finalizer.rows[r] \/ rec[r].status = "absent"
          /\ finalizer.rows[r].status = "absent" => rec[r].status = "absent"
    BY <1>1 DEF ClosingSeesFinal
  <2>2. \A r \in Records :
          /\ rec[r].status \in RecordTerminal => rec'[r] = rec[r] \/ rec'[r].status = "absent"
          /\ rec[r].status = "absent" => rec'[r] = rec[r]
    BY FinalRows
  <2>3. \A r \in Records :
          /\ finalizer.rows[r].status \in RecordTerminal =>
                 rec'[r] = finalizer.rows[r] \/ rec'[r].status = "absent"
          /\ finalizer.rows[r].status = "absent" => rec'[r].status = "absent"
    BY <2>1, <2>2
  <2> QED BY <1>1, <2>3 DEF ClosingSeesFinal, SuccessIsSucceeded
<1>2. CASE FinalizerPoll
  <2>1. finalizer'.rows = rec /\ rec' = rec
    BY <1>2, <1>0 DEF FinalizerPoll, Finalizer
  <2> QED BY <2>1 DEF ClosingSeesFinal, SuccessIsSucceeded
<1>3. ~DispatchFinalizer /\ ~FinalizerClose /\ ~FinalizerFails /\ ~FinalizerCrash
  BY <1>0 DEF DispatchFinalizer, FinalizerClose, FinalizerFails, FinalizerCrash, Dismissed, Finalizer
<1>4. DispatchAmbiguous => finalizer' = finalizer
  BY <1>0 DEF DispatchAmbiguous, Finalizer
<1> QED BY <1>1, <1>2, <1>3, <1>4, FinalizerMoves

\* A run becomes succeeded by the finalizer's close only.
LEMMA SucceededRunIsTrueKept ==
    ASSUME ~history.duplicated, ~history'.duplicated, TypeOK, SingleDelivery, ClosingSeesFinal,
           SucceededRunIsTrue, [Next]_vars
    PROVE  SucceededRunIsTrue'
<1> SUFFICES ASSUME run'.status = "succeeded", NEW r \in Records
             PROVE  rec'[r].status \in {"succeeded", "absent"}
  BY DEF SucceededRunIsTrue
<1>1. CASE run.status = "succeeded"
  <2>1. rec[r].status \in {"succeeded", "absent"}
    BY <1>1 DEF SucceededRunIsTrue
  <2> QED BY <2>1, FinalRows DEF RecordTerminal
<1>2. CASE run.status # "succeeded"
  <2>1. run \in RunRow /\ finalizer.rows \in [Records -> Row] /\ rec \in [Records -> Row]
    BY DEF TypeOK, Finalizer
  <2>2. ~DispatchCommit /\ ~CeleryDisabled /\ ~DispatchDone /\ ~DispatchError
    BY <1>2, <2>1 DEF DispatchCommit, CeleryDisabled, DispatchDone, DispatchError, SetRunStatus,
                      FinishEnqueueFailed, RunRow
  <2>3. (\A t \in Terminators : ~TerminateCommit(t)) /\ \A q \in Records : ~DeleteRecord(q)
    BY <1>2 DEF SingleDelivery, NoTermination, TerminateCommit, DeleteRecord, NoRun
  <2>4. CASE FinalizerClose
    <3>1. /\ rec' = rec /\ finalizer.pc = "closing"
          /\ DerivedStatus(Cardinality(Records), finalizer.rows) = "succeeded"
      BY <2>4, <1>2 DEF FinalizerClose, CloseRun
    <3>2. finalizer.rows[r].status \in {"succeeded", "absent"}
      BY <3>1, <2>1, SucceededCounts DEF ClosingSeesFinal
    <3> QED BY <3>1, <3>2 DEF ClosingSeesFinal, RecordTerminal
  <2> QED BY <1>2, <2>2, <2>3, <2>4, RunMoves
<1> QED BY <1>1, <1>2

\* A run whose status is succeeded has only succeeded records, besides deleted
\* ones, from its close on: the finalizer may close from rows it read earlier.
THEOREM SucceededRunsAreTrue ==
    ASSUME MaxTerminations = 0 PROVE Spec => []SucceededRunIsTrue
<1> DEFINE TInv == \/ history.duplicated
                   \/ SuccessIsSucceeded(rec) /\ ClosingSeesFinal /\ SucceededRunIsTrue
<1>1. Init => TInv
  BY DEF Init, SuccessIsSucceeded, ClosingSeesFinal, SucceededRunIsTrue
<1>2. TypeOK /\ UnlessDoubled /\ TInv /\ [Next]_vars => TInv'
  <2>1. CASE history'.duplicated
    BY <2>1
  <2>2. CASE ~history'.duplicated
    BY <2>2, DoublingIsRemembered, SuccessIsSucceededKept, ClosingSeesFinalKept,
       SucceededRunIsTrueKept DEF UnlessDoubled
  <2> QED BY <2>1, <2>2
<1>3. TInv => SucceededRunIsTrue
  BY DEF SucceededRunIsTrue
<1> QED BY <1>3, <1>1, <1>2, TypeCorrect, SingleDeliveryHolds, PTL DEF Spec

-----------------------------------------------------------------------------
(* The refinement. *)

\* Without terminate requests no run is cancelled, and the row lock keeps a run
\* open while its finalizer closes it.
ClosingRunIsOpen ==
    /\ run.status # "cancelling"
    /\ finalizer.pc = "closing" =>
          finalizer.run.status # "cancelling" /\ run.status \notin RunTerminal \cup {"missing"}

LEMMA ClosingRunIsOpenKept ==
    ASSUME TypeOK, FinalizerNotYet, NoTermination, ClosingRunIsOpen, [Next]_vars
    PROVE  ClosingRunIsOpen'
<1>0. /\ run \in RunRow /\ finalizer \in Finalizer /\ rec \in [Records -> Row]
      /\ finalizer.rows \in [Records -> Row] /\ finalizer.run \in RunRow
  BY DEF TypeOK, Finalizer
<1>1. \A t \in Terminators : ~TerminateCommit(t)
  BY DEF NoTermination, TerminateCommit
<1> USE DEF ClosingRunIsOpen
<1>2. CASE run' = run
  <2>1. CASE FinalizerPoll
    <3>1. \/ finalizer'.pc # "closing"
          \/ finalizer'.run = run /\ run.status \notin RunTerminal \cup {"missing"}
      BY <2>1, <1>0 DEF FinalizerPoll, AlreadyFinished, Finalizer
    <3> QED BY <3>1, <1>2
  <2>2. CASE FinalizerClose \/ FinalizerFails \/ FinalizerCrash
    BY <2>2, <1>2 DEF FinalizerClose, FinalizerFails, FinalizerCrash, Dismissed
  <2>3. CASE DispatchFinalizer \/ DispatchAmbiguous
    BY <2>3, <1>2, <1>0 DEF DispatchFinalizer, DispatchAmbiguous, Finalizer
  <2> QED BY <1>2, <2>1, <2>2, <2>3, FinalizerMoves
<1>3. CASE DispatchCommit \/ CeleryDisabled
  <2>1. finalizer.pc = "none" /\ finalizer' = finalizer
    BY <1>3 DEF DispatchCommit, CeleryDisabled, FinalizerNotYet
  <2>2. run'.status # "cancelling"
    BY <1>3, <1>0 DEF DispatchCommit, CeleryDisabled, SetRunStatus, FinishEnqueueFailed, RunRow
  <2> QED BY <2>1, <2>2
<1>4. CASE (DispatchDone \/ DispatchError) /\ run' # run
  <2>1. finalizer.pc # "closing" /\ finalizer' = finalizer
    BY <1>4 DEF DispatchDone, DispatchError, RunLocked
  <2>2. run'.status # "cancelling"
    BY <1>4, <1>0 DEF DispatchDone, DispatchError, SetRunStatus, FinishEnqueueFailed, RunRow
  <2> QED BY <2>1, <2>2
<1>5. CASE FinalizerClose
  <2>1. finalizer'.pc = "done"
    BY <1>5 DEF FinalizerClose, Dismissed
  <2>2. CloseRun(finalizer.run, finalizer.rows) => run'.status \in RunTerminal
    BY <1>0, CloseRunClosesIt
  <2> QED BY <1>5, <2>1, <2>2 DEF FinalizerClose, RunTerminal
<1>6. ASSUME NEW r \in Records, DeleteRecord(r), run' # run PROVE ClosingRunIsOpen'
  BY <1>6 DEF DeleteRecord, RunClosed, NoRun
<1> QED BY <1>1, <1>2, <1>3, <1>4, <1>5, <1>6, RunMoves

LEMMA ClosingRunStaysOpen ==
    ASSUME MaxTerminations = 0 PROVE Spec => [](ClosingRunIsOpen /\ FinalizerNotYet)
<1>1. Init => ClosingRunIsOpen /\ FinalizerNotYet
  BY DEF Init, ClosingRunIsOpen, FinalizerNotYet
<1>2. TypeOK /\ UnlessDoubled /\ ClosingRunIsOpen /\ FinalizerNotYet /\ [Next]_vars
        => (ClosingRunIsOpen /\ FinalizerNotYet)'
  BY ClosingRunIsOpenKept, FinalizerNotYetKept DEF UnlessDoubled
<1> QED BY <1>1, <1>2, TypeCorrect, SingleDeliveryHolds, PTL DEF Spec

\* How the verdict of a run changes in a step.
LEMMA VerdictMoves ==
    ASSUME TypeOK, NoTermination, ClosingRunIsOpen, [Next]_vars, run'.status # run.status
    PROVE  \/ run'.status \notin RunTerminal \cup {"missing"} /\ run.status # "missing"
           \/ run'.status \in RunTerminal /\ run.status \notin RunTerminal \cup {"missing"}
           \/ /\ run'.status = "missing" /\ RunClosed
              /\ \A r \in Records : rec'[r].status = "absent"
<1>0. /\ run \in RunRow /\ rec \in [Records -> Row]
      /\ finalizer.rows \in [Records -> Row] /\ finalizer.run \in RunRow
  BY DEF TypeOK, Finalizer
<1>1. \A t \in Terminators : ~TerminateCommit(t)
  BY DEF NoTermination, TerminateCommit
<1>2. CASE DispatchCommit \/ CeleryDisabled \/ DispatchDone \/ DispatchError
  BY <1>2, <1>0 DEF DispatchCommit, CeleryDisabled, DispatchDone, DispatchError, SetRunStatus,
                    FinishEnqueueFailed, RunRow, RunTerminal
<1>3. CASE FinalizerClose
  <2>1. CloseRun(finalizer.run, finalizer.rows) => run'.status \in RunTerminal
    BY <1>0, CloseRunClosesIt
  <2> QED BY <1>3, <2>1 DEF FinalizerClose, ClosingRunIsOpen
<1>4. ASSUME NEW r \in Records, DeleteRecord(r)
      PROVE  run'.status = "missing" /\ RunClosed /\ \A q \in Records : rec'[q].status = "absent"
  BY <1>4, <1>0 DEF DeleteRecord, NoRun, Present
<1> QED BY <1>1, <1>2, <1>3, <1>4, RunMoves

\* Without terminate requests the rows of a run, as a reader sees them, behave
\* like a ledger: every outcome is written once, every verdict is given on an
\* open run and is true, and it disappears with the last record only.
THEOREM RunImplementsLedger == ASSUME MaxTerminations = 0 PROVE Spec => IsLedger
<1> USE DEF Ledger!ledger
<1>1. Init => Ledger!Init
  BY DEF Init, Ledger!Init, RecordTerminal, RunTerminal, RunClosed, Exists
<1>2. TypeOK /\ UnlessDoubled /\ ClosingRunIsOpen /\ SucceededRunIsTrue /\ SucceededRunIsTrue'
        /\ [Next]_vars => [Ledger!Next]_(Ledger!ledger)
  <2> SUFFICES ASSUME TypeOK, UnlessDoubled, ClosingRunIsOpen, SucceededRunIsTrue',
                      [Next]_vars, ~history'.duplicated
               PROVE  Ledger!Next
    BY DEF Ledger!Next
  <2>1. ~history.duplicated /\ SingleDelivery /\ NoTermination
    BY DoublingIsRemembered DEF UnlessDoubled
  <2>2. Ledger!RecordsSettle
    <3> SUFFICES ASSUME NEW r \in Records
                 PROVE  \/ rec'[r].status \in RecordTerminal /\ rec[r].status # "absent"
                        \/ rec'[r].status = "absent"
                        \/ rec'[r].status \notin RecordTerminal \cup {"absent"}
                           /\ rec[r].status \notin RecordTerminal \cup {"absent"}
      BY <2>1, FinalRows DEF Ledger!RecordsSettle, Exists, RecordTerminal
    <3>1. rec[r].status \in RecordTerminal => rec'[r] = rec[r] \/ rec'[r].status = "absent"
      BY <2>1, FinalRows
    <3>2. rec[r].status = "absent" => rec'[r] = rec[r]
      BY <2>1, FinalRows
    <3> QED BY <3>1, <3>2, <2>1, RowMoves DEF RecordTerminal, RecordActive, RecordPending, Exists
  <2>3. CASE run'.status = run.status
    BY <2>1, <2>2, <2>3 DEF Ledger!Next, RunClosed
  <2>4. CASE run'.status # run.status
    <3>1. \/ run'.status \notin RunTerminal \cup {"missing"} /\ run.status # "missing"
          \/ run'.status \in RunTerminal /\ run.status \notin RunTerminal \cup {"missing"}
          \/ /\ run'.status = "missing" /\ RunClosed
             /\ \A r \in Records : rec'[r].status = "absent"
      BY <2>1, <2>4, VerdictMoves
    <3>2. run'.status = "succeeded" => \A r \in Records : rec'[r].status \in {"succeeded", "absent"}
      BY DEF SucceededRunIsTrue
    <3> QED BY <2>1, <2>2, <3>1, <3>2
            DEF Ledger!Next, Ledger!Judge, Ledger!Reopen, Ledger!Disappear, RunClosed, RunTerminal,
                RecordTerminal, Exists
  <2> QED BY <2>3, <2>4
<1> QED BY <1>1, <1>2, TypeCorrect, SingleDeliveryHolds, ClosingRunStaysOpen, SucceededRunsAreTrue,
           PTL DEF Spec, IsLedger, Ledger!Spec

-----------------------------------------------------------------------------
(* The counts of a closed run. *)

\* A record whose task was not dispatched is as the first commit left it, or deleted.
NotSentIsQueued ==
    dispatcher.pc \in {"finalizer", "records", "error"} =>
        \A r \in Records : r \in dispatcher.sent \/ rec[r].status \in {"queued", "absent"}

\* A finalizer that closes before its polls ran out read finished rows, and the
\* counts it loaded are still those of the run.
ClosingCounts ==
    finalizer.pc = "closing" =>
        /\ run.success = finalizer.run.success /\ run.fail = finalizer.run.fail
        /\ finalizer.polls < MaxPolls =>
               \A r \in Records : finalizer.rows[r].status \in RecordTerminal

\* Nothing is left to happen to the records of a run closed before its polls ran out.
ClosedIsOver ==
    RunClosed /\ finalizer.polls < MaxPolls =>
        \A r \in Records : rec[r].status \in RecordTerminal \cup {"absent"}

CountsInv == NotSentIsQueued /\ ClosingCounts /\ ClosedIsOver /\ ClosedCountsMatch

LEMMA NotSentIsQueuedKept ==
    ASSUME ~history'.duplicated, TypeOK, SingleDelivery, NotSentIsQueued, [Next]_vars
    PROVE  NotSentIsQueued'
<1>0. dispatcher \in Dispatcher /\ rec \in [Records -> Row]
  BY DEF TypeOK
<1> SUFFICES ASSUME dispatcher'.pc \in {"finalizer", "records", "error"},
                    NEW r \in Records, r \notin dispatcher'.sent
             PROVE  rec'[r].status \in {"queued", "absent"}
  BY DEF NotSentIsQueued
<1>1. CASE DispatchCommit
  BY <1>0, <1>1 DEF DispatchCommit, SetStatus, Exists, SingleDelivery, ExecutedIsActive, Row
<1>2. CASE dispatcher' = dispatcher
  <2>1. rec[r].status \in {"queued", "absent"} /\ \A w \in Workers : job[w].rec # r
    BY <1>2 DEF NotSentIsQueued, SingleDelivery, OneCopy
  <2>2. ~DispatchCommit /\ ~CeleryDisabled /\ ~DispatchError
    BY <1>0, <1>2 DEF DispatchCommit, CeleryDisabled, DispatchError, Dispatcher
  <2>3. /\ \A t \in Terminators : ~TerminateCommit(t)
        /\ \A w \in Workers : ~DiscardRevoked(w, r) /\ ~Executes(w, r) /\ ~SoftLimitWritten(w)
    BY <2>1, DoublingIsRemembered
       DEF SingleDelivery, NoTermination, TerminateCommit, DiscardRevoked, Executes
  <2> QED
    BY <2>1, <2>2, <2>3, RowMoves
<1>3. CASE DispatchFinalizer \/ DispatchRaises \/ DispatchAmbiguous \/ \E q \in Records : DispatchRecord(q)
  <2>1. rec' = rec /\ dispatcher.pc \in {"finalizer", "records"} /\ dispatcher.sent \subseteq dispatcher'.sent
    BY <1>0, <1>3 DEF DispatchFinalizer, DispatchRaises, DispatchAmbiguous, DispatchRecord, Dispatcher
  <2> QED
    BY <2>1 DEF NotSentIsQueued
<1>4. ~CeleryDisabled /\ ~DispatchDone /\ ~DispatchError /\ ~DispatcherCrash
  BY <1>0 DEF CeleryDisabled, DispatchDone, DispatchError, DispatcherCrash, Dispatcher
<1> QED
  BY <1>1, <1>2, <1>3, <1>4, DispatcherMoves

LEMMA PollsGrow ==
    ASSUME TypeOK, [Next]_vars
    PROVE  /\ finalizer.polls \in Nat /\ finalizer'.polls \in Nat /\ finalizer.polls <= finalizer'.polls
           /\ finalizer'.polls < MaxPolls => finalizer.polls < MaxPolls
<1>1. finalizer \in Finalizer /\ finalizer.polls \in Nat /\ MaxPolls \in Nat
  BY RunAssumption DEF TypeOK, Finalizer, RunAssumption
<1>2. finalizer'.polls \in {finalizer.polls, finalizer.polls + 1}
  <2>1. CASE DispatchFinalizer \/ DispatchAmbiguous
    BY <1>1, <2>1 DEF DispatchFinalizer, DispatchAmbiguous, Finalizer
  <2>2. CASE FinalizerPoll
    BY <1>1, <2>2 DEF FinalizerPoll, Finalizer
  <2>3. CASE FinalizerClose \/ FinalizerFails \/ FinalizerCrash
    BY <1>1, <2>3 DEF FinalizerClose, FinalizerFails, FinalizerCrash, Dismissed
  <2>4. CASE finalizer' = finalizer
    BY <2>4
  <2> QED
    BY <2>1, <2>2, <2>3, <2>4, FinalizerMoves
<1> QED
  BY <1>1, <1>2

LEMMA ClosingCountsKept ==
    ASSUME TypeOK, NoTermination, FinalizerNotYet, ClosingRunIsOpen, ClosingCounts, [Next]_vars
    PROVE  ClosingCounts'
<1> SUFFICES ASSUME finalizer'.pc = "closing" PROVE ClosingCounts'
  BY DEF ClosingCounts
<1>0. finalizer \in Finalizer
  BY DEF TypeOK
<1>1. CASE finalizer' = finalizer
  <2>1. ~DispatchCommit /\ ~CeleryDisabled
    BY <1>1 DEF DispatchCommit, CeleryDisabled, FinalizerNotYet
  <2>2. DispatchDone \/ DispatchError => run' = run
    BY <1>1 DEF DispatchDone, DispatchError, RunLocked, ClosingRunIsOpen
  <2>3. ~FinalizerClose /\ \A t \in Terminators : ~TerminateCommit(t)
    BY <1>1 DEF FinalizerClose, Dismissed, NoTermination, TerminateCommit
  <2>4. \A r \in Records : DeleteRecord(r) => run' = run
    BY <1>1 DEF DeleteRecord, RunClosed, ClosingRunIsOpen
  <2>5. run' = run
    BY <2>1, <2>2, <2>3, <2>4, RunMoves
  <2> QED
    BY <1>1, <2>5 DEF ClosingCounts
<1>2. CASE FinalizerPoll
  <2>1. finalizer'.rows = rec /\ finalizer'.run = run /\ run' = run /\ finalizer'.polls = finalizer.polls
        /\ ~PollAgain(rec, finalizer.polls)
    BY <1>2, <1>0 DEF FinalizerPoll, Finalizer
  <2>2. finalizer.polls < MaxPolls => \A r \in Records : rec[r].status \in RecordTerminal
    BY <2>1 DEF PollAgain, Finished
  <2> QED
    BY <2>1, <2>2 DEF ClosingCounts
<1>3. ~DispatchFinalizer /\ ~FinalizerClose /\ ~FinalizerFails /\ ~FinalizerCrash
  BY <1>0 DEF DispatchFinalizer, FinalizerClose, FinalizerFails, FinalizerCrash, Dismissed, Finalizer
<1>4. DispatchAmbiguous => finalizer' = finalizer
  BY <1>0 DEF DispatchAmbiguous, Finalizer
<1> QED
  BY <1>1, <1>2, <1>3, <1>4, FinalizerMoves

\* How a run is closed: nothing was enqueued, and its records fail with it, or the
\* finalizer closes it.
LEMMA ClosedBy ==
    ASSUME TypeOK, SingleDelivery, NotSentIsQueued, [Next]_vars, ~RunClosed, RunClosed'
    PROVE  \/ /\ run'.success = 0 /\ run'.fail = Cardinality(Records)
              /\ \A r \in Records : rec'[r] = Failed \/ rec'[r].status = "absent"
           \/ FinalizerClose
<1>0. run \in RunRow /\ rec \in [Records -> Row] /\ dispatcher \in Dispatcher
  BY DEF TypeOK
<1>1. ASSUME FailIfUnfinished(Records),
             \A r \in Records : rec[r].status \in RecordPending \cup {"absent"}
      PROVE  \A r \in Records : rec'[r] = Failed \/ rec'[r].status = "absent"
  BY <1>1, <1>0 DEF FailIfUnfinished, SetRow, IfUnfinished, RecordActive, RecordPending, Row
<1>2. FinishEnqueueFailed => run'.success = 0 /\ run'.fail = Cardinality(Records)
  BY DEF FinishEnqueueFailed, RunClosed, RunTerminal
<1>3. CASE CeleryDisabled
  BY <1>1, <1>2, <1>3 DEF CeleryDisabled, SingleDelivery, ExecutedIsActive, RecordPending
<1>4. CASE DispatchError
  <2>1. dispatcher.sent = {}
    BY <1>0, <1>4 DEF DispatchError, SetRunStatus, RunClosed, RunRow, RunTerminal
  <2>2. \A r \in Records : rec[r].status \in {"queued", "absent"}
    BY <1>4, <2>1 DEF DispatchError, NotSentIsQueued
  <2>3. FailIfUnfinished(Records) /\ FinishEnqueueFailed
    <3>1. Records \ dispatcher.sent = Records
      BY <2>1
    <3> QED
      BY <1>4, <2>1, <3>1 DEF DispatchError
  <2> QED
    BY <1>1, <1>2, <2>2, <2>3 DEF RecordPending
<1>5. ~DispatchCommit /\ ~DispatchDone
  BY <1>0 DEF DispatchCommit, DispatchDone, SetRunStatus, RunClosed, RunRow, RunTerminal
<1>6. (\A t \in Terminators : ~TerminateCommit(t)) /\ \A r \in Records : ~DeleteRecord(r)
  BY DEF SingleDelivery, NoTermination, TerminateCommit, DeleteRecord, RunClosed, NoRun, RunTerminal
<1> QED
  BY <1>3, <1>4, <1>5, <1>6, RunMoves DEF RunClosed

LEMMA ClosedIsOverKept ==
    ASSUME ~history'.duplicated, TypeOK, SingleDelivery, ClosingSeesFinal, NotSentIsQueued,
           ClosingCounts, ClosedIsOver, [Next]_vars
    PROVE  ClosedIsOver'
<1> SUFFICES ASSUME RunClosed', finalizer.polls < MaxPolls, NEW r \in Records
             PROVE  rec'[r].status \in RecordTerminal \cup {"absent"}
  BY PollsGrow DEF ClosedIsOver
<1>1. CASE RunClosed
  BY <1>1, FinalRows DEF ClosedIsOver
<1>2. CASE ~RunClosed
  <2>1. rec'[r] = Failed \/ rec'[r].status = "absent" \/ FinalizerClose
    BY <1>2, ClosedBy
  <2>2. CASE FinalizerClose
    BY <2>2 DEF FinalizerClose, ClosingCounts, ClosingSeesFinal
  <2> QED
    BY <2>1, <2>2 DEF Failed, RecordTerminal
<1> QED
  BY <1>1, <1>2

LEMMA ClosedCountsKept ==
    ASSUME TypeOK, TypeOK', SingleDelivery, ClosingRunIsOpen, ClosingSeesFinal, NotSentIsQueued,
           ClosingCounts, ClosedIsOver, ClosedCountsMatch, ~history.duplicated, ~history'.duplicated,
           [Next]_vars
    PROVE  ClosedCountsMatch'
<1>1. /\ Present(rec)' = Present(rec') /\ Successes(rec)' = Successes(rec') /\ Failures(rec)' = Failures(rec')
  BY DEF Present, Successes, Failures, Counted, Cancelled, Unfinished
<1> SUFFICES ASSUME RunClosed', finalizer.polls < MaxPolls, Present(rec') = Records
             PROVE  run'.success = Cardinality(Successes(rec')) /\ run'.fail = Cardinality(Failures(rec'))
  BY <1>1, PollsGrow DEF ClosedCountsMatch
<1>2. /\ rec \in [Records -> Row] /\ rec' \in [Records -> Row] /\ run \in RunRow
      /\ finalizer.rows \in [Records -> Row]
  BY DEF TypeOK, Finalizer
<1>3. \A r \in Records : rec'[r].status # "absent" /\ rec[r].status # "absent"
  <2>1. \A r \in Records : rec'[r].status # "absent"
    BY DEF Present
  <2> QED
    BY <2>1, FinalRows
<1>4. CASE RunClosed
  <2>1. \A r \in Records : rec'[r] = rec[r]
    BY <1>3, <1>4, FinalRows DEF ClosedIsOver
  <2>2. rec' = rec
    BY <1>2, <2>1
  <2>3. run' = run
    <3>1. ~DispatchCommit /\ ~DispatchDone
      BY <1>2 DEF DispatchCommit, DispatchDone, SetRunStatus, RunClosed, RunRow, RunTerminal
    <3>2. CeleryDisabled \/ DispatchError => run' = run
      BY <1>2, <1>4 DEF CeleryDisabled, DispatchError, FinishEnqueueFailed, SetRunStatus, RunClosed, RunRow,
                        RunTerminal
    <3>3. ~FinalizerClose
      BY <1>4 DEF FinalizerClose, ClosingRunIsOpen, RunClosed
    <3>4. (\A t \in Terminators : ~TerminateCommit(t)) /\ \A r \in Records : ~DeleteRecord(r)
      BY <1>2, <1>3, <2>2 DEF SingleDelivery, NoTermination, TerminateCommit, DeleteRecord
    <3> QED
      BY <3>1, <3>2, <3>3, <3>4, RunMoves
  <2>4. Present(rec) = Records
    BY <2>2
  <2> QED
    BY <1>4, <2>2, <2>3, <2>4 DEF ClosedCountsMatch
<1>5. CASE /\ run'.success = 0 /\ run'.fail = Cardinality(Records)
           /\ \A r \in Records : rec'[r] = Failed
  <2>1. Successes(rec') = {} /\ Failures(rec') = Records
    BY <1>2, <1>5 DEF Successes, Failures, Counted, Present, Cancelled, Unfinished, Failed, RecordActive,
                      RecordPending
  <2> QED
    BY <1>5, <2>1, FS_EmptySet
<1>6. CASE ~RunClosed /\ FinalizerClose
  <2>1. finalizer.pc = "closing" /\ rec' = rec /\ CloseRun(finalizer.run, finalizer.rows)
    BY <1>6 DEF FinalizerClose, RunClosed, ClosingRunIsOpen
  <2>2. rec = finalizer.rows
    <3>1. \A r \in Records : rec[r] = finalizer.rows[r]
      BY <1>3, <2>1 DEF ClosingCounts, ClosingSeesFinal
    <3> QED
      BY <1>2, <3>1
  <2>3. run.success = finalizer.run.success /\ run.fail = finalizer.run.fail
    BY <2>1 DEF ClosingCounts
  <2> QED
    BY <2>1, <2>2, <2>3 DEF CloseRun, Flush
<1>7. \A r \in Records : rec'[r] = Failed \/ rec'[r].status = "absent" => rec'[r] = Failed
  BY <1>3
<1> QED
  BY <1>4, <1>5, <1>6, <1>7, ClosedBy DEF RunClosed

\* A run that was closed before its polls ran out carries the counts of its records
\* as they are, not as some reader saw them: whatever crashes, is lost or fails to be
\* enqueued, and however late the finalizer commits (finalize_schedule_run_task,
\* enqueue_schedule_run, finish_schedule_run).
THEOREM CountsAreTrue ==
    ASSUME MaxTerminations = 0 PROVE Spec => []ClosedCountsMatch
<1> DEFINE CInv == history.duplicated \/ (SuccessIsSucceeded(rec) /\ ClosingSeesFinal /\ CountsInv)
<1>1. Init => CInv
  BY DEF Init, SuccessIsSucceeded, ClosingSeesFinal, CountsInv, NotSentIsQueued, ClosingCounts,
         ClosedIsOver, ClosedCountsMatch, RunClosed, RunTerminal
<1>2. TypeOK /\ TypeOK' /\ UnlessDoubled /\ ClosingRunIsOpen /\ FinalizerNotYet /\ CInv /\ [Next]_vars
        => CInv'
  <2>1. CASE history'.duplicated
    BY <2>1
  <2>2. CASE ~history'.duplicated
    BY <2>2, DoublingIsRemembered, SuccessIsSucceededKept, ClosingSeesFinalKept, NotSentIsQueuedKept,
       ClosingCountsKept, ClosedIsOverKept, ClosedCountsKept DEF UnlessDoubled, CountsInv
  <2> QED
    BY <2>1, <2>2
<1>3. CInv => ClosedCountsMatch
  BY DEF ClosedCountsMatch, CountsInv
<1> QED
  BY <1>1, <1>2, <1>3, TypeCorrect, SingleDeliveryHolds, ClosingRunStaysOpen, PTL DEF Spec
=============================================================================

# EasyNetBak in TLA+

EasyNetBak backs up the configuration of network devices: a web application
(FastAPI) and its scheduler plan backups, Celery workers run them, a database
(SQLAlchemy, PostgreSQL) keeps the records, Redis is broker, semaphore and event
bus. This directory specifies the parts in which several processes, requests or
peers change what others rely on, checks them with TLC on small instances, and
proves some of their properties with TLAPS for every value of the constants.

## Inventory

Paths are below `src/app/`. "Hard" is what is difficult to test.

| Component | State | Operations | Hard | Correct when | Module |
|---|---|---|---|---|---|
| Run lifecycle: `services/task_orchestration_service.py`, `task_execution_service.py`, `task_state_service.py`, `celery_tasks.py` | rows of `backup_records` and `schedule_runs`, Celery messages, revoked ids | plan, enqueue, start, retry, finish, poll, close, terminate, delete, signal handlers | four kinds of process write the same rows in separate transactions; redelivery, worker loss, time limits, lost messages, a request dying half way | each record gets an outcome once, an open run has someone who closes it, a closed run tells the truth | `TaskState`, `BackupRun`, `BackupLedger` |
| Backup semaphore: `celery_tasks.py` | a Redis set and its time to live | acquire, refuse, release, expire | killed holders, lost replies, duplicates sharing a member | bounded concurrency, no slot lost for ever | `BackupSemaphore` |
| Task event log: `services/task_observability_service.py` | a buffer per process, `task_events` | buffer, flush, put back, persist | overflow, failed batches, loss at exit, order | an event is lost only where the code gives it up | `TaskEventLog` |
| Event bus: `services/task_event_bus_service.py` | Redis pub/sub | publish, pump | fire and forget, resubscription | what is announced is stored, once | `TaskEventLog`, `EventStore` |
| Realtime hub: `services/task_realtime_service.py`, `static/js/core/nb-common.js` | connections, scopes, cached snapshots, watchers, what a page shows | subscribe, load, refresh, broadcast, forward, detach | snapshots loaded outside the lock, cursors over ids that commit out of order | a page ends up with the last state | `RealtimeHub` |
| Notifications: `services/notification_routing_service.py`, `alert_service.py` | events, deliveries, retries | report, route, send, retry | messages sent inside transactions, retries before the commit | each policy is served once | `Notifications` |
| Groups, devices, credentials: `crud.py`, `services/resource_service.py`, `device_service.py` | rows, materialised paths | create, move, update, import, delete | handlers check by reading; concurrent requests | what rows say of each other is true | `GroupTree`, `Inventory` |
| Schedules and scheduler: `scheduler.py`, `services/schedule_service.py` | schedules, the job table in memory | save, toggle, delete, reload, plan | a reload is three steps, two may interleave | jobs are the enabled schedules | `Inventory` |
| Single backups, retries, retention, deletion | records and runs | plan, retry, clean up, delete | the age decides, not the status | the last good backup stays | `Inventory` |
| Users and roles: `crud.py` | rows, a role cache in a module variable | save, rename, delete, list | the cache is filled before the commit | users have roles, the cache tells the table | `Identity` |
| Notification settings: `notification_routing_service.py` | channels, templates, policies | save, delete, route | lists of ids without a constraint | policies name channels that exist | `RoutingSettings` |
| Lists, counts, trees, charts: `crud.py`, `services/device_service.py`, `schedule_service.py`, `backup_service.py`, `pagination_service.py` | none | page, count, filter by access, preview | the same thing computed in several places | the places agree | `Listings` |
| Device dialogue: `services/netmiko_client.py`, the page of a record | what was printed, sent, read | connect, send, read, page, cut | nothing marks the end of a reply | a success holds the whole reply; a session ends | `DeviceSession` |
| Request handlers: `routers/`, `services/`, `db.py` | the session of a request, audit rows | seventy handlers that change something | the commit follows the answer; several commits, wakes and hints in one handler; repeated requests | answers, audit log and those told are right | `Handlers`, `ServiceScripts`, `WebRequests` |
| Web shell: `routers/web/devices.py` | a socket, a connection, tasks, a telnet login | accept, connect, relay, log in, close | either side may go at any await | the session ends, the password is typed once | `WebShell` |
| Storage upload, reachability checks, i18n, pages, migrations | files, sockets, catalogues | I/O | live I/O | not specified here, see the end | |

How they interact. A request (or the scheduler's job) commits a run and its
records, publishes the finalizer's message and one message per record, and writes
the run once more. A worker takes a record's message, checks the record, acquires
a slot, marks the record running, talks to the device, and writes the outcome;
the finalizer polls the records, closes the run and reports it. A terminate
request reads the rows, broadcasts revokes and cancels what had not started.
Every step logs an event, which reaches the table through a buffer and the pages
through the bus and the hub; the hub loads snapshots of the rows. Reports go
through the policies to channels and are sent again by Celery tasks. The web
process changes groups, devices, schedules, roles and settings meanwhile.

## Plan

The order followed the weight of the parts: run lifecycle and semaphore first,
because all else reports on them; then what reports (log, hub, notifications);
then what the web process changes (administration); then the dialogues. Done:

1. `TaskState`, `BackupRun`, its proofs; `BackupSemaphore`, its proofs.
2. `BackupLedger`, the abstract run, and the proof that `BackupRun` implements
   it; `EventStore`, the abstract log, the proof that `TaskEventLog` implements
   it, and `RealtimeHub` built on it.
3. `Notifications`; `Administration` from `GroupTree`, `Inventory`, `Listings`,
   `Identity`, `RoutingSettings`; `Dialogues` from `DeviceSession`,
   `WebRequests`, `WebShell`.

4. Theorems about the counts of a run, the event log's events, the hub's pages,
   `Notifications`, `Administration`, the three dialogues.

Every safety property of the runs is now proved for all values of the constants.
Open: liveness with two terminate requests; reachability checks; the contents of
permissions.

## Modules

| Module | Contents |
|---|---|
| `TaskState` | status sets, classification of a run's records, `DeriveRunTerminal` |
| `BackupRun` | one run, its records, dispatcher, workers, finalizer, terminate requests, deletion, faults |
| `BackupLedger` | what a run promises its readers; `BackupRun!IsLedger` is the refinement |
| `BackupSemaphore` | the Redis semaphore around the execution of a task |
| `EventStore` | what the log promises the readers of the table and of the bus |
| `TaskEventLog` | buffer, threads, transactions, publication; `IsEventStore` is the refinement |
| `RealtimeHub` | extends `EventStore` with the hub and the pages connected to it |
| `Notifications` | one report through policies, deliveries and retries |
| `Requests` | sessions of the web process: read and check, flush, commit; the pairs that race |
| `GroupTree` | operators on the tree of groups |
| `Inventory` | groups, devices, credentials, schedules, jobs, runs, records, retention |
| `Listings` | views of `Inventory`: pages, counts, access, trees, panels, charts |
| `Identity`, `RoutingSettings` | users, roles and their cache; channels, templates, policies |
| `Administration` | composes the six above, and restarts the process |
| `DeviceSession` | a backup's dialogue with its device, and the page that cuts the text |
| `Handlers` | a request, its repetitions, its client, those it tells; one action per kind of step |
| `ServiceScripts`, `WebRequests` | the scripts of the services and of the handlers; what may be relied on |
| `WebShell` | the handler between a browser and a device |
| `Dialogues` | composes the three dialogues; a behaviour is one of them |
| `MC...` | instances for TLC |
| `BackupRunProofs` | theorems on runs: ownership and collection; final outcomes, the counts of a closed run, the refinement of `BackupLedger` |
| `BackupSemaphoreProofs` | theorems on the semaphore |
| `TaskEventLogProofs` | theorems on the log: the refinement of `EventStore`; where events are, and their order |
| `RealtimeHubProofs` | theorems on the hub's watchers, its scopes' pages and its logs' pages |
| `NotificationsProofs` | theorems on routes, retries and attempts |
| `AdministrationProofs` | theorems on references, caches, the tree of groups, deletions and what the pages show |
| `DialoguesProofs` | theorems on the handlers and on the telnet login of the web shell |
| `DeviceSessionProofs` | the theorem on what a backup keeps of the device's replies |

Mutants, definitions commented as such, are wrong variants of the definition
below them: each property of a run is violated when its mutant is put in place.

### BackupRun, BackupLedger

`rec` and `run` are the committed rows; `broker` counts the deliverable messages
of each record's task; `job` is what each worker process is doing; `dispatcher`,
`finalizer` and `terminator[t]`, one for each terminate request, are the processes
with a program counter and, where they keep rows in memory across a call out, what
they read (`finalizer.rows`, `finalizer.run`, `terminator[t].rows`,
`terminator[t].run`). `revoked` is the set of
task ids broadcast as revoked. `budget` bounds faults and terminate requests.
`history` remembers which records and finalizers the environment took away; it
is only read by properties, and is what makes their exceptions precise.

Correspondence: `DispatchCommit`, `DispatchFinalizer`, `DispatchRecord`,
`DispatchDone`, `DispatchRaises` and `DispatchError` are `enqueue_schedule_run`
cut at its commits and `apply_async` calls, `CeleryDisabled` its early return;
`StartTask`, `WaitForSlot`, `GiveUpSlot`, `Execute`, `AbortTask`,
`BackupSucceeds`, `BackupFails`, `RetryBackup`, `Resume`, `SoftLimit` are
`backup_record_task` with what it calls; `DiscardRevoked`, `GiveUpSlot`,
`SoftLimitEscapes` and `HardLimit` include the `task_revoked` and `task_failure`
handlers; `FinalizerPoll` and `FinalizerClose` are `finalize_schedule_run_task`;
`TerminateRead` and `TerminateCommit` are both kinds of terminate request;
`DeleteRecord` is the deletion of a finished record by a request, and (fault
"cleanup") of any by age or with its device.

What a time limit does depends on where it strikes. A soft limit in the device
session becomes a `NetmikoClientError` UNKNOWN, which is not retried, so the record
is FAILED; elsewhere in the attempt it is retryable itself (`SoftLimit` allows
both); in the sleep before a retry it escapes the task (`SoftLimitEscapes`); and
after the commit of a success it is still inside the `try`, so that the device is
backed up again or FAILED replaces SUCCEEDED (`SoftLimitWritten`, fault
"latelimit"). It strikes once. At the hard limit the process is killed, and the
parent process acknowledges the message and sends `task_failure`, whose handler
fails the record unless it is finished; kill and handler are one step (`HardLimit`).

Three details decide several properties and are easy to get wrong:

- SQLAlchemy writes only columns whose new value differs from the loaded one
  (`Flush`). A cancellation over a stale copy therefore leaves the `success`
  column another transaction wrote.
- A poll that asks to be retried raises inside its session, so the FINALIZING
  status it set is rolled back.
- The finalizer's uncommitted update holds the run's row lock while it sends
  alerts (`RunLocked`): writes of that row by others wait. A run it read as
  CANCELLING it did not update, and does not lock.

Short sessions (one SELECT, one UPDATE, no call in between) are one step.
`FinishEnqueueFailed` behind the finalizer's lock is simplified: the request's
transaction waits as a whole. The in-memory copies the retry path of
`finalize_backup_execution` keeps between attempts are not modelled.

`BackupLedger` says what remains when all this is hidden: an outcome is written
once, a verdict is given on an open run and, when it is "succeeded", is true; rows
may be deleted at any time. Reopening a closed run (the dispatcher's late write) is
part of it. The promise is void once a task was doubled (`history.duplicated`): its
message was delivered twice, it was accepted although `apply_async` raised, or it
went on after its own committed success (`SoftLimitWritten`).

### BackupSemaphore

`slots` is the Redis set, `age` the ticks since its last EXPIRE (one for the
whole set), `task` the deliveries of each record's task: the first and one
duplicate. A tick is the five seconds of a retry's countdown. The outcome of the
backup is committed (`Finish`) before the slot is released (`Release`), so a
crash in between leaves the member behind: the redelivered task finds the record
finished and never releases. `config` is chosen at the start: number of slots
(0: no bound) and fail-open. `HoldLimit <= TTL` holds for every time limit the
settings page admits; a larger one set by the environment variable alone is outside
the assumption. Changing the number at run time is not modelled;
the acquire script would only admit nobody until enough holders are gone.

### TaskEventLog, EventStore, RealtimeHub

Events are numbers in the order they are logged. `LogEvent` is `log_task_event`
with the lock section of `_buffer_task_event`; whether the flush interval has
elapsed is a choice. `thread` is what a thread has in hand inside
`_persist_task_events`: `Insert` gives ids, `Commit` or `StoreFails` or
`CommitAmbiguous` ends the transaction, `Publish` sends one message. A batch that
could not be stored goes back in front of the buffer (`PutBack`), except an
immediate event and the batch of the exit handler. `dropped`, `doubled` and
`raced` are history.

`EventStore` keeps what the readers see: row states, the rows about to be
announced, the bus, who listens. Ids are given before rows are visible, and
become visible in any order: that is where a cursor can skip a row.

`RealtimeHub` extends it. The hub is one asyncio loop, so what lies between two
awaits that yield is one action; a load runs in a thread pool, and its result is
used later (`LoadSnapshot`, then `CacheSnapshot`, then `SendSnapshot`). `teller`
is the pump's refresh, or, without the bus, `_watch_scope`. A snapshot is the
number of stored events, since the rows it shows are changed before the event
that reports it. `page` is what `nb-common.js` shows: `applyTaskLogs` with its
cursor and its set of known ids.

### Notifications

One report, of a run or of a record. A sender is a transaction that reports:
`Begin` and `Waited` are the look-up and the insert of the source key,
`RoutePolicy` one turn of `dispatch_event`'s loop with its sending inside the
transaction, `Commit` or `Rollback` its end. A task is `deliver_notification_task`
cut at what others can see: `Read`, `Send` (which locks the row and queues the
retry before the commit), `Write`. `config` is chosen once: outcomes and policies
with their events, conditions and `stop_processing`.

`retry_delivery` looks at the status before `deliver_notification` locks the row
by writing it, and nothing reads it again: two tasks that have one delivery both
send, and the second writes over what the first committed. The history says when
that may be: `shared` counts the tasks that took a delivery another one had,
`stale` has the deliveries a task went on with from a copy that was no longer
what is committed. With three tasks a stale task can leave a delivery that waits
for a retry nobody queued, and a sent one can be failed again, which is why
`RetryIsQueued` and `SentStaysSent` except the stale ones.

### Administration

A request is two or three steps: it reads and checks, some flush and read again,
and it commits (`Requests`). Writes are kept as the columns that differ from what
was read. PostgreSQL is READ COMMITTED with row locks for updated rows. What a
handler decided from may be gone at its commit, and `Races` names the pairs of
handlers that do not protect each other; `overlap` (history) records which of
them were open together, so that each property says exactly which race breaks it
and holds in all others. `Restart` is a crash of the web process; it empties the
sessions and reloads what is kept in memory.

`GroupTree` has the tree and its materialised paths as sequences. `Inventory`
includes the three steps of `sync_scheduler_from_db`, planning of runs, retries
of selected records, the nightly clean-up and deletions. The workers' part is one
action, `EndRun`. `Listings` changes nothing: its operators are the queries and
the Python code that compute the same sets in different ways. `Identity` fills
`cache` where the code does, before the commit. `RoutingSettings` has the foreign
keys and the JSON list that has none.

Facts worth knowing: the loop that fills `group_paths` of the devices page would not end on a cycle,
which two concurrent moves can make (`tree`); the dashboard's summary counts an
active record as failed while its trend does not; `devicegroup.parent_id` has a
foreign key on new databases only, so `ForeignKey` is a constant (the run has it
TRUE; the properties were also checked with FALSE).

### Dialogues

`DeviceSession`: text is a sequence of tokens told apart by what the patterns of
`run_netmiko_commands` see in them (echo, text, prompt, pager, and output that
looks like one of these). The device may pause, print for ever or fall silent;
reads take what is there. netmiko's calls are modelled by what they do (marked
external). A command the device did not echo yet may be found in text that looks
like it, and a prompt in text that looks like one: then a reply is cut short and
its rest is read for a later command. `Misread` says when; it needs text like
the prompt in an earlier reply, and a line like the command in each between.
`Unmarked` takes out the pager's lines. `Sections` is `split_backup_command_output`, `LastAttempt` the choice
of the record's page among the events of several attempts.

`Handlers`, `ServiceScripts`, `WebRequests`: every handler that changes something
is a script of steps (check, find, insert, write, audit, commit, dispatch, wake,
hint, reload, answer), each with the way it refuses: an exception, which rolls
back, or an ordinary response, after which the session is committed. FastAPI
leaves `get_session` after the answer was sent, so the last commit follows the
answer. A request may be repeated when its client heard an error or nothing. The
named sets (`EarlyWakers`, `LoggedApart`, `Unguarded`, `LookFirst`, ...) are the
handlers known to be different; the properties say that no other is. Refused after
its commit (`RefusedLate`) is a start whose tasks could not be queued, and the switch
of a schedule that is gone when it is looked up again for the answer. Uncaught
`IntegrityError`s are refusals (the client sees 500). `update_group` keeps the
new name after a refused move; an imported device that is skipped still creates
its group; revoking a missing API key gets the usual answer.

`WebShell`: the handler, its output and input tasks, the telnet login, and two
audit entries. A set-up that fails after the connection was made, and a process
that cannot be killed because its channel is closed, leave the connection open:
`ShellEnds` has both as its exceptions.

## Runs

| Run | Question | Instance |
|---|---|---|
| `run_faults` | does every record keep an owner and every open run a collector; are outcomes written once and verdicts true (`IsLedger`)? | 2 records, 2 workers, any 2 of 8 kinds of fault, no terminate requests |
| `run_termination` | do runs close and queued records finish, with a terminate request and a crash or the deletion of an active record? | 2 records, 1 worker, fairness |
| `run_requests` | what do two overlapping terminate requests stop? | 2 records, 1 worker, 2 requests, a crash or a deletion |
| `run_cancel_race` | *violated*: a cancelled record is never run | no faults |
| `run_reopened` | *violated*: an open run keeps its finalizer | no faults |
| `semaphore` | bound, slots left behind, waiting | 2 records, 1 slot, 1 fault of five kinds, hard kills, fairness |
| `semaphore_retry` | *violated*: a Redis error is retried | 1 Redis error |
| `task_log` | is an event lost only where the code says so; is the log an `EventStore`? | 4 events, one immediate, 2 threads, buffer and batch 2, 1 fault |
| `live_view` | is what a page shows behind only in the known ways? | 2 pages, 2 connections, 3 rows, both modes and kinds |
| `notifications` | routes, attempts, retries, settling | every outcome and pair of policies for 2 records; faults with 2 senders, 2 tasks, 2 faults |
| `administration` | does what rows, memory and views say of each other hold? | 2 sessions, 3 requests, 3 groups, 2 devices, 2 starting databases |
| `dialogues` | device sessions, handlers, web shell | 3 commands of 3 replies; each handler with 1 repetition and 1 fault; 2 messages and 1 mishap in a shell |

The violated ones state what a comment of the code says; PROJECT.json quotes it.

**Bounds.** Two records are the least at which a run can be partly finished,
partly dispatched, and at which one record's task competes with another's. Two
workers let a duplicate run beside the original. Two faults cover a fault during
the recovery from another. Two terminate requests are the least that overlap; that they leave no
unfinished record without an owner and no open run without a collector is proved
for any number of them, and liveness is checked with one only, for time. `MaxPolls` of 1 or 2 lets the polls run out with
records unfinished and lets them not run out. One retry distinguishes the last
attempt from the others. In the semaphore one slot and two records make every
refusal and over-admission happen; time to live and hard limit are equal, which
is the boundary the settings page allows; 9 retries outlast every chain of a
holder, a hard kill and an expiry that one fault allows, as 1,000,000 retries of
5 s outlast them in the code.

In the log, four events overflow a buffer of two while a batch of two is out, and
two threads can hold batches at once. In the hub, three rows let ids commit out of
order around a cursor and overflow both limits of 1; two pages share a scope, and
may be the same browser connecting again. Three attempts are the code's own
`MAX_ATTEMPTS`; a task that finds no delivery tries once more here, where the code
allows a few.

`Loads` of `administration` is three requests of the inventory, one of it and two
of the backups, or three of one of the other parts: two that race and a third
before or after; parts share no rows, only sessions. A behaviour starts from one
of two databases (a subtree, or two groups and devices named one by one).
`MaxOld` of 1 lets the retention period pass once, `PageSizes` 1 and 2 divide the
counts and do not, `RecentTasks` of 1 cuts the panel, `AccessLists` hold a
subtree, and a group with the devices of none.

In `dialogues`, three commands are what a reply can spill into: with two, its
rest cannot pass the next command and be read for the one after. One reply is
whole, one holds text like the prompt and like the command, one has text like
the pager and no end; a `WireSize` of 2 splits and joins them;
the limits are in the order of the code's (`ReadTimeout` below
`AbsoluteTimeout`, `MaxOutput` above an honest reply). A request and one
repetition with one fault make a double insertion and a lost answer. `Kept` of 3
tokens cuts a question in two.

`CHECK_DEADLOCK FALSE` everywhere: a settled run, an idle semaphore, log, hub or
web process with its bounds used up has no step left.

**Symmetry** is used only in runs without liveness.

**Fairness.** `BackupRun`: weak fairness of the dispatching request, of each
worker and of the finalizer, processes of a running system; strong fairness of "a
task gets a slot or gives up", since its retries outlast the others' holding times
(`semaphore` checks this, `RefusalIsNotFinal`). Weak fairness of a worker includes
that a device session ends: `SessionEnds` of `dialogues` checks this, from weak
fairness of the session alone, since every read has a timeout; the device need not
do anything. In `BackupSemaphore` time passes (`Tick`) and nobody runs past the
hard limit. `Notifications`: weak fairness of each sender and of the delivery
tasks; sending has a timeout. `WebShell`: weak fairness of the handler and its
tasks, whose attempts to connect time out; neither browser nor device is fair. No
fairness is assumed of terminate requests, deletions, faults and people.

## Proofs

**BackupRun.** `BackupRunProofs` proves for any finite number of records, any
workers and any faults: `TypeCorrect`, `NoRecordIsOrphaned`,
`DispatchedAfterCommit`, `OnlyPendingIsTerminated`, `OpenRunIsCollected`. The
only assumption is `RunAssumption` of the module. The invariants are not
inductive as they stand; the strengthenings are

- `SentIsLate`: nothing is sent before the dispatcher's first commit;
- `CommitFirst`: before it, nothing was published, taken, revoked or read;
- `TerminatorHoldsPending`: what each terminate request selected was pending when
  it read it;
- `FinalizerNotYet`, `FinalizerFirst`: the finalizer's message precedes every
  record's, and none exists before;
- `CollectorIsKnown`: the finalizer's state agrees with the dispatcher's.

Its second half assumes in addition that there is no terminate request
(`MaxTerminations = 0`) and proves, as long as no task was doubled,
`OutcomesAreFinal` and `SucceededRunsAreTrue`, and from them
`RunImplementsLedger`: the initial states are `BackupLedger`'s and every step is
one of its steps or a stutter. The argument: a record's task exists once
(`OneCopy`: message or execution, never both, and nothing published for a record
the dispatcher will fail itself); what executes is unfinished
or deleted (`ExecutedIsActive`); so only its execution writes its outcome, and what the
finalizer read as finished stays (`ClosingSeesFinal`). `run_cancel_race` is a
counterexample with a terminate request. `CountsAreTrue` proves
`ClosedCountsMatch` under the same condition. What it needs besides: a record
whose task was not dispatched is still queued, or deleted, when the dispatcher fails
it (`NotSentIsQueued`), so a run that could not be enqueued counts only failures;
a finalizer that closes before its polls ran out read finished rows, and nobody
changed the run's counts since it loaded them (`ClosingCounts`), so it writes
what its rows say; and after that no row moves (`ClosedIsOver`).

The step of each invariant has one case per action. Frame lemmas
(`DispatcherMoves`, `RunMoves` and the like) say what each process leaves
alone, so that a case cites only what it disturbs.

**BackupSemaphore.** `BackupSemaphoreProofs` proves `SemaphoreTypeCorrect`,
`HoldersKeepTheirSlots`, `ConcurrencyIsBounded` and `FaultsCostOneSlot` from
`SemaphoreAssumption` alone. Its only assumption that is not about types is
`HoldLimit <= TTL`, which the settings page enforces. `Effects` first reduces
every step to one of six effects on the set (a delivery takes, abandons or
releases a slot, takes one unaware of it, time passes, or nothing happens); each
conjunct of the invariant then has one case per effect. The strengthenings are

- `KeepsTime`: the set is no older than any holder whose member it has, so a
  holder reaches the hard limit before the set expires under it;
- `SharedMember`: while both deliveries of a record hold, their member is there;
- `WithinBound`: the set has at most as many members as there are slots;
- `PaidFor`: members without a holder, killed records aside, are at most as many
  as the faults.

`RefusalNeverFails` (`RefusalIsNotFinal`) assumes that there are enough retries:
`((Cardinality(Records) + 2 * MaxFaults) - 1) * (TTL + 1)` or more. This is what
"the retries outlast the set" means in numbers; with too few of them the property is
false. With the 1,000,000 retries and 3600 seconds (720 ticks) of the code it holds
as long as the records that compete and twice the faults are at most 1387 together;
the instance of the run, with 9 retries, just meets it. The argument: every
acquisition restarts the set's clock, but uses up a delivery that was to come, and a
fault gives back one at most. So `FullTime`, the ticks for which the set can still
have members, never grows (`TimeRunsOut`), and each tick at which it has members
costs one of it; a refused delivery waits for the next tick, so it was retried at
most as often as `FullTime` has shrunk (`RetriesTakeTime`).

`ConcurrencyIsBounded` maps the holders found in the set to its members, one
delivery of a record at a time, and the others to the duplicated records; both
maps are injective.

**TaskEventLog.** `TaskEventLogProofs` proves `LogTypeCorrect` and
`LogImplementsStore` (`Spec => IsEventStore`) from `LogAssumption`, for any
number of events, threads and faults and any sizes of buffer and batch. The
refinement needs `IdsInv`: the ids a thread has in hand are distinct rows, open
before its commit and committed after it, and no two threads share one. Then a
thread's transaction closes exactly its rows, what it publishes is visible and
was not announced before, and a crash abandons open rows only. Lemmas on concatenation,
suffixes and the effect of each handler (`Taking`, `Buffering`, `Inserting`,
`PuttingBack`) precede the invariant; one lemma per kind of step (`CommitRefines`,
`CrashRefines`, ...) maps it to the abstract step.

Its second half is about where the events are. `LogKeepsEvents` is `[]NoEventVanishes`, from
`EventsInv`: what is logged is waiting (in the buffer or with a thread), stored,
or dropped (`Covered`); the buffer and the threads' hands are disjoint and hold
nothing twice (`Owned`), without which a batch put back could hide that another
event was overwritten; and an event stored and still waiting was doubled by a
commit whose answer was lost (`StoredOnce`). `LogKeepsOrder` is
`[]BufferInOrder`, from `Ordered`: while no two threads hold batches they may put
back, the one that may precedes the buffer.

**RealtimeHub.** `RealtimeHubProofs` proves `ScopeStaysWatched`,
`PagesStayCurrent` and `LogStaysComplete` for any pages, limits, tables and
numbers of connections, with and without the bus. Three invariants build on each
other:

- `WatchInv`: without the bus nothing is heard (`Silent`), so that only
  `_watch_scope` refreshes, and its pages start it if it does not run;
- `PagesInv`: a page that is not still to be told a snapshot shows it or a later
  one, or will once its own is sent, or is left behind (`Shows`, `Claimed`); what
  the teller has is current when the bus is silent (`Told`). A page's own steps
  leave every such claim as it is (`PageMoves`), so that they need one argument;
- `LogsInv`: what a page holds, is about to show or has passed over (`Holding`)
  contains what is visible and not pending, and what is below its watcher's
  cursor (`Caught`), which no row that appears later is (`Cursors`).

`TableMoves` says what a step of the table or of the bus can do to a reader: a row
that becomes visible is still to be announced, or lost. `LoadPasses` says the
same of a load: what its cursor passes is in it, on the page, or passed over; it
needs that the rows kept by a limit are a prefix (`LowestIsPrefix`) and that a
bounded set of numbers has a maximum, from the library's least element of a
well-founded relation.

**Notifications.** `NotificationsProofs` holds for any number of policies,
senders, attempts and faults and any finite set of tasks (`NotificationAssumption`).
`BaseInv` says that one transaction at a time reports and only once
(`Transactions`), and that a delivery somebody works on exists and has one writer
(`Hands`). On it rest

- `Routes`: the running selection is the one by the policies' order, so far
  (`Passed`): `RoutingIsExact`. `Selection` relates one turn of the loop to the
  definition of what a policy is to be told;
- `Retries`: a task that leaves a delivery to a retry has queued the message
  before it commits, or another task has it, or its copy is stale: `RetriesAreQueued`
  and `SentIsFinal`;
- `Accounts`: attempts that no undone transaction and no sharing accounts for are
  in the committed row or in flight; and each further task that has the delivery
  was counted as shared, so `Counted + Cardinality(Has)` stays at most one above
  the row and above each task's own copy: `AttemptsStayBounded`.

**Administration.** `AdministrationProofs` holds for any sessions, loads, forms,
files, selections, groups, devices, schedules, roles, channels and policies, with
and without the foreign key. Assumed: `None` is no group, forms give a device a
group and a credential, "all", groups and devices are different targets and
devices are what is ticked in a list (`TargetsAssumption`), there are finitely many
devices and groups and -1 is the id of no group (`RowsAssumption`), and the databases a behaviour starts from are sound
(`AdministrationAssumption`: their parents, credentials, roles and channels
exist, paths are the parents' paths). `AdministrationInv` has one part for each
thing that rows say of each other, and each part follows one scheme: it says of
the tables what the property says, and of every open request what makes its
commit keep it, both unless the race is noted. `RacesNoted` gives the rest: two
open requests that do not protect each other have their race in `overlap`, so in
a state without it the other request cannot be open. The parts are

- `CredentialInv`, `DeviceInv`, `ScheduleInv`, `RoleInv`, `ChannelInv`: what a
  request is to refer to exists, and what it is to delete is referred to by
  nobody: `ReferencesStay`;
- `RoleIds`, `GroupIds`: an id is given to one row for ever, so a new row meets
  no old one and nothing speaks of it before it is there;
- `JobsInv`, `CacheInv`: between a commit and the end of a reload, what was read
  is what is enabled; after a flush the cache is what the session sees:
  `CachesStayCurrent`;
- `ParentInv`, `PathInv`: a group to be deleted has no child; a row to be written
  has its parent's path; and a move has read all the paths below its group and
  where they go. `MovedSound` shows that these writes make the tree sound again,
  from lemmas on prefixes of sequences (`PrefixByIndex`, `ChildPath`,
  `RebasedChild`): a path below the old one is its parent's, rebased, and the id:
  `TreeStaysSound`.

`DeletionsNarrow`, the action property, needs more (`DeletionInv`), since a
commit writes what was read before: `TargetsInv`, that what a deletion has
rewritten is still the schedule's list without the devices; and `CleanupInv`,
that no open cleanup dooms the latest success of a device. The latter has to
survive another cleanup and the end of a run. It rests on `NumbersInv`, that a run's number
is given once, on `RecordsInv`, that a run has one record per device and its
records end together (so an unfinished run holds no success that its end could
turn into a failure), and on `LatestExists`: numbers are
bounded by the requests, so a device with a success has a latest one, and two
cleanups agree on it.

`ViewsAlwaysAgree` (`[]ViewsAgree`) says that what the pages compute twice comes
out the same. Its invariant, `ViewsInv`, adds `ListedInv` to `DeletionInv`: what the rows and
the open requests hold are devices, groups, statuses and times (`ListedRows`,
`ListedHeld`). From it and from the numbers and the uniqueness of records above
(`RowsSound`), each view follows for any page sizes, accesses and counts of rows:

- pages: the orders of the lists are strict (`DevicesOrdered`, `RecordsOrdered`;
  a run and a device tell two records apart, so no tie can move a row between pages),
  the ranks of a finite strict order are 0, 1, ... without a gap (`Ranks`), and
  `build_pagination_data`'s division covers them (`PagesCover`), so the pages hold
  each row once and the last is not empty (`PagesCut`);
- counts: sizes of disjoint parts add up to the size of the whole
  (`SumOfParts`), for the pages and for the labels of a schedule's statistics
  (`TotalsAddUp`); the dashboard's failures are the trend's and the active ones
  (`DashboardAddsUp`);
- access: the query's condition is the check of each device (`ConditionIsCheck`),
  so the lists, the choice of targets and the panel show what may be seen
  (`DevicesShown`, `ConfigsShown`, `TrackedIsOwn`);
- groups: without a race a group's depth is the length of its path and the path
  holds its ancestors (`Ancestors`), so no path is longer than there are groups
  (`PathsFit`), the levels from the roots find them all (`TreeFromRoots`) and the
  chain of parents is the path (`ParentsMakeThePath`).

For each recursive function in these definitions (the fold of a sum, the levels,
the chain) a closed form is shown to satisfy the recursion, so that the function
exists, and then to agree with it step by step (`StepByStep`).

`StepKinds` sorts the steps of `Next` by the tables they may write, and a frame
lemma per kind says what it leaves alone; each part then needs one case per kind
that disturbs it.

**Dialogues.** `DialoguesProofs` proves `PasswordTypedOnce` for any banners and
outputs, any cutting of what the device prints, and any number of messages,
failing transactions and crashes; `ShellAssumption` says what tokens there are and
that the login looks at two at least. That the password is typed once follows
from the login's step (`SecretOnce`). That it answers a question for a password
needs what the device asks while the login has not answered (`Answers`): a
question for the name is the last thing printed until the name is typed
(`NameAskedLast`), so that at "login" nothing is left to be read, and the
password's question is not among the unanswered text before the device asks it.

It also proves the four properties of the handlers, `AnswersAreAlwaysTrue`,
`EveryChangeIsAudited`, `FollowersFindTheChange` and `RepeatsChangeNothing`, for
any number of repetitions, failing commits, brokers and crashes. The only
hypothesis is that the scripts are among those of the application
(`Scripts \subseteq App`; the run takes all of them). The argument has two halves:

- `AllPlaces`: every script has one write, with only looks and half changes before
  it, and an order after it (`Shape`), and what the named sets say of it
  (`ByName`): who may commit before logging, tell before committing, refuse after
  a half change, or add a row unguarded. A script is proved from its parts: what
  leads to a write (`Leads`) and what may follow (`Follows`) make it whole
  (`Composed`), so a handler is only as hard as its body. A handler that
  is added or reordered against the sets fails here;
- `HandlersInv`: for any script with such a place, a request that is past its
  write has the change open, or has committed it, or went on without it (`Flows`);
  what its client heard fits (`Heard`), its log entry goes with its change
  (`Logged`), those it told can find it (`Followed`), and two requests do not
  both have a change that a constraint, or a look that nobody overtakes, keeps
  single (`OneChange`). Each kind of step keeps it (`...Keeps` for the request,
  `StepKeeps` for the others).

Nothing depends on how often a step is repeated, so the proof needs no induction
over scripts; `NoRequestLeft` is the state of the handlers in the behaviours that
are about another dialogue.

**DeviceSession.** `DeviceSessionProofs` proves `RepliesStayWhole`
(`[]RepliesAreWhole`) for any number of commands, any replies and sizes of the
wire, any retries and limits (`SessionAssumption`). `SessionInv` follows a reply
on its way:

- `DeviceInv`, `InputInv`: what the device has left is the end of the reply it
  is printing (`Rest`), and commands reach it once and in order, so that it never
  prints for a command that was not sent;
- `DataInv`, `StreamInv`: what was taken or waits on the wire are tokens the device
  prints for a command it has read; unless misread, nothing is left over when
  a command is sent, and from its echo on they are what the device has printed
  of its reply so far (`Own`), in which only the last can be the prompt;
- `PartsInv`, `EventsInv`: a part that is kept is its reply as printed, without
  the pager's lines, unless `Misread`; and the events name the commands sent.

What `Unmarked`, `Stripped` and `Sections` make of a text is proved by induction
over its length, for the recursive functions they are: `Recursion` shows that
such a function exists and is unique, from the least element of a set of numbers
(`StepByStep`). `SectionsAreParts` says that the page cuts the text
back into the parts it was joined from. With three commands and one reply more TLC
refuted an earlier form of the property, by which a reply could spill into the
next command only; this is why `Misread` speaks of every earlier one.

**Model-checked only:** all liveness (`RunSettles`, `QueuedIsFinished`,
`SlotsDrain`, `DeliveriesSettle`, `SessionEnds`, `ShellEnds`), which the prover
does not cover.

## Not modelled

Storage upload, e-mail and web hooks (live I/O whose outcome the models take as a
choice); reachability checks (a loop of single checks, each a transaction of its
own); pages, translations, the text of reports, audit entries and events; the
match of message templates; signed tokens, MFA, passwords and the contents of
permissions; cron expressions; validation of fields; migrations. Of the wide
table of device platforms only the dialogue is modelled. Database failures of a
worker's own short sessions are not injected: they raise in the task and end in
its failure handler, like `GiveUpSlot`. There is one web process, as in the compose file. The
query for a device's previous configuration is not modelled: what changed is an
input of `Notifications`.

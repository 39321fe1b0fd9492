----------------------------- MODULE Inventory -----------------------------
(***************************************************************************)
(* Groups, devices, credentials, schedules and the records of their runs,  *)
(* as the web process changes them, and the scheduler's table of jobs,     *)
(* which lives in its memory and is reloaded after a schedule has changed. *)
(*                                                                         *)
(* A name stands for the row that bears it, except for groups, where it    *)
(* stands for the id.  An operation's writes are kept as the columns that  *)
(* differ from what its session read: SQLAlchemy updates no others.        *)
(***************************************************************************)
EXTENDS Requests, GroupTree, FiniteSets, Functions

CONSTANTS Device, Credential, Schedule, All,
          Forms,             \* what the form of a device may say,
          TargetChoices,     \* the target lists the form of a schedule may hold,
          Selections,        \* the sets of devices that may be ticked in a list,
          Files,             \* and the files that may be imported
          ForeignKey,        \* devicegroup.parent_id is constrained (not on upgraded databases)
          MaxOld             \* bound: how often the retention period passes

\* A form gives a device its group and its credential; a file is about devices.
ASSUME InventoryAssumption ==
    /\ Forms \subseteq [group : Group \cup {None}, credential : Credential]
    /\ \A file \in Files : file.devices \subseteq Device

\* A target is "all", a group or a device, and never two of them; what is ticked
\* in a list is devices.
ASSUME TargetsAssumption ==
    /\ All \notin Device \cup Group /\ Device \cap Group = {}
    /\ Selections \subseteq SUBSET Device

VARIABLES tree,        \* devicegroup rows
          devices,     \* device rows
          credentials, \* credential rows
          schedules,   \* backupschedule rows
          jobs,        \* APScheduler's jobs
          runs,        \* backup_schedule_run rows, by a number
          records,     \* backup_record rows, with the number of their run (or, alone, of their own)
          aged         \* how often the retention period has passed

inventoryVars == <<tree, devices, credentials, schedules, jobs, runs, records, aged>>

\* The columns of new that differ from old, and an update of no others.
Changes(old, new) == {c \in DOMAIN new : new[c] # old[c]}
Updated(old, columns, new) == [c \in DOMAIN old |-> IF c \in columns THEN new[c] ELSE old[c]]

\* resolve_device_ids_from_targets
Resolve(targets) ==
    IF All \in targets THEN DOMAIN devices
    ELSE {d \in DOMAIN devices :
            d \in targets \/ devices[d].group \in Expand(tree, targets \cap Group)}

Enabled == {x \in DOMAIN schedules : schedules[x].on}

RecordsOf(i) == {r \in records : r.run = i}
Active(d) == \E r \in records : r.device = d /\ r.status = "active"

\* _delete_empty_schedule_runs: of these runs, the finished ones with no record left.
Pruned(candidates, left) ==
    Restrict(runs, {i \in DOMAIN runs : \/ i \notin candidates \/ runs[i].open
                                         \/ \E r \in left : r.run = i})

-----------------------------------------------------------------------------
\* Groups.

CreateGroup(s, g, p) ==
    /\ g \notin ids
    /\ p \in DOMAIN tree \cup {None}
    /\ OpensTaking(s, [op |-> "createGroup", stage |-> "open", group |-> g, row |-> Row(tree, g, p)], {g})
    /\ UNCHANGED inventoryVars

\* A form that leaves the parent alone writes no column of the tree.
MoveGroup(s, g, p) ==
    /\ g \in DOMAIN tree /\ p # tree[g].parent
    /\ MayMove(tree, g, p)
    /\ Opens(s, [op |-> "moveGroup", stage |-> "moving", group |-> g, old |-> tree[g].path,
                 row |-> Row(tree, g, p), paths |-> <<>>])
    /\ UNCHANGED inventoryVars

\* Rows updated by another open session: PostgreSQL makes the next one wait.
Locked(s) == {tx[t].group : t \in {t \in Session \ {s} : Ready(t, "moveGroup")}}

\* The moved row is flushed (and locked); then its descendants are read.
FlushMove(s) ==
    /\ tx[s].op = "moveGroup" /\ tx[s].stage = "moving"
    /\ tx[s].group \in DOMAIN tree \ Locked(s)
    /\ Continues(s, [op |-> "moveGroup", stage |-> "open", group |-> tx[s].group, old |-> tx[s].old,
                     row |-> tx[s].row,
                     paths |-> Rebased(tree, tx[s].group, tx[s].old, tx[s].row.path)])
    /\ UNCHANGED inventoryVars

DeleteGroup(s, g) ==
    /\ g \in DOMAIN tree
    /\ Children(tree, g) = {}
    /\ \A d \in DOMAIN devices : devices[d].group \notin Expand(tree, {g})
    /\ Opens(s, [op |-> "deleteGroup", stage |-> "open", group |-> g])
    /\ UNCHANGED inventoryVars

ParentExists(p) == ForeignKey => p \in DOMAIN tree \cup {None}

CommitGroup(s) ==
    /\ \/ /\ Ready(s, "createGroup")
          /\ ParentExists(tx[s].row.parent)
          /\ tree' = Over(tree, Only(tx[s].group, tx[s].row))
       \/ /\ Ready(s, "moveGroup")
          /\ {tx[s].group} \cup DOMAIN tx[s].paths \subseteq DOMAIN tree
          /\ DOMAIN tx[s].paths \cap Locked(s) = {}
          /\ ParentExists(tx[s].row.parent)
          /\ tree' = Moved(tree, tx[s].group, tx[s].row, tx[s].paths)
       \/ /\ Ready(s, "deleteGroup")
          /\ tx[s].group \notin Locked(s)
          /\ ForeignKey => Children(tree, tx[s].group) = {}
          /\ tree' = Restrict(tree, DOMAIN tree \ {tx[s].group})
    /\ Closes(s)
    /\ UNCHANGED <<devices, credentials, schedules, jobs, runs, records, aged>>

-----------------------------------------------------------------------------
\* Devices and credentials.

\* What a form writes of a device: the row, and the columns that change.
Written(d, row) == [row |-> row, columns |-> IF d \in DOMAIN devices THEN Changes(devices[d], row)
                                                                      ELSE DOMAIN row]

\* create_device and update_device: the credential is looked up, the group not.
SaveDevice(s, d, row) ==
    /\ row.credential \in credentials
    /\ Opens(s, [op |-> "saveDevices", stage |-> "open", new |-> {d} \ DOMAIN devices,
                 set |-> Only(d, Written(d, row))])
    /\ UNCHANGED inventoryVars

\* bulk_update_devices: one column of several devices.
BulkUpdate(s, ds, column, row) ==
    /\ column = "credential" => row.credential \in credentials
    /\ Opens(s, [op |-> "saveDevices", stage |-> "open", new |-> {},
                 set |-> [d \in ds \cap DOMAIN devices |->
                            Written(d, [devices[d] EXCEPT ![column] = row[column]])]])
    /\ UNCHANGED inventoryVars

\* import_devices_from_csv, a file whose rows share a group and a credential:
\* an unknown group is created first, duplicates are skipped (insert) or
\* rewritten (upsert).
Import(s, file) ==
    LET g == file.group
        c == file.credential
        rows == IF file.mode = "insert" THEN file.devices \ DOMAIN devices ELSE file.devices IN
    /\ c \in credentials
    /\ g \in {None} \cup DOMAIN tree \cup (Group \ ids)
    /\ OpensTaking(s, [op |-> "import", stage |-> "open", new |-> rows \ DOMAIN devices,
                       groups |-> IF g \in ids \cup {None} THEN <<>> ELSE Only(g, Row(tree, g, None)),
                       set |-> [d \in rows |-> Written(d, [group |-> g, credential |-> c])]],
                   {g} \ {None})
    /\ UNCHANGED inventoryVars

\* A row that has gone, or a new one that is there: the session is rolled back.
CommitDevices(s) ==
    /\ Ready(s, "saveDevices") \/ Ready(s, "import")
    /\ DOMAIN tx[s].set \cap DOMAIN devices = DOMAIN tx[s].set \ tx[s].new
    /\ devices' = [d \in DOMAIN devices \cup DOMAIN tx[s].set |->
                     IF d \in tx[s].new THEN tx[s].set[d].row
                     ELSE IF d \in DOMAIN tx[s].set
                     THEN Updated(devices[d], tx[s].set[d].columns, tx[s].set[d].row)
                     ELSE devices[d]]
    /\ tree' = IF tx[s].op = "import" THEN Over(tx[s].groups, tree) ELSE tree
    /\ Closes(s)
    /\ UNCHANGED <<credentials, schedules, jobs, runs, records, aged>>

\* Mutant: a schedule left without targets is given all devices.
DeleteDevicesOrAll(s, ds) ==
    /\ ds \subseteq DOMAIN devices
    /\ \A d \in ds : ~Active(d)
    /\ Opens(s, [op |-> "deleteDevices", stage |-> "open", devices |-> ds,
                 targets |-> [x \in {x \in DOMAIN schedules : schedules[x].targets \cap ds # {}} |->
                                IF schedules[x].targets \subseteq ds THEN {All}
                                ELSE schedules[x].targets \ ds]])
    /\ UNCHANGED inventoryVars

\* delete_device and bulk_delete_devices: none may have an active record; the
\* schedules that name one are rewritten without it from the copy just read.
DeleteDevices(s, ds) ==
    /\ ds \subseteq DOMAIN devices
    /\ \A d \in ds : ~Active(d)
    /\ Opens(s, [op |-> "deleteDevices", stage |-> "open", devices |-> ds,
                 targets |-> [x \in {x \in DOMAIN schedules : schedules[x].targets \cap ds # {}} |->
                                schedules[x].targets \ ds]])
    /\ UNCHANGED inventoryVars

CommitDeleteDevices(s) ==
    /\ Ready(s, "deleteDevices")
    /\ DOMAIN tx[s].targets \subseteq DOMAIN schedules
    /\ devices' = Restrict(devices, DOMAIN devices \ tx[s].devices)
    /\ records' = {r \in records : r.device \notin tx[s].devices}
    /\ runs' = Pruned({r.run : r \in records \ records'}, records')
    /\ schedules' = [x \in DOMAIN schedules |->
                       IF x \in DOMAIN tx[s].targets
                       THEN [schedules[x] EXCEPT !.targets = tx[s].targets[x]] ELSE schedules[x]]
    /\ Closes(s)
    /\ UNCHANGED <<tree, credentials, jobs, aged>>

CreateCredential(c) ==
    /\ c \notin credentials
    /\ credentials' = credentials \cup {c}
    /\ Alone("inventory")
    /\ UNCHANGED <<tree, devices, schedules, jobs, runs, records, aged>>

UsedCredentials == {devices[d].credential : d \in DOMAIN devices}

\* Mutant: the devices that use the credential are not looked for.
DeleteCredentialUnchecked(s, c) ==
    /\ c \in credentials
    /\ Opens(s, [op |-> "deleteCredential", stage |-> "open", credential |-> c])
    /\ UNCHANGED inventoryVars

DeleteCredential(s, c) ==
    /\ c \in credentials \ UsedCredentials
    /\ Opens(s, [op |-> "deleteCredential", stage |-> "open", credential |-> c])
    /\ UNCHANGED inventoryVars

CommitDeleteCredential(s) ==
    /\ Ready(s, "deleteCredential")
    /\ credentials' = credentials \ {tx[s].credential}
    /\ Closes(s)
    /\ UNCHANGED <<tree, devices, schedules, jobs, runs, records, aged>>

-----------------------------------------------------------------------------
\* Schedules and the scheduler.

\* normalize_schedule_targets
Normal(targets) == IF All \in targets THEN {All} ELSE targets

\* upsert_schedule
SaveSchedule(s, x, on, targets) ==
    LET row == [on |-> on, targets |-> Normal(targets)] IN
    /\ Opens(s, [op |-> "saveSchedule", stage |-> "open", schedule |-> x,
                 new |-> x \notin DOMAIN schedules, row |-> row,
                 columns |-> IF x \in DOMAIN schedules THEN Changes(schedules[x], row) ELSE DOMAIN row])
    /\ UNCHANGED inventoryVars

\* toggle_schedule
ToggleSchedule(s, x) ==
    /\ x \in DOMAIN schedules
    /\ Opens(s, [op |-> "toggleSchedule", stage |-> "open", schedule |-> x, new |-> FALSE,
                 row |-> [schedules[x] EXCEPT !.on = ~schedules[x].on], columns |-> {"on"}])
    /\ UNCHANGED inventoryVars

\* delete_schedule: only without an active run; its runs go with it.
DeleteSchedule(s, x) ==
    /\ x \in DOMAIN schedules
    /\ \A i \in DOMAIN runs : runs[i].schedule = x => ~runs[i].open
    /\ Opens(s, [op |-> "deleteSchedule", stage |-> "open", schedule |-> x])
    /\ UNCHANGED inventoryVars

\* The handler commits first and reloads the jobs afterwards.
CommitSchedule(s) ==
    /\ \/ /\ Ready(s, "saveSchedule") \/ Ready(s, "toggleSchedule")
          /\ tx[s].new = (tx[s].schedule \notin DOMAIN schedules)
          /\ schedules' =
                Over(Only(tx[s].schedule,
                          IF tx[s].new THEN tx[s].row
                          ELSE Updated(schedules[tx[s].schedule], tx[s].columns, tx[s].row)), schedules)
          /\ UNCHANGED runs
       \/ /\ Ready(s, "deleteSchedule")
          /\ schedules' = Restrict(schedules, DOMAIN schedules \ {tx[s].schedule})
          /\ runs' = Restrict(runs, {i \in DOMAIN runs : runs[i].schedule # tx[s].schedule})
    /\ Continues(s, [op |-> tx[s].op, stage |-> "reload"])
    /\ UNCHANGED <<tree, devices, credentials, jobs, records, aged>>

\* sync_scheduler_from_db: the schedules are read in a session of its own,
ReadJobs(s) ==
    /\ tx[s].op \in ScheduleOps /\ tx[s].stage = "reload"
    /\ Continues(s, [op |-> tx[s].op, stage |-> "clear", found |-> Enabled])
    /\ UNCHANGED inventoryVars

\* Mutant: the old jobs are left to replace_existing.
RemoveNoJobs(s) ==
    /\ tx[s].op \in ScheduleOps /\ tx[s].stage = "clear"
    /\ Continues(s, [op |-> tx[s].op, stage |-> "add", found |-> tx[s].found])
    /\ UNCHANGED inventoryVars

\* all jobs are removed,
RemoveJobs(s) ==
    /\ tx[s].op \in ScheduleOps /\ tx[s].stage = "clear"
    /\ jobs' = {}
    /\ Continues(s, [op |-> tx[s].op, stage |-> "add", found |-> tx[s].found])
    /\ UNCHANGED <<tree, devices, credentials, schedules, runs, records, aged>>

\* and a job is added for each schedule that was read as enabled.
AddJobs(s) ==
    /\ tx[s].op \in ScheduleOps /\ tx[s].stage = "add"
    /\ jobs' = jobs \cup tx[s].found
    /\ Closes(s)
    /\ UNCHANGED <<tree, devices, credentials, schedules, runs, records, aged>>

\* The read fails: the request answers with an error, and the jobs stay.
ReloadFails(s) ==
    /\ tx[s].op \in ScheduleOps /\ tx[s].stage = "reload"
    /\ tx' = [tx EXCEPT ![s] = Idle]
    /\ overlap' = overlap \cup {"reload"}
    /\ UNCHANGED <<ids, begun, inventoryVars>>

-----------------------------------------------------------------------------
\* Runs and records, from the request that plans them to their end.

Plans(s, schedule, ds, alone) ==
    /\ ds # {}
    /\ Opens(s, [op |-> "plan", stage |-> "open", run |-> begun["backups"] + 1,
                 schedule |-> schedule, devices |-> ds, alone |-> alone])
    /\ UNCHANGED inventoryVars

\* _job, and the button that starts a schedule: the schedule is read by its id,
\* whether or not it is enabled, and a run is planned for what its targets name.
Plan(s, x) == x \in DOMAIN schedules /\ Plans(s, x, Resolve(schedules[x].targets), FALSE)

\* trigger_bulk_backup and trigger_backup: a run of no schedule, or no run.
PlanBulk(s, ds) == Plans(s, None, ds \cap DOMAIN devices, FALSE)
PlanSingle(s, d) == d \in DOMAIN devices /\ Plans(s, None, {d}, TRUE)

\* retry_schedule_run and retry_selected_schedule_run: a new run for the devices
\* of the selected records that did not succeed, if none of them is active.
Retry(s, i, selected) ==
    /\ i \in DOMAIN runs /\ ~runs[i].open
    /\ \A r \in selected : r.status # "active"
    /\ Plans(s, runs[i].schedule,
             {r.device : r \in {r \in selected : r.status # "succeeded"}} \cap DOMAIN devices, FALSE)

\* The first commit of enqueue_schedule_run, or of enqueue_single_backup.
CommitRun(s) ==
    /\ Ready(s, "plan")
    /\ runs' = IF tx[s].alone THEN runs
               ELSE Over(runs, Only(tx[s].run, [schedule |-> tx[s].schedule, open |-> TRUE, at |-> aged]))
    /\ records' = records \cup [run : {tx[s].run}, device : tx[s].devices,
                                status : {"active"}, at : {aged}]
    /\ Closes(s)
    /\ UNCHANGED <<tree, devices, credentials, schedules, jobs, aged>>

\* What is not over: open runs, and records that are active.
Unfinished == {i \in DOMAIN runs : runs[i].open} \cup
              {r.run : r \in {r \in records : r.status = "active"}}

\* The workers and the finalizer (module BackupRun): every record gets an
\* outcome and the run is closed.
EndRun(i, good) ==
    /\ records' = {IF r.run # i THEN r
                   ELSE [r EXCEPT !.status = IF r.device \in good THEN "succeeded" ELSE "failed"]
                     : r \in records}
    /\ runs' = IF i \in DOMAIN runs THEN [runs EXCEPT ![i].open = FALSE] ELSE runs
    /\ overlap' = overlap \cup {r \in {"records"} : \E s \in Session : tx[s].op = "cleanup"
                                  /\ \E k \in tx[s].doomed : k[1] = i}
    /\ UNCHANGED <<tree, devices, credentials, schedules, jobs, aged, tx, ids, begun>>

-----------------------------------------------------------------------------
\* Retention.

\* The retention period passes over every record there is.
Age == /\ aged < MaxOld /\ records # {}
       /\ aged' = aged + 1
       /\ UNCHANGED <<tree, devices, credentials, schedules, jobs, runs, records, requestVars>>

Succeeded(d) == {r \in records : r.device = d /\ r.status = "succeeded"}

\* cleanup_old_backups keeps this one of each device.
Kept(d) == {r \in Succeeded(d) : \A q \in Succeeded(d) : q.run <= r.run}

\* cleanup_old_backups: by age alone, whatever the status.
Expired == {r \in records : r.at < aged /\ r \notin Kept(r.device)}

Keys(rs) == {<<r.run, r.device>> : r \in rs}

Cleanup(s) ==
    /\ Expired # {}
    /\ Opens(s, [op |-> "cleanup", stage |-> "open", doomed |-> Keys(Expired), before |-> aged])
    /\ UNCHANGED inventoryVars

\* delete_backup and bulk_delete_backups, of finished records.
DeleteRecords(s, rs) ==
    /\ rs # {} /\ \A r \in rs : r.status # "active"
    /\ Opens(s, [op |-> "deleteRecords", stage |-> "open", doomed |-> Keys(rs)])
    /\ UNCHANGED inventoryVars

CommitRecords(s) ==
    /\ Ready(s, "cleanup") \/ Ready(s, "deleteRecords")
    /\ records' = {r \in records : <<r.run, r.device>> \notin tx[s].doomed}
    /\ runs' = Pruned(IF tx[s].op = "cleanup" THEN {i \in DOMAIN runs : runs[i].at < tx[s].before}
                      ELSE {k[1] : k \in tx[s].doomed}, records')
    /\ Closes(s)
    /\ UNCHANGED <<tree, devices, credentials, schedules, jobs, aged>>

-----------------------------------------------------------------------------
\* A handler that raises, loses a deadlock or meets a row that has gone.
Rollback(s) ==
    /\ tx[s].op \notin {"none"} \cup RoleOps \cup RoutingOps /\ tx[s].stage \in {"open", "moving"}
    /\ Closes(s)
    /\ UNCHANGED inventoryVars

\* The web process dies and starts again: main.lifespan reloads the jobs.
RestartInventory ==
    /\ jobs' = Enabled
    /\ UNCHANGED <<tree, devices, credentials, schedules, runs, records, aged>>

InventoryRequest(s) ==
    \/ \E g \in Group, p \in Group \cup {None} : CreateGroup(s, g, p) \/ MoveGroup(s, g, p)
    \/ \E g \in Group : DeleteGroup(s, g)
    \/ \E row \in Forms : \/ \E d \in Device : SaveDevice(s, d, row)
                          \/ \E ds \in Selections, column \in {"group", "credential"} :
                               BulkUpdate(s, ds, column, row)
    \/ \E ds \in Selections \cup {{d} : d \in Device} : DeleteDevices(s, ds)
    \/ \E file \in Files : Import(s, file)
    \/ \E c \in Credential : CreateCredential(c) \/ DeleteCredential(s, c)
    \/ \E x \in Schedule :
         \/ \E on \in BOOLEAN, targets \in TargetChoices : SaveSchedule(s, x, on, targets)
         \/ ToggleSchedule(s, x) \/ DeleteSchedule(s, x)

BackupRequest(s) ==
    \/ \E x \in Schedule : Plan(s, x)
    \/ \E ds \in Selections : PlanBulk(s, ds)
    \/ \E d \in Device : PlanSingle(s, d)
    \/ \E i \in DOMAIN runs : \E selected \in SUBSET RecordsOf(i) : Retry(s, i, selected)
    \/ Cleanup(s)
    \/ \E rs \in SUBSET records : DeleteRecords(s, rs)

InventoryCommit(s) ==
    \/ FlushMove(s) \/ CommitGroup(s) \/ CommitDevices(s) \/ CommitDeleteDevices(s)
    \/ CommitDeleteCredential(s) \/ CommitSchedule(s)
    \/ ReadJobs(s) \/ RemoveJobs(s) \/ AddJobs(s) \/ ReloadFails(s)
    \/ CommitRun(s) \/ CommitRecords(s) \/ Rollback(s)

InventoryElsewhere ==
    \/ \E i \in Unfinished : \E good \in SUBSET {r.device : r \in RecordsOf(i)} : EndRun(i, good)
    \/ Age

-----------------------------------------------------------------------------
\* Every path is the parent's path and the id, so no group is its own
\* ancestor and a subtree found by its paths (for a schedule, a filter, a
\* user's rights) is the subtree; unless a group was moved while another was
\* moved or created.  And every parent exists; without the foreign key, unless
\* it was deleted while a group was put under it.  (update_group, create_group,
\* delete_group, expand_group_ids)
TreeIsSound ==
    /\ ForeignKey \/ "orphan" \notin overlap =>
          \A g \in DOMAIN tree : tree[g].parent \in DOMAIN tree \cup {None}
    /\ "tree" \notin overlap =>
          \A g \in DOMAIN tree :
              tree[g].parent \in DOMAIN tree \cup {None} => tree[g] = Row(tree, g, tree[g].parent)

\* What a row refers to is there: the credential of a device, the device of a
\* record, the schedule of a run; unless the request that deleted it
\* overlapped the one that came to refer to it.  No foreign key says so: only
\* the checks of the handlers do.
ReferencesResolve ==
    /\ "credential" \notin overlap => UsedCredentials \subseteq credentials
    /\ "device" \notin overlap => {r.device : r \in records} \subseteq DOMAIN devices
    /\ "schedule" \notin overlap =>
          {runs[i].schedule : i \in DOMAIN runs} \subseteq DOMAIN schedules \cup {None}

\* When no schedule is being changed the scheduler has a job for the enabled
\* schedules and no others; unless two changes reloaded it at once, or a
\* reload failed.  (sync_scheduler_from_db after the commit)
JobsAreCurrent ==
    (\A s \in Session : tx[s].op \notin ScheduleOps) /\ "reload" \notin overlap => jobs = Enabled

\* Deleting devices takes them out of what each schedule backs up and changes
\* nothing else of it, least of all by leaving it an empty list that means all
\* devices; unless the schedule was saved, or other devices deleted, meanwhile.
\* (delete_device, resolve_device_ids_from_targets)
\* And the cleanup never takes the last successful backup of a device, however
\* old; unless records were deleted by hand, or finished that it had read as
\* expired and active, meanwhile.  (cleanup_old_backups: "each device keeps its
\* latest success")
DeletionNarrows ==
    [][\A s \in Session :
          /\ CommitDeleteDevices(s) /\ "targets" \notin overlap =>
                \A x \in DOMAIN schedules :
                    Resolve(schedules[x].targets)' = Resolve(schedules[x].targets) \ tx[s].devices
          /\ Ready(s, "cleanup") /\ CommitRecords(s) /\ "records" \notin overlap =>
                \A d \in Device : Succeeded(d) # {} => Succeeded(d)' # {}
      ]_<<inventoryVars, requestVars>>
=============================================================================

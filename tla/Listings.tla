------------------------------ MODULE Listings ------------------------------
(***************************************************************************)
(* What the pages show of the inventory: lists in pages, the tree of       *)
(* groups, the choice of a schedule's targets, the tasks that are running  *)
(* and the counts of the dashboard.  The code computes the same things in  *)
(* several places, here in SQL and there in Python, and decides in each    *)
(* what a user limited to some groups may see.                             *)
(*                                                                         *)
(* Every operator is a view of the committed rows at one moment: a page    *)
(* whose queries straddle a commit may mix two of them.  Nothing is        *)
(* changed.  Filters by text, platform and reachability are left out.      *)
(***************************************************************************)
EXTENDS Inventory, FiniteSetsExt

CONSTANTS Unlimited,      \* the access of a user who is not limited to groups
          Ungrouped,      \* the entry -1 of an access list: devices of no group
          AccessLists,    \* access lists as the users' rows hold them
          PageSizes,      \* the page sizes asked for
          RecentTasks     \* how many runs, and finished records, the task panel looks at

ASSUME ListingsAssumption == PageSizes \subseteq Nat \ {0} /\ RecentTasks \in Nat

\* A table holds finitely many rows; -1 is the id of no group.
ASSUME RowsAssumption == IsFiniteSet(Device) /\ IsFiniteSet(Group) /\ Ungrouped \notin Group

-----------------------------------------------------------------------------
\* What a user may see.

\* get_user_allowed_group_ids: the groups of the list and all below them
AllowedGroups(list) ==
    IF list = Unlimited THEN Unlimited
    ELSE Expand(tree, list \cap Group) \cup (list \cap {Ungrouped})

\* validate_device_access, the check of every single device
MayAccess(d, allowed) ==
    \/ allowed = Unlimited
    \/ devices[d].group \in allowed
    \/ devices[d].group = None /\ Ungrouped \in allowed

\* Mutant: devices of no group are shown to nobody who is limited.
GroupedOnly(allowed) ==
    IF allowed = Unlimited THEN DOMAIN devices
    ELSE {d \in DOMAIN devices : devices[d].group \in allowed \cap Group}

\* _allowed_device_groups_condition: the same as a condition of the queries
AllowedCondition(allowed) ==
    IF allowed = Unlimited THEN DOMAIN devices
    ELSE {d \in DOMAIN devices : \/ devices[d].group \in allowed \cap Group
                                 \/ Ungrouped \in allowed /\ devices[d].group = None}

-----------------------------------------------------------------------------
\* Pages.

\* The elements of S in the order of Before, from the offset of the page on.
Window(S, Before(_, _), page, limit) ==
    {x \in S : Cardinality({y \in S : Before(y, x)}) \in (page - 1) * limit .. page * limit - 1}

\* build_pagination_data
TotalPages(total, limit) == IF total = 0 THEN 1 ELSE (total + limit - 1) \div limit

\* The primary keys of the devices, in some order.
IdOf == CHOOSE f \in [Device -> 1..Cardinality(Device)] : IsInjective(f)

ById(d, e) == IdOf[d] < IdOf[e]

\* started_at, descending; a run's records are created device by device
NewerFirst(q, r) == \/ q.run > r.run
                    \/ q.run = r.run /\ IdOf[q.device] > IdOf[r.device]

\* search_devices and count_devices, by access and by a group with all below it
DevicesOf(allowed, g) ==
    LET below == Expand(tree, {g}) IN
    {d \in AllowedCondition(allowed) : g = None \/ devices[d].group \in below}

SearchDevices(allowed, g, page, limit) == Window(DevicesOf(allowed, g), ById, page, limit)
CountDevices(allowed, g) == Cardinality(DevicesOf(allowed, g))

\* resolve_reachability_device_ids: those asked for that may be seen, or all found
ReachabilityTargets(requested, allowed, g) ==
    LET asked == IF requested = {} THEN DevicesOf(allowed, g) ELSE requested \cap DOMAIN devices IN
    {d \in asked : MayAccess(d, allowed)}

\* list_backup_page_rows
BackupPageRows(allowed) ==
    [d \in {d \in DOMAIN devices : MayAccess(d, allowed)} |->
        Cardinality({r \in records : r.device = d})]

\* list_device_backups and count_device_backups
DeviceBackups(d, page, limit) ==
    Window({r \in records : r.device = d}, NewerFirst, page, limit)
CountDeviceBackups(d) == Cardinality({r \in records : r.device = d})

\* search_config: the successes, or each device's latest
ConfigsOf(allowed, latestOnly) ==
    LET found == {r \in records : r.status = "succeeded"}
        mine  == AllowedCondition(allowed) IN
    {r \in found : /\ r.device \in mine
                   /\ latestOnly => \A q \in found : q.device = r.device => ~NewerFirst(q, r)}

SearchConfig(allowed, latestOnly, page, limit) ==
    Window(ConfigsOf(allowed, latestOnly), NewerFirst, page, limit)
CountConfigs(allowed, latestOnly) == Cardinality(ConfigsOf(allowed, latestOnly))

-----------------------------------------------------------------------------
\* Groups and targets.

Roots == {g \in DOMAIN tree : tree[g].parent \notin DOMAIN tree}

\* list_group_tree, flattened: the roots, their children, and so on down.  A
\* group hangs from one node, so it is met once if it is met at all.
FlatTree ==
    LET level[n \in 0..Cardinality(Group)] ==
            IF n = 0 THEN Roots ELSE {g \in DOMAIN tree : tree[g].parent \in level[n - 1]}
    IN  UNION {level[n] : n \in 0..Cardinality(Group)}

\* The chain of parents, as far as it goes without coming back.
ParentChain(g) ==
    LET chain[n \in 0..Cardinality(Group)] ==
            IF n = 0 THEN <<g>>
            ELSE LET p == tree[chain[n - 1][1]].parent IN
                 IF p \in DOMAIN tree \ Range(chain[n - 1]) THEN <<p>> \o chain[n - 1]
                 ELSE chain[n - 1]
    IN  chain[Cardinality(Group)]

\* _build_group_display_paths: the path if its groups are there, or else the
\* parents.  (The last resort for a database without either is left out.)
DisplayPath(g) ==
    IF Len(tree[g].path) > 1 /\ Range(tree[g].path) \subseteq DOMAIN tree
    THEN tree[g].path ELSE ParentChain(g)

\* list_schedule_target_groups: the groups a user may choose, with the count
\* of group_subtree_usage_count
TargetGroups(allowed) ==
    [g \in {g \in FlatTree : allowed = Unlimited \/ g \in allowed} |->
        Cardinality({d \in DOMAIN devices : devices[d].group \in Expand(tree, {g})})]

\* preview_schedule_targets
Preview(targets, allowed) == {d \in Resolve(targets) : MayAccess(d, allowed)}

\* list_schedule_runs, list_latest_schedule_runs
RunsOf(x) == {i \in DOMAIN runs : runs[i].schedule = x}
LatestRun(x) == {i \in RunsOf(x) : \A k \in RunsOf(x) : k <= i}

\* get_schedule_stats_payload: the finished records of its runs
StatsRecords(x) ==
    LET mine == RunsOf(x) IN {r \in records : r.run \in mine /\ r.status # "active"}

GroupLabel(d) ==
    IF d \in DOMAIN devices /\ devices[d].group \in DOMAIN tree
    THEN DisplayPath(devices[d].group) ELSE <<Ungrouped>>

TotalByGroup(x) ==
    LET ended == StatsRecords(x) IN
    [p \in {GroupLabel(r.device) : r \in ended} |-> Cardinality({r \in ended : GroupLabel(r.device) = p})]

FailByDevice(x) ==
    LET failed == {r \in StatsRecords(x) : r.status = "failed"} IN
    [d \in {r.device : r \in failed} |-> Cardinality({r \in failed : r.device = d})]

-----------------------------------------------------------------------------
\* Tasks.

Newest(S, n) == {r \in S : Cardinality({q \in S : NewerFirst(q, r)}) < n}

Seen(rs, allowed) == {r \in rs : r.device \in DOMAIN devices /\ MayAccess(r.device, allowed)}

\* list_task_backups: what is active (up to a hundred), what ended last
TaskBackups(allowed) ==
    Seen({r \in records : r.status = "active"}
           \cup Newest({r \in records : r.status # "active"}, RecentTasks), allowed)

\* list_task_backups_for_run
RunBackups(i, allowed) == IF i \in DOMAIN runs THEN Seen(RecordsOf(i), allowed) ELSE {}

\* get_recent_task_tracking_payload: the latest run with something to see, or
\* else the latest record
RecentTracking(allowed) ==
    LET recent == {i \in DOMAIN runs : Cardinality({k \in DOMAIN runs : k > i}) < RecentTasks
                                       /\ RunBackups(i, allowed) # {}}
        alone  == Seen(Newest(records, RecentTasks), allowed) IN
    IF recent # {} THEN RunBackups(CHOOSE i \in recent : \A k \in recent : k <= i, allowed)
    ELSE Newest(alone, 1)

-----------------------------------------------------------------------------
\* The dashboard.

\* get_dashboard_summary: what is not a success is counted as failed
DashboardSummary ==
    LET total == {r \in records : r.at >= aged}
        good  == {r \in total : r.status = "succeeded"} IN
    [total |-> Cardinality(total), success |-> Cardinality(good),
     fail |-> Cardinality(total) - Cardinality(good)]

\* get_backup_trend_stats: one bucket for each period
BackupTrend ==
    [t \in 0..aged |->
        [success |-> Cardinality({r \in records : r.at = t /\ r.status = "succeeded"}),
         fail    |-> Cardinality({r \in records : r.at = t /\ r.status = "failed"})]]

\* get_group_health_stats: the groups with records, by the devices in them
GroupHealth ==
    LET of(g) == {r \in records : r.device \in DOMAIN devices /\ devices[r.device].group = g} IN
    [g \in {g \in DOMAIN tree : of(g) # {}} |->
        [total |-> Cardinality(of(g)),
         success |-> Cardinality({r \in of(g) : r.status = "succeeded"})]]

-----------------------------------------------------------------------------
Accesses == {AllowedGroups(list) : list \in AccessLists}

SumOf(f) == MapThenSumSet(LAMBDA x : f[x], DOMAIN f)

\* The windows 1..total pages cut S without a gap, a repetition or an empty page.
Paged(S, total, Page(_, _)) ==
    \A limit \in PageSizes :
        LET last == TotalPages(total, limit)
            shown == [page \in 1..last |-> Page(page, limit)] IN
        /\ UNION Range(shown) = S
        /\ SumOf([page \in 1..last |-> Cardinality(shown[page])]) = Cardinality(S)
        /\ S # {} => shown[last] # {}

\* What a query filters is what the check of each single device would let pass.
PagesAgree ==
    /\ \A d \in DOMAIN devices :
        LET Page(page, limit) == DeviceBackups(d, page, limit) IN
        Paged({r \in records : r.device = d}, BackupPageRows(Unlimited)[d], Page)
    /\ \A allowed \in Accesses :
        LET visible == {d \in DOMAIN devices : MayAccess(d, allowed)} IN
        /\ \A g \in DOMAIN tree \cup {None} :
             LET named == IF g = None THEN visible ELSE visible \cap Resolve({g})
                 Page(page, limit) == SearchDevices(allowed, g, page, limit) IN
             /\ Paged(named, CountDevices(allowed, g), Page)
             /\ ReachabilityTargets({}, allowed, g) = named
        /\ \A latestOnly \in BOOLEAN :
             LET Page(page, limit) == SearchConfig(allowed, latestOnly, page, limit) IN
             Paged(IF latestOnly THEN UNION {Kept(d) : d \in visible}
                                 ELSE UNION {Succeeded(d) : d \in visible},
                   CountConfigs(allowed, latestOnly), Page)
        /\ DOMAIN BackupPageRows(allowed) = visible

\* The tree, the paths and the counts of the schedule form agree with what the
\* schedule would back up, as long as the tree is sound (TreeIsSound).
GroupsAgree ==
    "tree" \notin overlap /\ ForeignKey =>
        /\ FlatTree = DOMAIN tree
        /\ \A g \in DOMAIN tree : DisplayPath(g) = tree[g].path /\ ParentChain(g) = tree[g].path
        /\ TargetGroups(Unlimited) = [g \in DOMAIN tree |-> Cardinality(Resolve({g}))]
        /\ \A allowed \in Accesses \ {Unlimited} : \A g \in allowed \cap DOMAIN tree :
             Cardinality(Preview({g}, allowed)) = TargetGroups(allowed)[g]

\* The task panel shows a limited user his own devices' active records, all of
\* them, and nothing of another's; the counts of a schedule and of the
\* dashboard add up, but for what is active.
RecordsAgree ==
    /\ \A allowed \in Accesses :
         LET mine == {r \in records : r.device \in DOMAIN devices /\ MayAccess(r.device, allowed)}
             panel == TaskBackups(allowed)
             recent == RecentTracking(allowed) IN
         /\ {r \in mine : r.status = "active"} \subseteq panel
         /\ panel \cup recent \subseteq mine
         /\ recent = {} =>
               \A r \in mine : Cardinality({q \in records : NewerFirst(q, r)}) >= RecentTasks
    /\ \A x \in DOMAIN schedules :
         LET ended == StatsRecords(x) IN
         /\ SumOf(TotalByGroup(x)) = Cardinality(ended)
         /\ DOMAIN FailByDevice(x) \cup {r.device : r \in {r \in ended : r.status = "succeeded"}}
              = {r.device : r \in ended}
    /\ LET summary == DashboardSummary
           today == BackupTrend[aged] IN
       /\ summary.success = today.success
       /\ summary.fail = today.fail + Cardinality({r \in records : r.at = aged /\ r.status = "active"})
    /\ \A row \in Range(GroupHealth) : row.success <= row.total

\* What is computed twice comes out the same: each page and its count, the
\* query and the check of a user's access, the tree by parents and by paths,
\* the preview of a schedule's targets and what it backs up, the counts of the
\* dashboard.  Views read committed rows only, so it is enough to look when
\* no request is open.  (crud.py, device_service, schedule_service,
\* backup_service, pagination_service)
ViewsAgree == (\A s \in Session : tx[s] = Idle) => PagesAgree /\ GroupsAgree /\ RecordsAgree
=============================================================================

------------------------- MODULE AdministrationProofs -------------------------
(***************************************************************************)
(* What the handlers of the web process keep, for every number of sessions *)
(* and requests, every form and file, and every sound database to start    *)
(* from: a race is the only way to lose it.                                *)
(***************************************************************************)
EXTENDS Administration, FiniteSetTheorems, SequenceTheorems, WellFoundedInduction, TLAPS

-----------------------------------------------------------------------------
(* Sessions. *)

\* Only session s goes on, from one of ops (or from nothing) to the same one, or to
\* nothing; a new request finds the races it is exposed to noted.
Touches(s, ops) ==
    /\ DOMAIN tx' = Session /\ \A t \in Session \ {s} : tx'[t] = tx[t]
    /\ tx[s].op \in ops \cup {"none"} /\ tx'[s].op \in ops \cup {"none"}
    /\ overlap \subseteq overlap' /\ ids \subseteq ids'
    /\ \/ tx'[s].op \in {tx[s].op, "none"}
       \/ \A t \in Session \ {s} : Raced(tx'[s].op, tx[t].op) \subseteq overlap'

LEMMA IdleOp == Idle.op = "none"
BY DEF Idle

LEMMA Starting ==
    ASSUME DOMAIN tx = Session, NEW s \in Session, NEW r, NEW new, OpensTaking(s, r, new),
           NEW ops, r.op \in ops
    PROVE  /\ Touches(s, ops) /\ tx'[s] = r /\ tx[s] = Idle /\ ids' = ids \cup new
<1>1. tx' = [tx EXCEPT ![s] = r] /\ tx[s] = Idle /\ ids' = ids \cup new
  BY DEF OpensTaking
<1>2. DOMAIN tx' = Session /\ tx'[s] = r /\ \A t \in Session \ {s} : tx'[t] = tx[t]
  BY <1>1
<1>3. overlap' = overlap \cup UNION {Raced(r.op, tx[t].op) : t \in Session}
  BY DEF OpensTaking
<1>4. overlap \subseteq overlap' /\ \A t \in Session : Raced(r.op, tx[t].op) \subseteq overlap'
  BY <1>3
<1> QED
  BY <1>1, <1>2, <1>4, IdleOp DEF Touches

LEMMA Opened ==
    ASSUME DOMAIN tx = Session, NEW s \in Session, NEW r, NEW new, OpensTaking(s, r, new)
    PROVE  tx'[s] = r /\ tx[s] = Idle /\ tx[s].op = "none" /\ ids' = ids \cup new
BY IdleOp DEF OpensTaking

LEMMA GoingOn ==
    ASSUME DOMAIN tx = Session, NEW s \in Session, NEW r, Continues(s, r),
           NEW ops, tx[s].op \in ops, r.op \in {tx[s].op, "none"}
    PROVE  /\ Touches(s, ops) /\ tx'[s] = r /\ overlap' = overlap /\ ids' = ids
BY DEF Continues, Touches

LEMMA Closing ==
    ASSUME DOMAIN tx = Session, NEW s \in Session, Closes(s), NEW ops, tx[s].op \in ops
    PROVE  /\ Touches(s, ops) /\ tx'[s] = Idle /\ overlap' = overlap /\ ids' = ids
BY GoingOn, IdleOp DEF Closes

\* The races of two handlers.
LEMMA RacesOf ==
    ASSUME NEW a, NEW b
    PROVE  /\ Raced(a, b) = Raced(b, a)
           /\ Raced("none", b) = {}
           /\ "tree" \in Raced("moveGroup", "moveGroup") /\ "tree" \in Raced("moveGroup", "createGroup")
           /\ "orphan" \in Raced("deleteGroup", "moveGroup") /\ "orphan" \in Raced("deleteGroup", "createGroup")
           /\ "credential" \in Raced("deleteCredential", "saveDevices")
           /\ "credential" \in Raced("deleteCredential", "import")
           /\ "device" \in Raced("deleteDevices", "plan")
           /\ "schedule" \in Raced("deleteSchedule", "plan")
           /\ "channel" \in Raced("deleteChannel", "savePolicy")
           /\ "channel" \in Raced("deleteChannel", "deleteChannel")
           /\ "role" \in Raced("renameRole", "saveUser") /\ "role" \in Raced("renameRole", "renameRole")
           /\ "role" \in Raced("deleteRole", "saveUser") /\ "role" \in Raced("deleteRole", "renameRole")
           /\ a \in ScheduleOps /\ b \in ScheduleOps => "reload" \in Raced(a, b)
           /\ a \in RoleOps /\ b \in RoleOps => "cache" \in Raced(a, b)
<1>1. \A r \in DOMAIN Races : <<a, b>> \in Races[r] <=> <<b, a>> \in Races[r]
  BY DEF Races, Pairs, ScheduleOps, RoleOps
<1>2. \A r \in DOMAIN Races : <<"none", b>> \notin Races[r]
  BY DEF Races, Pairs, ScheduleOps, RoleOps
<1> QED
  BY <1>1, <1>2 DEF Raced, Races, Pairs

\* Every race two open requests were exposed to is noted.
RacesNoted ==
    \A t \in Session : \A u \in Session \ {t} : Raced(tx[t].op, tx[u].op) \subseteq overlap

SessionsInv == DOMAIN tx = Session /\ RacesNoted

LEMMA RacesStayNoted ==
    ASSUME SessionsInv, NEW s \in Session, NEW ops, Touches(s, ops)
    PROVE  SessionsInv'
<1>1. ASSUME NEW t \in Session, NEW u \in Session \ {t}
      PROVE  Raced(tx'[t].op, tx'[u].op) \subseteq overlap'
  <2>1. CASE t # s /\ u # s
    BY <2>1 DEF SessionsInv, RacesNoted, Touches
  <2>2. CASE tx'[s].op = "none" /\ (t = s \/ u = s)
    BY <2>2, RacesOf
  <2>3. CASE tx'[s].op = tx[s].op
    BY <2>3 DEF SessionsInv, RacesNoted, Touches
  <2>4. CASE \A v \in Session \ {s} : Raced(tx'[s].op, tx[v].op) \subseteq overlap'
    <3>1. CASE t = s
      BY <2>4, <3>1 DEF Touches
    <3>2. CASE u = s
      BY <2>4, <3>2, RacesOf DEF Touches
    <3> QED
      BY <2>1, <3>1, <3>2
  <2> QED
    BY <2>1, <2>2, <2>3, <2>4 DEF Touches
<1> QED
  BY <1>1 DEF SessionsInv, RacesNoted, Touches

\* A step of others: no session comes to hold, or holds otherwise, one of ops.
Quiet(ops) ==
    /\ overlap \subseteq overlap' /\ ids \subseteq ids'
    /\ \A t \in Session : tx'[t] = tx[t] \/ tx'[t].op \notin ops

LEMMA OthersQuiet ==
    ASSUME NEW s \in Session, NEW A, NEW B, Touches(s, A), A \cap B = {}, "none" \notin B
    PROVE  Quiet(B)
BY DEF Touches, Quiet

-----------------------------------------------------------------------------
(* The steps, by the tables they may write. *)

GroupOps == {"createGroup", "moveGroup", "deleteGroup"}
DeviceOps == {"saveDevices", "import"}

GroupStep(s) ==
    /\ \/ \E g \in Group, p \in Group \cup {None} : CreateGroup(s, g, p) \/ MoveGroup(s, g, p)
       \/ \E g \in Group : DeleteGroup(s, g)
       \/ FlushMove(s) \/ CommitGroup(s)
    /\ UNCHANGED <<identityVars, routingVars>>

DeviceStep(s) ==
    /\ \/ \E row \in Forms : \/ \E d \in Device : SaveDevice(s, d, row)
                             \/ \E ds \in Selections, column \in {"group", "credential"} :
                                  BulkUpdate(s, ds, column, row)
       \/ \E file \in Files : Import(s, file)
       \/ CommitDevices(s)
    /\ UNCHANGED <<identityVars, routingVars>>

RemovalStep(s) ==
    /\ \/ \E ds \in Selections \cup {{d} : d \in Device} : DeleteDevices(s, ds)
       \/ CommitDeleteDevices(s)
    /\ UNCHANGED <<identityVars, routingVars>>

CredentialStep(s) ==
    /\ \/ \E c \in Credential : CreateCredential(c) \/ DeleteCredential(s, c)
       \/ CommitDeleteCredential(s)
    /\ tx[s].op \in {"none", "deleteCredential"}
    /\ UNCHANGED <<identityVars, routingVars>>

ScheduleStep(s) ==
    /\ \/ \E x \in Schedule : \/ \E on \in BOOLEAN, targets \in TargetChoices : SaveSchedule(s, x, on, targets)
                              \/ ToggleSchedule(s, x) \/ DeleteSchedule(s, x)
       \/ CommitSchedule(s) \/ ReadJobs(s) \/ RemoveJobs(s) \/ AddJobs(s) \/ ReloadFails(s)
    /\ UNCHANGED <<identityVars, routingVars>>

BackupStep(s) ==
    /\ BackupRequest(s) \/ CommitRun(s) \/ CommitRecords(s)
    /\ UNCHANGED <<identityVars, routingVars>>

RollbackStep(s) == Rollback(s) /\ UNCHANGED <<identityVars, routingVars>>

RoleStep(s) ==
    /\ (Open(s, "identity") /\ IdentityRequest(s)) \/ IdentityCommit(s)
    /\ UNCHANGED <<inventoryVars, routingVars>>

UserStep == (\E u \in User : DeleteUser(u)) /\ UNCHANGED <<inventoryVars, routingVars>>

RoutingStep(s) ==
    /\ (Open(s, "routing") /\ RoutingRequest(s)) \/ RoutingCommit(s)
    /\ UNCHANGED <<inventoryVars, identityVars>>

RunStep == InventoryElsewhere /\ UNCHANGED <<identityVars, routingVars>>

LEMMA StepKinds ==
    ASSUME Next
    PROVE  \/ \E s \in Session : GroupStep(s)
           \/ \E s \in Session : DeviceStep(s)
           \/ \E s \in Session : RemovalStep(s)
           \/ \E s \in Session : CredentialStep(s)
           \/ \E s \in Session : ScheduleStep(s)
           \/ \E s \in Session : BackupStep(s)
           \/ \E s \in Session : RollbackStep(s)
           \/ \E s \in Session : RoleStep(s)
           \/ \E s \in Session : RoutingStep(s)
           \/ UserStep \/ RunStep \/ Restart
<1>1. ASSUME NEW s \in Session, Open(s, "inventory"), InventoryRequest(s), UNCHANGED <<identityVars, routingVars>>
      PROVE  GroupStep(s) \/ DeviceStep(s) \/ RemovalStep(s) \/ CredentialStep(s) \/ ScheduleStep(s)
  <2>1. tx[s].op = "none"
    BY <1>1, IdleOp DEF Open
  <2> QED
    BY <1>1, <2>1 DEF InventoryRequest, GroupStep, DeviceStep, RemovalStep, CredentialStep, ScheduleStep
<1>2. ASSUME NEW s \in Session, InventoryCommit(s), UNCHANGED <<identityVars, routingVars>>
      PROVE  \/ GroupStep(s) \/ DeviceStep(s) \/ RemovalStep(s) \/ CredentialStep(s) \/ ScheduleStep(s)
             \/ BackupStep(s) \/ RollbackStep(s)
  <2>1. CommitDeleteCredential(s) => tx[s].op = "deleteCredential"
    BY DEF CommitDeleteCredential, Ready
  <2> QED
    BY <1>2, <2>1 DEF InventoryCommit, GroupStep, DeviceStep, RemovalStep, CredentialStep, ScheduleStep,
       BackupStep, RollbackStep
<1>3. CASE \E s \in Session : /\ Open(s, "backups") /\ BackupRequest(s)
                              /\ UNCHANGED <<identityVars, routingVars>>
  BY <1>3 DEF BackupStep
<1>4. CASE InventoryElsewhere /\ UNCHANGED <<identityVars, routingVars>>
  BY <1>4 DEF RunStep
<1>5. CASE \E s \in Session : /\ (Open(s, "identity") /\ IdentityRequest(s)) \/ IdentityCommit(s)
                              /\ UNCHANGED <<inventoryVars, routingVars>>
  BY <1>5 DEF RoleStep
<1>6. CASE (\E u \in User : DeleteUser(u)) /\ UNCHANGED <<inventoryVars, routingVars>>
  BY <1>6 DEF UserStep
<1>7. CASE \E s \in Session : /\ (Open(s, "routing") /\ RoutingRequest(s)) \/ RoutingCommit(s)
                              /\ UNCHANGED <<inventoryVars, identityVars>>
  BY <1>7 DEF RoutingStep
<1> QED
  BY <1>1, <1>2, <1>3, <1>4, <1>5, <1>6, <1>7, Zenon DEF Next

LEMMA GroupFrame ==
    ASSUME SessionsInv, NEW s \in Session, GroupStep(s)
    PROVE  /\ Touches(s, GroupOps)
           /\ UNCHANGED <<devices, credentials, schedules, jobs, runs, records, aged, identityVars, routingVars>>
<1>1. ASSUME NEW g, NEW p, CreateGroup(s, g, p) \/ MoveGroup(s, g, p) \/ DeleteGroup(s, g)
      PROVE  Touches(s, GroupOps) /\ UNCHANGED inventoryVars
  <2>1. CASE CreateGroup(s, g, p)
    BY <2>1, Starting DEF SessionsInv, CreateGroup, GroupOps
  <2>2. CASE MoveGroup(s, g, p)
    BY <2>2, Starting DEF SessionsInv, MoveGroup, Opens, GroupOps
  <2>3. CASE DeleteGroup(s, g)
    BY <2>3, Starting DEF SessionsInv, DeleteGroup, Opens, GroupOps
  <2> QED
    BY <1>1, <2>1, <2>2, <2>3
<1>2. ASSUME FlushMove(s)
      PROVE  Touches(s, GroupOps) /\ UNCHANGED inventoryVars
  BY <1>2, GoingOn DEF SessionsInv, FlushMove, GroupOps
<1>3. ASSUME CommitGroup(s)
      PROVE  Touches(s, GroupOps) /\ UNCHANGED <<devices, credentials, schedules, jobs, runs, records, aged>>
  BY <1>3, Closing DEF SessionsInv, CommitGroup, Ready, GroupOps
<1> QED
  BY <1>1, <1>2, <1>3 DEF GroupStep, inventoryVars

LEMMA DeviceFrame ==
    ASSUME SessionsInv, NEW s \in Session, DeviceStep(s)
    PROVE  /\ Touches(s, DeviceOps)
           /\ UNCHANGED <<credentials, schedules, jobs, runs, records, aged, identityVars, routingVars>>
<1>1. ASSUME NEW d, NEW row, SaveDevice(s, d, row)
      PROVE  Touches(s, DeviceOps) /\ UNCHANGED inventoryVars
  BY <1>1, Starting DEF SessionsInv, SaveDevice, Opens, DeviceOps
<1>2. ASSUME NEW ds, NEW column, NEW row, BulkUpdate(s, ds, column, row)
      PROVE  Touches(s, DeviceOps) /\ UNCHANGED inventoryVars
  BY <1>2, Starting DEF SessionsInv, BulkUpdate, Opens, DeviceOps
<1>3. ASSUME NEW file, Import(s, file)
      PROVE  Touches(s, DeviceOps) /\ UNCHANGED inventoryVars
  BY <1>3, Starting DEF SessionsInv, Import, DeviceOps
<1>4. ASSUME CommitDevices(s)
      PROVE  /\ Touches(s, DeviceOps)
             /\ UNCHANGED <<credentials, schedules, jobs, runs, records, aged>>
  BY <1>4, Closing DEF SessionsInv, CommitDevices, Ready, DeviceOps
<1> QED
  BY <1>1, <1>2, <1>3, <1>4 DEF DeviceStep, inventoryVars

LEMMA RemovalFrame ==
    ASSUME SessionsInv, NEW s \in Session, RemovalStep(s)
    PROVE  /\ Touches(s, {"deleteDevices"})
           /\ UNCHANGED <<tree, credentials, jobs, aged, identityVars, routingVars>>
<1>1. ASSUME NEW ds, DeleteDevices(s, ds)
      PROVE  Touches(s, {"deleteDevices"}) /\ UNCHANGED inventoryVars
  BY <1>1, Starting DEF SessionsInv, DeleteDevices, Opens
<1>2. ASSUME CommitDeleteDevices(s)
      PROVE  Touches(s, {"deleteDevices"}) /\ UNCHANGED <<tree, credentials, jobs, aged>>
  BY <1>2, Closing DEF SessionsInv, CommitDeleteDevices, Ready
<1> QED
  BY <1>1, <1>2 DEF RemovalStep, inventoryVars

LEMMA CredentialFrame ==
    ASSUME SessionsInv, NEW s \in Session, CredentialStep(s)
    PROVE  /\ Touches(s, {"deleteCredential"})
           /\ UNCHANGED <<tree, devices, schedules, jobs, runs, records, aged, identityVars, routingVars>>
<1>1. ASSUME NEW c, CreateCredential(c), tx[s].op \in {"none", "deleteCredential"}
      PROVE  /\ Touches(s, {"deleteCredential"})
             /\ UNCHANGED <<tree, devices, schedules, jobs, runs, records, aged>>
  BY <1>1 DEF SessionsInv, CreateCredential, Alone, Touches
<1>2. ASSUME NEW c, DeleteCredential(s, c)
      PROVE  Touches(s, {"deleteCredential"}) /\ UNCHANGED inventoryVars
  BY <1>2, Starting DEF SessionsInv, DeleteCredential, Opens
<1>3. ASSUME CommitDeleteCredential(s)
      PROVE  /\ Touches(s, {"deleteCredential"})
             /\ UNCHANGED <<tree, devices, schedules, jobs, runs, records, aged>>
  BY <1>3, Closing DEF SessionsInv, CommitDeleteCredential, Ready
<1> QED
  BY <1>1, <1>2, <1>3 DEF CredentialStep, inventoryVars

LEMMA ScheduleFrame ==
    ASSUME SessionsInv, NEW s \in Session, ScheduleStep(s)
    PROVE  /\ Touches(s, ScheduleOps)
           /\ UNCHANGED <<tree, devices, credentials, records, aged, identityVars, routingVars>>
<1>1. ASSUME NEW x, NEW on, NEW targets, SaveSchedule(s, x, on, targets)
      PROVE  Touches(s, ScheduleOps) /\ UNCHANGED inventoryVars
  BY <1>1, Starting DEF SessionsInv, SaveSchedule, Opens, ScheduleOps
<1>2. ASSUME NEW x, ToggleSchedule(s, x) \/ DeleteSchedule(s, x)
      PROVE  Touches(s, ScheduleOps) /\ UNCHANGED inventoryVars
  <2>1. CASE ToggleSchedule(s, x)
    BY <2>1, Starting DEF SessionsInv, ToggleSchedule, Opens, ScheduleOps
  <2>2. CASE DeleteSchedule(s, x)
    BY <2>2, Starting DEF SessionsInv, DeleteSchedule, Opens, ScheduleOps
  <2> QED
    BY <1>2, <2>1, <2>2
<1>3. ASSUME CommitSchedule(s)
      PROVE  Touches(s, ScheduleOps) /\ UNCHANGED <<tree, devices, credentials, records, aged>>
  <2>1. tx[s].op \in ScheduleOps
    BY <1>3 DEF CommitSchedule, Ready, ScheduleOps
  <2> QED
    BY <1>3, <2>1, GoingOn DEF SessionsInv, CommitSchedule
<1>4. ASSUME ReadJobs(s) \/ RemoveJobs(s) \/ AddJobs(s)
      PROVE  Touches(s, ScheduleOps) /\ UNCHANGED <<tree, devices, credentials, records, aged>>
  <2>1. CASE ReadJobs(s)
    BY <2>1, GoingOn DEF SessionsInv, ReadJobs, inventoryVars
  <2>2. CASE RemoveJobs(s)
    BY <2>2, GoingOn DEF SessionsInv, RemoveJobs
  <2>3. CASE AddJobs(s)
    BY <2>3, Closing DEF SessionsInv, AddJobs
  <2> QED
    BY <1>4, <2>1, <2>2, <2>3
<1>5. ASSUME ReloadFails(s)
      PROVE  Touches(s, ScheduleOps) /\ UNCHANGED inventoryVars
  BY <1>5, IdleOp DEF SessionsInv, ReloadFails, Touches
<1> QED
  BY <1>1, <1>2, <1>3, <1>4, <1>5 DEF ScheduleStep, inventoryVars

LEMMA BackupFrame ==
    ASSUME SessionsInv, NEW s \in Session, BackupStep(s)
    PROVE  /\ Touches(s, BackupOps)
           /\ UNCHANGED <<tree, devices, credentials, schedules, jobs, aged, identityVars, routingVars>>
<1>1. ASSUME NEW x, NEW ds, NEW alone, Plans(s, x, ds, alone)
      PROVE  Touches(s, BackupOps) /\ UNCHANGED inventoryVars
  BY <1>1, Starting DEF SessionsInv, Plans, Opens, BackupOps
<1>2. ASSUME BackupRequest(s)
      PROVE  Touches(s, BackupOps) /\ UNCHANGED inventoryVars
  <2>1. CASE Cleanup(s)
    BY <2>1, Starting DEF SessionsInv, Cleanup, Opens, BackupOps
  <2>2. ASSUME NEW rs, DeleteRecords(s, rs)
        PROVE  Touches(s, BackupOps) /\ UNCHANGED inventoryVars
    BY <2>2, Starting DEF SessionsInv, DeleteRecords, Opens, BackupOps
  <2> QED
    BY <1>1, <1>2, <2>1, <2>2 DEF BackupRequest, Plan, PlanBulk, PlanSingle, Retry
<1>3. ASSUME CommitRun(s) \/ CommitRecords(s)
      PROVE  Touches(s, BackupOps) /\ UNCHANGED <<tree, devices, credentials, schedules, jobs, aged>>
  <2>1. CASE CommitRun(s)
    BY <2>1, Closing DEF SessionsInv, CommitRun, Ready, BackupOps
  <2>2. CASE CommitRecords(s)
    BY <2>2, Closing DEF SessionsInv, CommitRecords, Ready, BackupOps
  <2> QED
    BY <1>3, <2>1, <2>2
<1> QED
  BY <1>2, <1>3 DEF BackupStep, inventoryVars

\* What only ends a request, or every request, leaves the tables alone.
LEMMA RollbackFrame ==
    ASSUME SessionsInv, NEW s \in Session, RollbackStep(s)
    PROVE  /\ Touches(s, {tx[s].op}) /\ tx'[s] = Idle /\ overlap' = overlap /\ ids' = ids
           /\ tx[s].stage \in {"open", "moving"}
           /\ UNCHANGED <<inventoryVars, identityVars, routingVars>>
BY Closing DEF SessionsInv, RollbackStep, Rollback

LEMMA RoleFrame ==
    ASSUME SessionsInv, NEW s \in Session, RoleStep(s)
    PROVE  Touches(s, RoleOps) /\ UNCHANGED <<inventoryVars, routingVars>>
<1>1. ASSUME NEW op \in RoleOps, NEW r, NEW new, OpensRoles(s, op, r, new)
      PROVE  Touches(s, RoleOps)
  BY <1>1, Starting DEF SessionsInv, OpensRoles
<1>2. ASSUME IdentityRequest(s)
      PROVE  Touches(s, RoleOps)
  BY <1>1, <1>2 DEF IdentityRequest, ViewRoles, CreateRole, RenameRole, DeleteRole, SaveUser, RoleOps
<1>3. ASSUME FlushRole(s)
      PROVE  Touches(s, RoleOps)
  BY <1>3, GoingOn DEF SessionsInv, FlushRole, RoleOps
<1>4. ASSUME CommitRoles(s) \/ CommitUser(s)
      PROVE  Touches(s, RoleOps)
  BY <1>4, Closing DEF SessionsInv, CommitRoles, CommitUser, RoleOps
<1>5. ASSUME RollbackRoles(s)
      PROVE  Touches(s, RoleOps)
  BY <1>5, IdleOp DEF SessionsInv, RollbackRoles, Touches
<1> QED
  BY <1>2, <1>3, <1>4, <1>5 DEF RoleStep, IdentityCommit

LEMMA UserFrame ==
    ASSUME UserStep
    PROVE  UNCHANGED <<tx, ids, overlap, roles, cache, inventoryVars, routingVars>>
BY DEF UserStep, DeleteUser, Alone

LEMMA RoutingFrame ==
    ASSUME SessionsInv, NEW s \in Session, RoutingStep(s)
    PROVE  Touches(s, RoutingOps) /\ UNCHANGED <<inventoryVars, identityVars>>
<1>1. ASSUME RoutingRequest(s), tx[s] = Idle
      PROVE  Touches(s, RoutingOps)
  <2>1. ASSUME NEW p, NEW cs, NEW t, SavePolicy(s, p, cs, t)
        PROVE  Touches(s, RoutingOps)
    BY <2>1, Starting DEF SessionsInv, SavePolicy, Opens, RoutingOps
  <2>2. ASSUME NEW c, CreateChannel(c) \/ CreateTemplate(c)
        PROVE  Touches(s, RoutingOps)
    BY <1>1, <2>2, IdleOp DEF SessionsInv, CreateChannel, CreateTemplate, Alone, Touches
  <2>3. ASSUME NEW c, DeleteChannel(s, c)
        PROVE  Touches(s, RoutingOps)
    BY <2>3, Starting DEF SessionsInv, DeleteChannel, Opens, RoutingOps
  <2>4. ASSUME NEW c, DeleteTemplate(s, c)
        PROVE  Touches(s, RoutingOps)
    BY <2>4, Starting DEF SessionsInv, DeleteTemplate, Opens, RoutingOps
  <2>5. ASSUME NEW c, DeletePolicy(s, c)
        PROVE  Touches(s, RoutingOps)
    BY <2>5, Starting DEF SessionsInv, DeletePolicy, Opens, RoutingOps
  <2>6. CASE DispatchEvent(s)
    BY <2>6, Starting DEF SessionsInv, DispatchEvent, Opens, RoutingOps
  <2> QED
    BY <1>1, <2>1, <2>2, <2>3, <2>4, <2>5, <2>6 DEF RoutingRequest
<1>2. ASSUME CommitRouting(s) \/ RollbackRouting(s)
      PROVE  Touches(s, RoutingOps)
  BY <1>2, Closing DEF SessionsInv, CommitRouting, RollbackRouting
<1> QED
  BY <1>1, <1>2 DEF RoutingStep, RoutingCommit, Open

LEMMA RunFrame ==
    ASSUME RunStep
    PROVE  /\ UNCHANGED <<tree, devices, credentials, schedules, jobs, tx, ids, identityVars, routingVars>>
           /\ overlap \subseteq overlap'
           /\ \/ \E i, good : EndRun(i, good)
              \/ runs' = runs /\ records' = records
<1>1. ASSUME NEW i, NEW good, EndRun(i, good)
      PROVE  /\ UNCHANGED <<tree, devices, credentials, schedules, jobs, tx, ids>>
             /\ overlap \subseteq overlap'
  BY <1>1 DEF EndRun
<1>2. CASE Age
  BY <1>2 DEF Age, requestVars, RunStep
<1> QED
  BY <1>1, <1>2 DEF RunStep, InventoryElsewhere

LEMMA RestartFrame ==
    ASSUME Restart
    PROVE  /\ DOMAIN tx' = Session /\ \A s \in Session : tx'[s] = Idle /\ tx'[s].op = "none"
           /\ overlap' = overlap /\ ids \subseteq ids'
           /\ UNCHANGED <<tree, devices, credentials, schedules, runs, records, aged, users, routingVars>>
BY IdleOp DEF Restart, RestartInventory, RestartIdentity

LEMMA SessionsKept ==
    ASSUME SessionsInv, [Next]_vars
    PROVE  SessionsInv'
<1>1. ASSUME NEW s \in Session, NEW ops, Touches(s, ops)
      PROVE  SessionsInv'
  BY <1>1, RacesStayNoted
<1>2. CASE UNCHANGED vars
  BY <1>2 DEF vars, requestVars, SessionsInv, RacesNoted
<1>3. CASE UserStep
  BY <1>3, UserFrame DEF SessionsInv, RacesNoted
<1>4. CASE RunStep
  BY <1>4, RunFrame DEF SessionsInv, RacesNoted
<1>5. CASE Restart
  BY <1>5, RestartFrame, RacesOf DEF SessionsInv, RacesNoted
<1> QED
  BY <1>1, <1>2, <1>3, <1>4, <1>5, StepKinds, GroupFrame, DeviceFrame, RemovalFrame, CredentialFrame,
     ScheduleFrame, BackupFrame, RollbackFrame, RoleFrame, RoutingFrame

-----------------------------------------------------------------------------
(* Devices and their credentials. *)

DeviceColumns == {"group", "credential"}

\* The rows of devices, and the ones sessions hold, have their columns.
DeviceRows ==
    /\ \A d \in DOMAIN devices : DOMAIN devices[d] = DeviceColumns
    /\ \A t \in Session : tx[t].op \in DeviceOps =>
          /\ tx[t].new \subseteq DOMAIN tx[t].set
          /\ \A d \in DOMAIN tx[t].set : DOMAIN tx[t].set[d].row = DeviceColumns

CredentialOps == DeviceOps \cup {"deleteCredential"}

\* Unless raced: a device has a credential that exists, so has a row that is to
\* be written, and a credential to be deleted is in no device.
CredentialInv ==
    "credential" \notin overlap =>
        /\ \A d \in DOMAIN devices : devices[d].credential \in credentials
        /\ \A t \in Session : tx[t].op \in DeviceOps =>
              \A d \in DOMAIN tx[t].set : tx[t].set[d].row.credential \in credentials
        /\ \A t \in Session : tx[t].op = "deleteCredential" =>
              \A d \in DOMAIN devices : devices[d].credential # tx[t].credential

LEMMA CredentialQuiet ==
    ASSUME DeviceRows, CredentialInv, Quiet(CredentialOps), UNCHANGED <<devices, credentials>>
    PROVE  DeviceRows' /\ CredentialInv'
<1>1. DeviceRows'
  BY DEF DeviceRows, Quiet, CredentialOps, DeviceOps
<1>2. CredentialInv'
  BY DEF CredentialInv, Quiet, CredentialOps, DeviceOps
<1> QED
  BY <1>1, <1>2

\* A request that is to write these rows.
LEMMA DevicesHeld ==
    ASSUME SessionsInv, DeviceRows, CredentialInv, NEW s \in Session, Touches(s, DeviceOps),
           UNCHANGED <<devices, credentials>>, tx[s].op = "none",
           tx'[s].new \subseteq DOMAIN tx'[s].set,
           \A d \in DOMAIN tx'[s].set : DOMAIN tx'[s].set[d].row = DeviceColumns,
           "credential" \notin overlap =>
               \A d \in DOMAIN tx'[s].set : tx'[s].set[d].row.credential \in credentials
    PROVE  DeviceRows' /\ CredentialInv'
<1>1. DeviceRows'
  BY DEF DeviceRows, Touches
<1>2. CredentialInv'
  BY DEF CredentialInv, Touches, DeviceOps
<1> QED
  BY <1>1, <1>2

LEMMA DevicesWritten ==
    ASSUME SessionsInv, SessionsInv', DeviceRows, CredentialInv, NEW s \in Session, CommitDevices(s),
           Touches(s, DeviceOps), tx'[s] = Idle, tx'[s].op = "none", overlap' = overlap
    PROVE  DeviceRows' /\ CredentialInv'
<1> DEFINE set == tx[s].set
<1>1. /\ tx[s].op \in DeviceOps /\ credentials' = credentials
      /\ DOMAIN devices' = DOMAIN devices \cup DOMAIN set
      /\ \A d \in DOMAIN devices' :
            devices'[d] = IF d \in tx[s].new THEN set[d].row
                          ELSE IF d \in DOMAIN set THEN Updated(devices[d], set[d].columns, set[d].row)
                          ELSE devices[d]
      /\ DOMAIN set \cap DOMAIN devices = DOMAIN set \ tx[s].new
  BY DEF CommitDevices, Ready, DeviceOps
<1>2. ASSUME NEW d \in DOMAIN devices'
      PROVE  /\ DOMAIN devices'[d] = DeviceColumns
             /\ \/ d \in DOMAIN set /\ devices'[d].credential = set[d].row.credential
                \/ d \in DOMAIN devices /\ devices'[d].credential = devices[d].credential
  <2>1. d \in DOMAIN set => DOMAIN set[d].row = DeviceColumns
    BY <1>1 DEF DeviceRows
  <2>2. d \in DOMAIN devices => DOMAIN devices[d] = DeviceColumns
    BY DEF DeviceRows
  <2>3. CASE d \in DOMAIN set /\ d \in tx[s].new
    BY <1>1, <2>1, <2>3
  <2>4. CASE d \in DOMAIN set /\ d \notin tx[s].new
    <3>1. d \in DOMAIN devices /\ devices'[d] = Updated(devices[d], set[d].columns, set[d].row)
      BY <1>1, <2>4
    <3>2. DOMAIN devices[d] = DeviceColumns /\ "credential" \in DeviceColumns
      BY <2>2, <3>1 DEF DeviceColumns
    <3>3. /\ DOMAIN devices'[d] = DeviceColumns
          /\ devices'[d].credential \in {set[d].row.credential, devices[d].credential}
      BY <3>1, <3>2 DEF Updated
    <3> QED
      BY <2>4, <3>1, <3>3
  <2>5. CASE d \notin DOMAIN set
    <3>1. d \in DOMAIN devices
      BY <1>1, <2>5
    <3>2. d \notin tx[s].new
      BY <1>1, <2>5 DEF DeviceRows
    <3> QED
      BY <1>1, <2>2, <2>5, <3>1, <3>2
  <2> QED
    BY <2>3, <2>4, <2>5
<1>3. DeviceRows'
  BY <1>2, IdleOp DEF DeviceRows, Touches, DeviceOps
<1>4. ASSUME "credential" \notin overlap
      PROVE  CredentialInv'
  <2>1. ASSUME NEW t \in Session, tx[t].op = "deleteCredential"
        PROVE  FALSE
    <3>1. t # s /\ "credential" \in Raced(tx[t].op, tx[s].op)
      BY <1>1, <2>1, RacesOf DEF DeviceOps
    <3> QED
      BY <1>4, <3>1 DEF SessionsInv, RacesNoted
  <2>2. \A d \in DOMAIN devices' : devices'[d].credential \in credentials
    BY <1>1, <1>2, <1>4 DEF CredentialInv
  <2> QED
    BY <1>1, <1>4, <2>1, <2>2 DEF CredentialInv, Touches, DeviceOps
<1> QED
  BY <1>3, <1>4 DEF CredentialInv

LEMMA CredentialKept ==
    ASSUME SessionsInv, SessionsInv', [Next]_vars, DeviceRows, CredentialInv
    PROVE  DeviceRows' /\ CredentialInv'
<1> "none" \notin CredentialOps
  BY DEF CredentialOps, DeviceOps
<1>1. ASSUME NEW s \in Session, NEW ops, Touches(s, ops), ops \cap CredentialOps = {},
             UNCHANGED <<devices, credentials>>
      PROVE  DeviceRows' /\ CredentialInv'
  BY <1>1, OthersQuiet, CredentialQuiet
<1>2. ASSUME NEW s \in Session, DeviceStep(s)
      PROVE  DeviceRows' /\ CredentialInv'
  <2>1. Touches(s, DeviceOps) /\ credentials' = credentials
    BY <1>2, DeviceFrame
  <2>2. ASSUME NEW d, NEW row \in Forms, SaveDevice(s, d, row)
        PROVE  DeviceRows' /\ CredentialInv'
    <3>1. /\ tx'[s].set = Only(d, Written(d, row)) /\ tx'[s].new = {d} \ DOMAIN devices
          /\ tx[s].op = "none" /\ UNCHANGED inventoryVars /\ row.credential \in credentials
      BY <2>2, Opened DEF SaveDevice, Opens, SessionsInv
    <3>2. DOMAIN row = DeviceColumns
      BY InventoryAssumption DEF DeviceColumns
    <3>3. DOMAIN tx'[s].set = {d} /\ tx'[s].set[d].row = row
      BY <3>1 DEF Only, Written
    <3> QED
      BY <2>1, <3>1, <3>2, <3>3, DevicesHeld DEF inventoryVars
  <2>3. ASSUME NEW ds, NEW column \in {"group", "credential"}, NEW row \in Forms, BulkUpdate(s, ds, column, row)
        PROVE  DeviceRows' /\ CredentialInv'
    <3> DEFINE set == [d \in ds \cap DOMAIN devices |->
                         Written(d, [devices[d] EXCEPT ![column] = row[column]])]
               request == [op |-> "saveDevices", stage |-> "open", new |-> {}, set |-> set]
    <3>a. OpensTaking(s, request, {}) /\ UNCHANGED inventoryVars
      BY <2>3 DEF BulkUpdate, Opens
    <3>b. request.set = set /\ request.new = {}
      OBVIOUS
    <3>c. \A d \in DOMAIN set : /\ d \in DOMAIN devices
                              /\ set[d].row = [devices[d] EXCEPT ![column] = row[column]]
      BY DEF Written
    <3> HIDE DEF set, request
    <3>1. /\ tx'[s].set = set /\ tx'[s].new = {} /\ tx[s].op = "none" /\ UNCHANGED inventoryVars
          /\ column = "credential" => row.credential \in credentials
      BY <2>3, <3>a, <3>b, Opened DEF SessionsInv, BulkUpdate
    <3>2. ASSUME NEW d \in DOMAIN tx'[s].set
          PROVE  /\ DOMAIN tx'[s].set[d].row = DeviceColumns
                 /\ tx'[s].set[d].row.credential \in {devices[d].credential} \cup credentials
                 /\ d \in DOMAIN devices
      <4>1. d \in DOMAIN devices /\ tx'[s].set[d].row = [devices[d] EXCEPT ![column] = row[column]]
        BY <3>1, <3>c
      <4>2. DOMAIN devices[d] = DeviceColumns /\ "credential" \in DeviceColumns
        BY <4>1 DEF DeviceRows, DeviceColumns
      <4>3. CASE column = "credential"
        BY <3>1, <4>1, <4>2, <4>3
      <4>4. CASE column = "group"
        BY <4>1, <4>2, <4>4
      <4> QED
        BY <4>3, <4>4
    <3>3. "credential" \notin overlap => \A d \in DOMAIN tx'[s].set : tx'[s].set[d].row.credential \in credentials
      BY <3>2 DEF CredentialInv
    <3>4. \A d \in DOMAIN tx'[s].set : DOMAIN tx'[s].set[d].row = DeviceColumns
      BY <3>2
    <3> QED
      BY <2>1, <3>1, <3>3, <3>4, DevicesHeld DEF inventoryVars
  <2>4. ASSUME NEW file, Import(s, file)
        PROVE  DeviceRows' /\ CredentialInv'
    <3> DEFINE rows == IF file.mode = "insert" THEN file.devices \ DOMAIN devices ELSE file.devices
               row == [group |-> file.group, credential |-> file.credential]
    <3>1. /\ tx'[s].set = [d \in rows |-> Written(d, row)] /\ tx'[s].new = rows \ DOMAIN devices
          /\ tx[s].op = "none" /\ UNCHANGED inventoryVars /\ file.credential \in credentials
      BY <2>4, Opened DEF Import, SessionsInv
    <3>2. DOMAIN row = DeviceColumns /\ row.credential = file.credential
      BY DEF DeviceColumns
    <3>3. \A d \in DOMAIN tx'[s].set : tx'[s].set[d].row = row
      BY <3>1 DEF Written
    <3>4. tx'[s].new \subseteq DOMAIN tx'[s].set
      BY <3>1
    <3> HIDE DEF rows, row
    <3> QED
      BY <2>1, <3>1, <3>2, <3>3, <3>4, DevicesHeld DEF inventoryVars
  <2>5. CASE CommitDevices(s)
    <3>1. tx'[s] = Idle /\ overlap' = overlap
      BY <2>5, Closing DEF CommitDevices, Ready, SessionsInv
    <3> QED
      BY <2>1, <2>5, <3>1, IdleOp, DevicesWritten
  <2> QED
    BY <1>2, <2>2, <2>3, <2>4, <2>5 DEF DeviceStep
<1>3. ASSUME NEW s \in Session, RemovalStep(s)
      PROVE  DeviceRows' /\ CredentialInv'
  <2>1. Touches(s, {"deleteDevices"}) /\ credentials' = credentials
    BY <1>3, RemovalFrame
  <2>2. CASE devices' = devices
    BY <1>1, <2>1, <2>2 DEF CredentialOps, DeviceOps
  <2>3. CASE CommitDeleteDevices(s)
    <3>1. Quiet(CredentialOps)
      BY <2>1, OthersQuiet DEF CredentialOps, DeviceOps
    <3>2. DOMAIN devices' \subseteq DOMAIN devices /\ \A d \in DOMAIN devices' : devices'[d] = devices[d]
      BY <2>3 DEF CommitDeleteDevices, Restrict
    <3>3. DeviceRows'
      BY <3>1, <3>2 DEF DeviceRows, Quiet, CredentialOps, DeviceOps
    <3>4. CredentialInv'
      BY <2>1, <3>1, <3>2 DEF CredentialInv, Quiet, CredentialOps, DeviceOps
    <3> QED
      BY <3>3, <3>4
  <2> QED
    BY <1>3, <2>2, <2>3 DEF RemovalStep, DeleteDevices, inventoryVars
<1>4. ASSUME NEW s \in Session, CredentialStep(s)
      PROVE  DeviceRows' /\ CredentialInv'
  <2>1. Touches(s, {"deleteCredential"}) /\ devices' = devices
    BY <1>4, CredentialFrame
  <2>2. DeviceRows'
    BY <2>1 DEF DeviceRows, Touches, DeviceOps
  <2>3. ASSUME NEW c, CreateCredential(c)
        PROVE  CredentialInv'
    BY <2>1, <2>3 DEF CreateCredential, Alone, CredentialInv
  <2>4. ASSUME NEW c, DeleteCredential(s, c)
        PROVE  CredentialInv'
    <3>1. tx'[s].op = "deleteCredential" /\ tx'[s].credential = c /\ credentials' = credentials
      BY <2>4, Opened DEF DeleteCredential, Opens, SessionsInv, inventoryVars
    <3>2. \A d \in DOMAIN devices : devices[d].credential # c
      BY <2>4 DEF DeleteCredential, UsedCredentials
    <3> QED
      BY <2>1, <3>1, <3>2 DEF CredentialInv, Touches, DeviceOps
  <2>5. CASE CommitDeleteCredential(s)
    <3>1. tx'[s] = Idle /\ tx[s].op = "deleteCredential" /\ credentials' = credentials \ {tx[s].credential}
      BY <2>5, Closing DEF CommitDeleteCredential, Ready, SessionsInv
    <3>2. ASSUME "credential" \notin overlap, NEW t \in Session, tx[t].op \in DeviceOps
          PROVE  FALSE
      <4>1. t # s /\ "credential" \in Raced(tx[s].op, tx[t].op)
        BY <3>1, <3>2, RacesOf DEF DeviceOps
      <4> QED
        BY <3>2, <4>1 DEF SessionsInv, RacesNoted
    <3>3. ASSUME "credential" \notin overlap'
          PROVE  /\ \A d \in DOMAIN devices : devices[d].credential \in credentials'
                 /\ \A t \in Session : tx'[t].op \notin DeviceOps
      BY <2>1, <3>1, <3>2, <3>3, IdleOp DEF CredentialInv, Touches, DeviceOps
    <3> QED
      BY <2>1, <2>2, <3>1, <3>3, IdleOp DEF CredentialInv, Touches
  <2> QED
    BY <1>4, <2>2, <2>3, <2>4, <2>5 DEF CredentialStep
<1>5. CASE UNCHANGED vars \/ UserStep \/ RunStep
  <2>1. UNCHANGED <<tx, devices, credentials>> /\ overlap \subseteq overlap' /\ ids' = ids
    BY <1>5, UserFrame, RunFrame DEF vars, requestVars, inventoryVars
  <2> QED
    BY <2>1, CredentialQuiet DEF Quiet
<1>6. CASE Restart
  BY <1>6, RestartFrame, CredentialQuiet DEF Quiet
<1>7. ASSUME NEW s \in Session, RollbackStep(s)
      PROVE  DeviceRows' /\ CredentialInv'
  <2>1. Quiet(CredentialOps) /\ UNCHANGED <<devices, credentials>>
    BY <1>7, RollbackFrame, IdleOp DEF Quiet, Touches, inventoryVars
  <2> QED
    BY <2>1, CredentialQuiet
<1>8. ASSUME NEW s \in Session, GroupStep(s) \/ ScheduleStep(s) \/ BackupStep(s) \/ RoleStep(s) \/ RoutingStep(s)
      PROVE  DeviceRows' /\ CredentialInv'
  <2>1. CASE GroupStep(s)
    BY <1>1, <2>1, GroupFrame DEF GroupOps, CredentialOps, DeviceOps
  <2>2. CASE ScheduleStep(s)
    BY <1>1, <2>2, ScheduleFrame DEF ScheduleOps, CredentialOps, DeviceOps
  <2>3. CASE BackupStep(s)
    BY <1>1, <2>3, BackupFrame DEF BackupOps, CredentialOps, DeviceOps
  <2>4. CASE RoleStep(s)
    BY <1>1, <2>4, RoleFrame DEF RoleOps, CredentialOps, DeviceOps, inventoryVars
  <2>5. CASE RoutingStep(s)
    BY <1>1, <2>5, RoutingFrame DEF RoutingOps, CredentialOps, DeviceOps, inventoryVars
  <2> QED
    BY <1>8, <2>1, <2>2, <2>3, <2>4, <2>5
<1> QED
  BY <1>2, <1>3, <1>4, <1>5, <1>6, <1>7, <1>8, StepKinds

-----------------------------------------------------------------------------
(* Records and their devices, runs and their schedules. *)

RecordRows == \A r \in records : DOMAIN r = {"run", "device", "status", "at"}
RunRows == \A i \in DOMAIN runs : DOMAIN runs[i] = {"schedule", "open", "at"}

\* Unless raced: the device of a record exists, and so do the devices of a plan.
DeviceInv ==
    "device" \notin overlap =>
        /\ \A r \in records : r.device \in DOMAIN devices
        /\ \A t \in Session : tx[t].op = "plan" => tx[t].devices \subseteq DOMAIN devices

\* Unless raced: the schedule of a run exists, and so does the schedule of a plan.
ScheduleInv ==
    "schedule" \notin overlap =>
        /\ \A i \in DOMAIN runs : runs[i].schedule \in DOMAIN schedules \cup {None}
        /\ \A t \in Session : tx[t].op = "plan" => tx[t].schedule \in DOMAIN schedules \cup {None}

RunsInv == RecordRows /\ RunRows /\ DeviceInv /\ ScheduleInv

\* Fewer runs and records, and no fewer devices and schedules.
LEMMA RunsQuiet ==
    ASSUME RunsInv, Quiet({"plan"}), DOMAIN devices \subseteq DOMAIN devices', DOMAIN schedules \subseteq DOMAIN schedules',
           records' \subseteq records, DOMAIN runs' \subseteq DOMAIN runs,
           \A i \in DOMAIN runs' : runs'[i] = runs[i]
    PROVE  RunsInv'
<1>1. RecordRows' /\ RunRows'
  BY DEF RunsInv, RecordRows, RunRows
<1>2. DeviceInv'
  BY DEF RunsInv, DeviceInv, Quiet
<1>3. ScheduleInv'
  BY DEF RunsInv, ScheduleInv, Quiet
<1> QED
  BY <1>1, <1>2, <1>3 DEF RunsInv

LEMMA PrunedRuns ==
    ASSUME NEW candidates, NEW left
    PROVE  /\ DOMAIN Pruned(candidates, left) \subseteq DOMAIN runs
           /\ \A i \in DOMAIN Pruned(candidates, left) : Pruned(candidates, left)[i] = runs[i]
BY DEF Pruned, Restrict

LEMMA RunPlanned ==
    ASSUME SessionsInv, RunsInv, NEW s \in Session, NEW x, NEW ds, NEW alone, Plans(s, x, ds, alone),
           "device" \notin overlap => ds \subseteq DOMAIN devices,
           "schedule" \notin overlap => x \in DOMAIN schedules \cup {None}
    PROVE  RunsInv'
<1>1. /\ tx'[s].op = "plan" /\ tx'[s].schedule = x /\ tx'[s].devices = ds
      /\ UNCHANGED inventoryVars
  BY Opened DEF Plans, Opens, SessionsInv
<1>2. Touches(s, BackupOps)
  BY Starting DEF SessionsInv, Plans, Opens, BackupOps
<1>3. RecordRows' /\ RunRows'
  BY <1>1 DEF RunsInv, RecordRows, RunRows, inventoryVars
<1>4. DeviceInv'
  BY <1>1, <1>2 DEF RunsInv, DeviceInv, Touches, inventoryVars
<1>5. ScheduleInv'
  BY <1>1, <1>2 DEF RunsInv, ScheduleInv, Touches, inventoryVars
<1> QED
  BY <1>3, <1>4, <1>5 DEF RunsInv

LEMMA RunCommitted ==
    ASSUME SessionsInv, RunsInv, NEW s \in Session, CommitRun(s)
    PROVE  RunsInv'
<1> DEFINE new == [run : {tx[s].run}, device : tx[s].devices, status : {"active"}, at : {aged}]
<1>1. /\ records' = records \cup new /\ UNCHANGED <<devices, schedules>> /\ tx[s].op = "plan"
      /\ \A r \in new : DOMAIN r = {"run", "device", "status", "at"} /\ r.device \in tx[s].devices
  BY DEF CommitRun, Ready
<1>2. /\ Touches(s, {"plan"}) /\ tx'[s].op = "none" /\ overlap' = overlap
  BY Closing, IdleOp DEF CommitRun, Ready, SessionsInv
<1>3. ASSUME NEW i \in DOMAIN runs'
      PROVE  \/ i \in DOMAIN runs /\ runs'[i] = runs[i]
             \/ /\ DOMAIN runs'[i] = {"schedule", "open", "at"}
                /\ runs'[i].schedule = tx[s].schedule
  <2>1. CASE tx[s].alone
    BY <2>1 DEF CommitRun
  <2>2. CASE ~tx[s].alone
    <3> DEFINE row == [schedule |-> tx[s].schedule, open |-> TRUE, at |-> aged]
    <3>1. runs' = Over(runs, Only(tx[s].run, row))
      BY <2>2 DEF CommitRun
    <3>2. DOMAIN row = {"schedule", "open", "at"} /\ row.schedule = tx[s].schedule
      OBVIOUS
    <3> HIDE DEF row
    <3>3. i \in DOMAIN runs \cup {tx[s].run} /\ runs'[i] = IF i \in DOMAIN runs THEN runs[i] ELSE row
      BY <3>1 DEF Over, Only
    <3> QED
      BY <3>2, <3>3
  <2> QED
    BY <2>1, <2>2
<1> HIDE DEF new
<1>4. RecordRows' /\ RunRows'
  BY <1>1, <1>3 DEF RunsInv, RecordRows, RunRows
<1>5. DeviceInv'
  BY <1>1, <1>2 DEF RunsInv, DeviceInv, Touches
<1>6. ScheduleInv'
  BY <1>1, <1>2, <1>3 DEF RunsInv, ScheduleInv, Touches
<1> QED
  BY <1>4, <1>5, <1>6 DEF RunsInv

LEMMA DevicesRemoved ==
    ASSUME SessionsInv, RunsInv, NEW s \in Session, CommitDeleteDevices(s)
    PROVE  RunsInv'
<1>1. /\ devices' = Restrict(devices, DOMAIN devices \ tx[s].devices)
      /\ records' = {r \in records : r.device \notin tx[s].devices}
      /\ DOMAIN schedules' = DOMAIN schedules /\ tx[s].op = "deleteDevices"
  BY DEF CommitDeleteDevices, Ready
<1>2. DOMAIN runs' \subseteq DOMAIN runs /\ \A i \in DOMAIN runs' : runs'[i] = runs[i]
  BY PrunedRuns DEF CommitDeleteDevices
<1>3. Touches(s, {"deleteDevices"}) /\ overlap' = overlap
  BY Closing DEF CommitDeleteDevices, Ready, SessionsInv
<1>4. RecordRows' /\ RunRows'
  BY <1>1, <1>2 DEF RunsInv, RecordRows, RunRows
<1>5. ASSUME "device" \notin overlap, NEW t \in Session, tx[t].op = "plan"
      PROVE  FALSE
  <2>1. t # s /\ "device" \in Raced(tx[s].op, tx[t].op)
    BY <1>1, <1>5, RacesOf
  <2> QED
    BY <1>5, <2>1 DEF SessionsInv, RacesNoted
<1>6. DeviceInv'
  <2>1. DOMAIN devices' = DOMAIN devices \ tx[s].devices
    BY <1>1 DEF Restrict
  <2> QED
    BY <1>1, <1>3, <1>5, <2>1 DEF RunsInv, DeviceInv, Touches
<1>7. ScheduleInv'
  BY <1>1, <1>2, <1>3 DEF RunsInv, ScheduleInv, Touches
<1> QED
  BY <1>4, <1>6, <1>7 DEF RunsInv

LEMMA ScheduleCommitted ==
    ASSUME SessionsInv, RunsInv, NEW s \in Session, CommitSchedule(s)
    PROVE  RunsInv'
<1>1. Touches(s, ScheduleOps) /\ overlap' = overlap /\ UNCHANGED <<devices, records>>
  BY GoingOn DEF CommitSchedule, Ready, SessionsInv, ScheduleOps
<1>2. Quiet({"plan"})
  BY <1>1, OthersQuiet DEF ScheduleOps
<1>3. CASE DOMAIN schedules \subseteq DOMAIN schedules' /\ runs' = runs
  BY <1>1, <1>2, <1>3, RunsQuiet
<1>4. CASE /\ Ready(s, "deleteSchedule")
           /\ schedules' = Restrict(schedules, DOMAIN schedules \ {tx[s].schedule})
           /\ runs' = Restrict(runs, {i \in DOMAIN runs : runs[i].schedule # tx[s].schedule})
  <2>1. /\ DOMAIN schedules' = DOMAIN schedules \ {tx[s].schedule}
        /\ \A i \in DOMAIN runs' : i \in DOMAIN runs /\ runs[i].schedule # tx[s].schedule /\ runs'[i] = runs[i]
    BY <1>4 DEF Restrict
  <2>2. RecordRows' /\ RunRows' /\ DeviceInv'
    BY <1>1, <1>2, <2>1 DEF RunsInv, RecordRows, RunRows, DeviceInv, Quiet
  <2>3. ASSUME "schedule" \notin overlap, NEW t \in Session, tx[t].op = "plan"
        PROVE  FALSE
    <3>1. t # s /\ "schedule" \in Raced(tx[s].op, tx[t].op)
      BY <1>4, <2>3, RacesOf DEF Ready
    <3> QED
      BY <2>3, <3>1 DEF SessionsInv, RacesNoted
  <2>4. ScheduleInv'
    BY <1>1, <1>2, <2>1, <2>3 DEF RunsInv, ScheduleInv, Quiet
  <2> QED
    BY <2>2, <2>4 DEF RunsInv
<1>5. \/ DOMAIN schedules \subseteq DOMAIN schedules' /\ runs' = runs
      \/ /\ Ready(s, "deleteSchedule")
         /\ schedules' = Restrict(schedules, DOMAIN schedules \ {tx[s].schedule})
         /\ runs' = Restrict(runs, {i \in DOMAIN runs : runs[i].schedule # tx[s].schedule})
  <2>1. ASSUME NEW new, schedules' = Over(new, schedules)
        PROVE  DOMAIN schedules \subseteq DOMAIN schedules'
    BY <2>1 DEF Over
  <2> QED
    BY <2>1 DEF CommitSchedule
<1> QED
  BY <1>3, <1>4, <1>5

LEMMA RunEnded ==
    ASSUME RunsInv, NEW i, NEW good, EndRun(i, good)
    PROVE  RunsInv'
<1>1. UNCHANGED <<devices, schedules, tx>> /\ overlap \subseteq overlap'
  BY DEF EndRun
<1>2. ASSUME NEW q \in records'
      PROVE  DOMAIN q = {"run", "device", "status", "at"} /\ \E r \in records : q.device = r.device
  <2>1. PICK r \in records : q = IF r.run # i THEN r
                   ELSE [r EXCEPT !.status = IF r.device \in good THEN "succeeded" ELSE "failed"]
    BY DEF EndRun
  <2>2. DOMAIN r = {"run", "device", "status", "at"}
    BY DEF RunsInv, RecordRows
  <2> QED
    BY <2>1, <2>2
<1>3. ASSUME NEW j \in DOMAIN runs'
      PROVE  /\ j \in DOMAIN runs /\ DOMAIN runs'[j] = {"schedule", "open", "at"}
             /\ runs'[j].schedule = runs[j].schedule
  <2>1. j \in DOMAIN runs
    BY DEF EndRun
  <2>2. DOMAIN runs[j] = {"schedule", "open", "at"}
    BY <2>1 DEF RunsInv, RunRows
  <2>3. runs'[j] = runs[j] \/ runs'[j] = [runs[j] EXCEPT !.open = FALSE]
    BY <2>1 DEF EndRun
  <2> QED
    BY <2>1, <2>2, <2>3
<1>4. RecordRows' /\ RunRows'
  BY <1>2, <1>3 DEF RecordRows, RunRows
<1>5. DeviceInv'
  BY <1>1, <1>2 DEF RunsInv, DeviceInv
<1>6. ScheduleInv'
  BY <1>1, <1>3 DEF RunsInv, ScheduleInv
<1> QED
  BY <1>4, <1>5, <1>6 DEF RunsInv

LEMMA RunsKept ==
    ASSUME SessionsInv, [Next]_vars, RunsInv
    PROVE  RunsInv'
<1>1. ASSUME Quiet({"plan"}), UNCHANGED <<devices, schedules, runs, records>>
      PROVE  RunsInv'
  BY <1>1, RunsQuiet
<1>2. ASSUME NEW s \in Session, BackupStep(s)
      PROVE  RunsInv'
  <2>1. ASSUME NEW x \in Schedule, Plan(s, x)
        PROVE  RunsInv'
    <3>1. Resolve(schedules[x].targets) \subseteq DOMAIN devices
      BY DEF Resolve
    <3> QED
      BY <2>1, <3>1, RunPlanned DEF Plan
  <2>2. ASSUME NEW ds, PlanBulk(s, ds)
        PROVE  RunsInv'
    BY <2>2, RunPlanned DEF PlanBulk
  <2>3. ASSUME NEW d, PlanSingle(s, d)
        PROVE  RunsInv'
    BY <2>3, RunPlanned DEF PlanSingle
  <2>4. ASSUME NEW i \in DOMAIN runs, NEW selected, Retry(s, i, selected)
        PROVE  RunsInv'
    <3>1. "schedule" \notin overlap => runs[i].schedule \in DOMAIN schedules \cup {None}
      BY DEF RunsInv, ScheduleInv
    <3> QED
      BY <2>4, <3>1, RunPlanned DEF Retry
  <2>5. ASSUME Cleanup(s) \/ \E rs \in SUBSET records : DeleteRecords(s, rs)
        PROVE  RunsInv'
    <3>1. ASSUME NEW op \in {"cleanup", "deleteRecords"}, NEW r, Opens(s, r), r.op = op
          PROVE  Quiet({"plan"})
      <4>1. Touches(s, {op})
        BY <3>1, Starting DEF Opens, SessionsInv
      <4> QED
        BY <4>1, OthersQuiet
    <3>2. CASE Cleanup(s)
      BY <1>1, <3>1, <3>2 DEF Cleanup, inventoryVars
    <3>3. ASSUME NEW rs, DeleteRecords(s, rs)
          PROVE  RunsInv'
      BY <1>1, <3>1, <3>3 DEF DeleteRecords, inventoryVars
    <3> QED
      BY <2>5, <3>2, <3>3
  <2>6. CASE CommitRecords(s)
    <3>1. Touches(s, {"cleanup", "deleteRecords"})
      BY <2>6, Closing DEF CommitRecords, Ready, SessionsInv
    <3>2. Quiet({"plan"})
      BY <3>1, OthersQuiet
    <3>3. /\ records' \subseteq records /\ UNCHANGED <<devices, schedules>>
          /\ DOMAIN runs' \subseteq DOMAIN runs /\ \A i \in DOMAIN runs' : runs'[i] = runs[i]
      BY <2>6, PrunedRuns DEF CommitRecords
    <3> QED
      BY <3>2, <3>3, RunsQuiet
  <2>7. CASE CommitRun(s)
    BY <2>7, RunCommitted
  <2> QED
    BY <1>2, <2>1, <2>2, <2>3, <2>4, <2>5, <2>6, <2>7 DEF BackupStep, BackupRequest
<1>3. ASSUME NEW s \in Session, DeviceStep(s)
      PROVE  RunsInv'
  <2>1. Quiet({"plan"}) /\ UNCHANGED <<schedules, runs, records>>
    BY <1>3, DeviceFrame, OthersQuiet DEF DeviceOps
  <2>2. DOMAIN devices \subseteq DOMAIN devices'
    BY <1>3 DEF DeviceStep, SaveDevice, BulkUpdate, Import, CommitDevices, inventoryVars
  <2> QED
    BY <2>1, <2>2, RunsQuiet
<1>4. ASSUME NEW s \in Session, RemovalStep(s)
      PROVE  RunsInv'
  <2>1. ASSUME NEW ds, DeleteDevices(s, ds)
        PROVE  RunsInv'
    <3>1. Quiet({"plan"})
      BY <1>4, RemovalFrame, OthersQuiet
    <3> QED
      BY <1>1, <2>1, <3>1 DEF DeleteDevices, inventoryVars
  <2> QED
    BY <1>4, <2>1, DevicesRemoved DEF RemovalStep
<1>5. ASSUME NEW s \in Session, ScheduleStep(s)
      PROVE  RunsInv'
  <2>1. Quiet({"plan"}) /\ UNCHANGED <<devices, records>>
    BY <1>5, ScheduleFrame, OthersQuiet DEF ScheduleOps
  <2>2. CASE UNCHANGED <<schedules, runs>>
    BY <1>1, <2>1, <2>2
  <2>3. CommitSchedule(s) \/ UNCHANGED <<schedules, runs>>
    BY <1>5 DEF ScheduleStep, SaveSchedule, ToggleSchedule, DeleteSchedule, ReadJobs, RemoveJobs, AddJobs,
       ReloadFails, inventoryVars
  <2> QED
    BY <2>2, <2>3, ScheduleCommitted
<1>6. CASE UNCHANGED vars \/ UserStep
  <2>1. UNCHANGED <<tx, devices, schedules, runs, records>> /\ overlap' = overlap /\ ids' = ids
    BY <1>6, UserFrame DEF vars, requestVars, inventoryVars
  <2> QED
    BY <1>1, <2>1 DEF Quiet
<1>7. CASE RunStep
  <2>1. CASE runs' = runs /\ records' = records
    BY <1>1, <1>7, <2>1, RunFrame DEF Quiet
  <2> QED
    BY <1>7, <2>1, RunFrame, RunEnded
<1>8. CASE Restart
  BY <1>1, <1>8, RestartFrame DEF Quiet
<1>9. ASSUME NEW s \in Session, RollbackStep(s)
      PROVE  RunsInv'
  <2>1. Quiet({"plan"}) /\ UNCHANGED <<devices, schedules, runs, records>>
    BY <1>9, RollbackFrame, IdleOp DEF Quiet, Touches, inventoryVars
  <2> QED
    BY <1>1, <2>1
<1>10. ASSUME NEW s \in Session, GroupStep(s) \/ CredentialStep(s) \/ RoleStep(s) \/ RoutingStep(s)
      PROVE  RunsInv'
  <2>1. CASE GroupStep(s)
    BY <1>1, <2>1, GroupFrame, OthersQuiet DEF GroupOps
  <2>2. CASE CredentialStep(s)
    BY <1>1, <2>2, CredentialFrame, OthersQuiet
  <2>3. CASE RoleStep(s)
    BY <1>1, <2>3, RoleFrame, OthersQuiet DEF RoleOps, inventoryVars
  <2>4. CASE RoutingStep(s)
    BY <1>1, <2>4, RoutingFrame, OthersQuiet DEF RoutingOps, inventoryVars
  <2> QED
    BY <1>10, <2>1, <2>2, <2>3, <2>4
<1> QED
  BY <1>2, <1>3, <1>4, <1>5, <1>6, <1>7, <1>8, <1>9, <1>10, StepKinds

-----------------------------------------------------------------------------
(* Policies and their channels. *)

\* Unless raced: the channels of a policy exist, and so do the ones of a row to
\* be written; what a channel's deletion has rewritten is still the policy
\* without it.
ChannelInv ==
    "channel" \notin overlap =>
        /\ \A p \in DOMAIN policies : policies[p].channels \subseteq channels
        /\ \A t \in Session : tx[t].op = "savePolicy" => tx[t].row.channels \subseteq channels
        /\ \A t \in Session : tx[t].op = "deleteChannel" =>
              \A p \in DOMAIN policies :
                  IF p \in DOMAIN tx[t].policies
                  THEN tx[t].policies[p] = policies[p].channels \ {tx[t].channel}
                  ELSE tx[t].channel \notin policies[p].channels

\* A policy's row has the column its deletion of a channel rewrites.
PolicyRows ==
    /\ \A p \in DOMAIN policies : DOMAIN policies[p] = {"channels", "template"}
    /\ \A t \in Session : tx[t].op = "savePolicy" => DOMAIN tx[t].row = {"channels", "template"}

PoliciesInv == PolicyRows /\ ChannelInv

LEMMA PoliciesQuiet ==
    ASSUME PoliciesInv, Quiet({"savePolicy", "deleteChannel"}), channels \subseteq channels',
           DOMAIN policies' \subseteq DOMAIN policies,
           \A p \in DOMAIN policies' : policies'[p] = policies[p]
    PROVE  PoliciesInv'
<1>1. PolicyRows'
  BY DEF PoliciesInv, PolicyRows, Quiet
<1>2. ChannelInv'
  BY DEF PoliciesInv, ChannelInv, Quiet
<1> QED
  BY <1>1, <1>2 DEF PoliciesInv

LEMMA PolicyHeld ==
    ASSUME SessionsInv, PoliciesInv, NEW s \in Session, NEW p, NEW cs, NEW t, SavePolicy(s, p, cs, t)
    PROVE  PoliciesInv'
<1>1. /\ tx'[s].op = "savePolicy" /\ tx'[s].row = [channels |-> cs, template |-> t]
      /\ UNCHANGED routingVars /\ cs \subseteq channels
  BY Opened DEF SavePolicy, Opens, SessionsInv
<1>2. Touches(s, RoutingOps)
  BY Starting DEF SavePolicy, Opens, SessionsInv, RoutingOps
<1>3. PolicyRows'
  BY <1>1, <1>2 DEF PoliciesInv, PolicyRows, Touches, routingVars
<1>4. ChannelInv'
  BY <1>1, <1>2 DEF PoliciesInv, ChannelInv, Touches, routingVars
<1> QED
  BY <1>3, <1>4 DEF PoliciesInv

LEMMA ChannelHeld ==
    ASSUME SessionsInv, PoliciesInv, NEW s \in Session, NEW c, DeleteChannel(s, c)
    PROVE  PoliciesInv'
<1> DEFINE without == [p \in {p \in DOMAIN policies : c \in policies[p].channels} |->
                          policies[p].channels \ {c}]
           request == [op |-> "deleteChannel", stage |-> "open", channel |-> c,
                       deliveries |-> {d \in deliveries : d.channel = c}, policies |-> without]
<1>a. OpensTaking(s, request, {}) /\ UNCHANGED routingVars
  BY DEF DeleteChannel, Opens
<1>b. request.op = "deleteChannel" /\ request.channel = c /\ request.policies = without
  OBVIOUS
<1>c. \A p \in DOMAIN policies :
         IF p \in DOMAIN without THEN without[p] = policies[p].channels \ {c}
         ELSE c \notin policies[p].channels
  OBVIOUS
<1> HIDE DEF without, request
<1>1. /\ tx'[s].op = "deleteChannel" /\ tx'[s].channel = c /\ UNCHANGED routingVars
      /\ tx'[s].policies = without
  BY <1>a, <1>b, Opened DEF SessionsInv
<1>2. Touches(s, RoutingOps)
  BY Starting DEF DeleteChannel, Opens, SessionsInv, RoutingOps
<1>3. PolicyRows'
  BY <1>1, <1>2 DEF PoliciesInv, PolicyRows, Touches, routingVars
<1>4. \A p \in DOMAIN policies :
         IF p \in DOMAIN tx'[s].policies THEN tx'[s].policies[p] = policies[p].channels \ {c}
         ELSE c \notin policies[p].channels
  BY <1>1, <1>c
<1>5. ChannelInv'
  BY <1>1, <1>2, <1>4 DEF PoliciesInv, ChannelInv, Touches, routingVars
<1> QED
  BY <1>3, <1>5 DEF PoliciesInv

\* While a policy is saved no channel is being deleted, or it is noted; and so on.
LEMMA ChannelsApart ==
    ASSUME SessionsInv, "channel" \notin overlap, NEW s \in Session, NEW t \in Session \ {s}
    PROVE  /\ ~(tx[s].op = "savePolicy" /\ tx[t].op = "deleteChannel")
           /\ ~(tx[s].op = "deleteChannel" /\ tx[t].op \in {"savePolicy", "deleteChannel"})
<1>1. "channel" \notin Raced(tx[s].op, tx[t].op)
  BY DEF SessionsInv, RacesNoted
<1> QED
  BY <1>1, RacesOf

\* What the commit of a request of the settings does.
LEMMA RoutingWritten ==
    ASSUME NEW s \in Session, CommitRouting(s)
    PROVE  \/ /\ tx[s].op = "savePolicy" /\ channels' = channels
              /\ policies' = Over(Only(tx[s].policy, tx[s].row), policies)
           \/ /\ tx[s].op = "deleteChannel" /\ channels' = channels \ {tx[s].channel}
              /\ policies' = [p \in DOMAIN policies |->
                                IF p \in DOMAIN tx[s].policies
                                THEN [policies[p] EXCEPT !.channels = tx[s].policies[p]]
                                ELSE policies[p]]
           \/ /\ tx[s].op = "deletePolicy" /\ channels' = channels
              /\ policies' = Restrict(policies, DOMAIN policies \ {tx[s].policy})
           \/ /\ tx[s].op \in {"deleteTemplate", "dispatch"} /\ channels' = channels
              /\ policies' = policies
<1>1. channels' = AfterCommit(s).channels /\ policies' = AfterCommit(s).policies /\ tx[s].op \in RoutingOps
  BY DEF CommitRouting
<1>2. CASE tx[s].op = "savePolicy"
  BY <1>1, <1>2 DEF AfterCommit
<1>3. CASE tx[s].op = "deleteChannel"
  BY <1>1, <1>3 DEF AfterCommit
<1>4. CASE tx[s].op = "deletePolicy"
  BY <1>1, <1>4 DEF AfterCommit
<1>5. CASE tx[s].op = "deleteTemplate"
  BY <1>1, <1>5 DEF AfterCommit
<1>6. CASE tx[s].op = "dispatch"
  BY <1>1, <1>6 DEF AfterCommit
<1> QED
  BY <1>1, <1>2, <1>3, <1>4, <1>5, <1>6 DEF RoutingOps

LEMMA RoutingCommitted ==
    ASSUME SessionsInv, PoliciesInv, NEW s \in Session, CommitRouting(s)
    PROVE  PoliciesInv'
<1>1. Touches(s, RoutingOps) /\ tx'[s].op = "none" /\ overlap' = overlap
  BY Closing, IdleOp DEF CommitRouting, SessionsInv
<1>2. CASE /\ tx[s].op = "savePolicy" /\ channels' = channels
           /\ policies' = Over(Only(tx[s].policy, tx[s].row), policies)
  <2>1. /\ DOMAIN policies' = DOMAIN policies \cup {tx[s].policy}
        /\ \A p \in DOMAIN policies' : policies'[p] = IF p = tx[s].policy THEN tx[s].row ELSE policies[p]
    BY <1>2 DEF Over, Only
  <2>2. PolicyRows'
    BY <1>1, <1>2, <2>1 DEF PoliciesInv, PolicyRows, Touches
  <2>3. ChannelInv'
    BY <1>1, <1>2, <2>1, ChannelsApart DEF PoliciesInv, ChannelInv, Touches
  <2> QED
    BY <2>2, <2>3 DEF PoliciesInv
<1>3. CASE /\ tx[s].op = "deleteChannel" /\ channels' = channels \ {tx[s].channel}
           /\ policies' = [p \in DOMAIN policies |->
                             IF p \in DOMAIN tx[s].policies
                             THEN [policies[p] EXCEPT !.channels = tx[s].policies[p]]
                             ELSE policies[p]]
  <2>1. ASSUME NEW p \in DOMAIN policies'
        PROVE  /\ p \in DOMAIN policies /\ DOMAIN policies'[p] = {"channels", "template"}
               /\ policies'[p].channels = IF p \in DOMAIN tx[s].policies THEN tx[s].policies[p]
                                          ELSE policies[p].channels
    <3>1. p \in DOMAIN policies /\ DOMAIN policies[p] = {"channels", "template"}
      BY <1>3 DEF PoliciesInv, PolicyRows
    <3>2. CASE p \in DOMAIN tx[s].policies
      <4>1. policies'[p] = [policies[p] EXCEPT !.channels = tx[s].policies[p]]
        BY <1>3, <3>1, <3>2
      <4> QED
        BY <3>1, <3>2, <4>1
    <3>3. CASE p \notin DOMAIN tx[s].policies
      BY <1>3, <3>1, <3>3
    <3> QED
      BY <3>2, <3>3
  <2>2. PolicyRows'
    BY <1>1, <1>3, <2>1 DEF PoliciesInv, PolicyRows, Touches
  <2>3. ASSUME "channel" \notin overlap, NEW p \in DOMAIN policies'
        PROVE  policies'[p].channels \subseteq channels'
    <3>1. policies[p].channels \subseteq channels
      BY <2>1, <2>3 DEF PoliciesInv, ChannelInv
    <3>2. policies'[p].channels \subseteq policies[p].channels \ {tx[s].channel}
      BY <1>3, <2>1, <2>3 DEF PoliciesInv, ChannelInv
    <3> QED
      BY <1>3, <3>1, <3>2
  <2>4. ASSUME "channel" \notin overlap, NEW t \in Session
        PROVE  tx'[t].op \notin {"savePolicy", "deleteChannel"}
    BY <1>1, <1>3, <2>4, ChannelsApart DEF Touches
  <2>5. ChannelInv'
    BY <1>1, <2>3, <2>4 DEF ChannelInv
  <2> QED
    BY <2>2, <2>5 DEF PoliciesInv
<1>4. CASE tx[s].op = "deletePolicy" /\ policies' = Restrict(policies, DOMAIN policies \ {tx[s].policy})
           /\ channels' = channels
  <2>1. DOMAIN policies' \subseteq DOMAIN policies /\ \A p \in DOMAIN policies' : policies'[p] = policies[p]
    BY <1>4 DEF Restrict
  <2>2. Quiet({"savePolicy", "deleteChannel"})
    BY <1>1 DEF Quiet, Touches
  <2> QED
    BY <1>4, <2>1, <2>2, PoliciesQuiet
<1>5. CASE policies' = policies /\ channels' = channels
  <2>1. Quiet({"savePolicy", "deleteChannel"})
    BY <1>1 DEF Quiet, Touches
  <2> QED
    BY <1>5, <2>1, PoliciesQuiet
<1> QED
  BY <1>2, <1>3, <1>4, <1>5, RoutingWritten

LEMMA PoliciesKept ==
    ASSUME SessionsInv, [Next]_vars, PoliciesInv
    PROVE  PoliciesInv'
<1>1. ASSUME Quiet({"savePolicy", "deleteChannel"}), UNCHANGED <<channels, policies>>
      PROVE  PoliciesInv'
  BY <1>1, PoliciesQuiet
<1>2. ASSUME NEW s \in Session, RoutingStep(s)
      PROVE  PoliciesInv'
  <2>1. ASSUME NEW r, NEW op \in RoutingOps \ {"savePolicy", "deleteChannel"}, Opens(s, r), r.op = op,
               UNCHANGED routingVars
        PROVE  PoliciesInv'
    <3>1. Touches(s, {op})
      BY <2>1, Starting DEF Opens, SessionsInv
    <3> QED
      BY <1>1, <2>1, <3>1, OthersQuiet DEF routingVars, RoutingOps
  <2>2. ASSUME NEW t, DeleteTemplate(s, t)
        PROVE  PoliciesInv'
    BY <2>1, <2>2 DEF DeleteTemplate, RoutingOps
  <2>3. ASSUME NEW p, DeletePolicy(s, p)
        PROVE  PoliciesInv'
    BY <2>1, <2>3 DEF DeletePolicy, RoutingOps
  <2>4. CASE DispatchEvent(s)
    BY <2>1, <2>4 DEF DispatchEvent, RoutingOps
  <2>5. ASSUME NEW c, CreateChannel(c) \/ CreateTemplate(c)
        PROVE  PoliciesInv'
    <3>1. Quiet({"savePolicy", "deleteChannel"}) /\ policies' = policies /\ channels \subseteq channels'
      BY <2>5 DEF CreateChannel, CreateTemplate, Alone, Quiet
    <3> QED
      BY <3>1, PoliciesQuiet
  <2>6. CASE RollbackRouting(s)
    <3>1. Quiet({"savePolicy", "deleteChannel"}) /\ UNCHANGED <<channels, policies>>
      BY <2>6, Closing, IdleOp DEF RollbackRouting, routingVars, Quiet, Touches, SessionsInv
    <3> QED
      BY <1>1, <3>1
  <2> QED
    BY <1>2, <2>2, <2>3, <2>4, <2>5, <2>6, PolicyHeld, ChannelHeld, RoutingCommitted
    DEF RoutingStep, RoutingRequest, RoutingCommit
<1>3. ASSUME UNCHANGED routingVars, \/ UNCHANGED vars \/ UserStep \/ RunStep \/ Restart
                                    \/ \E s \in Session : RollbackStep(s)
      PROVE  PoliciesInv'
  <2>1. Quiet({"savePolicy", "deleteChannel"})
    BY <1>3, UserFrame, RunFrame, RestartFrame, RollbackFrame, IdleOp
    DEF Quiet, Touches, vars, requestVars
  <2> QED
    BY <1>1, <1>3, <2>1 DEF routingVars
<1>4. ASSUME NEW s \in Session, NEW ops, Touches(s, ops), ops \cap RoutingOps = {}, UNCHANGED routingVars
      PROVE  PoliciesInv'
  <2>1. Quiet({"savePolicy", "deleteChannel"})
    BY <1>4, OthersQuiet DEF RoutingOps
  <2> QED
    BY <1>1, <1>4, <2>1 DEF routingVars
<1>5. ASSUME NEW s \in Session, \/ GroupStep(s) \/ DeviceStep(s) \/ RemovalStep(s) \/ CredentialStep(s)
                                \/ ScheduleStep(s) \/ BackupStep(s) \/ RoleStep(s)
      PROVE  PoliciesInv'
  <2>1. CASE GroupStep(s)
    BY <1>4, <2>1, GroupFrame DEF GroupOps, RoutingOps
  <2>2. CASE DeviceStep(s)
    BY <1>4, <2>2, DeviceFrame DEF DeviceOps, RoutingOps
  <2>3. CASE RemovalStep(s)
    BY <1>4, <2>3, RemovalFrame DEF RoutingOps
  <2>4. CASE CredentialStep(s)
    BY <1>4, <2>4, CredentialFrame DEF RoutingOps
  <2>5. CASE ScheduleStep(s)
    BY <1>4, <2>5, ScheduleFrame DEF ScheduleOps, RoutingOps
  <2>6. CASE BackupStep(s)
    BY <1>4, <2>6, BackupFrame DEF BackupOps, RoutingOps
  <2>7. CASE RoleStep(s)
    BY <1>4, <2>7, RoleFrame DEF RoleOps, RoutingOps
  <2> QED
    BY <1>5, <2>1, <2>2, <2>3, <2>4, <2>5, <2>6, <2>7
<1> QED
  BY <1>2, <1>3, <1>5, StepKinds, UserFrame, RunFrame, RestartFrame, RollbackFrame DEF vars

-----------------------------------------------------------------------------
(* Roles and their bearers. *)

LEMMA OverRows ==
    ASSUME NEW new, NEW rows
    PROVE  /\ DOMAIN Over(new, rows) = DOMAIN new \cup DOMAIN rows
           /\ \A x \in DOMAIN new : Over(new, rows)[x] = new[x]
           /\ \A x \in DOMAIN rows \ DOMAIN new : Over(new, rows)[x] = rows[x]
BY DEF Over

LEMMA OnlyRow ==
    ASSUME NEW x, NEW row
    PROVE  DOMAIN Only(x, row) = {x} /\ Only(x, row)[x] = row
BY DEF Only

\* The ids of the rows a session is to add.
Owned(t) == DOMAIN tx[t].seeds \cup (IF tx[t].op = "createRole" THEN {tx[t].request.role} ELSE {})

\* An id names one role for ever: the ids taken are in no other row, present or to come.
RoleIds ==
    /\ DOMAIN roles \subseteq ids
    /\ \A t \in Session : tx[t].op \in RoleOps =>
          /\ Owned(t) \subseteq ids \ DOMAIN roles
          /\ \A u \in Session \ {t} : tx[u].op \in RoleOps => Owned(t) \cap Owned(u) = {}
    /\ \A t \in Session : tx[t].op = "createRole" => tx[t].request.role \notin DOMAIN tx[t].seeds
    /\ \A t \in Session : tx[t].op = "deleteRole" =>
          /\ tx[t].request.role \in ids
          /\ \A u \in Session : tx[u].op \in RoleOps => tx[t].request.role \notin Owned(u)

\* The roles session t sees before its own change.
Sees(t) == Over(tx[t].seeds, roles)

\* Unless raced: a user's role exists, the role a user is to be given exists, a
\* role to be renamed has its old code and the users to be renamed bear it, and
\* nobody bears a role to be deleted.
RoleInv ==
    "role" \notin overlap =>
        /\ \A u \in DOMAIN users : users[u] \in Codes(roles)
        /\ \A t \in Session : tx[t].op = "saveUser" =>
              \A u \in DOMAIN tx[t].request.users : tx[t].request.users[u] \in Codes(Sees(t))
        /\ \A t \in Session : tx[t].op = "renameRole" =>
              /\ tx[t].request.role \in DOMAIN roles
              /\ roles[tx[t].request.role] = tx[t].request.old
        /\ \A t \in Session : tx[t].op = "renameRole" /\ tx[t].stage = "open" =>
              /\ \A u \in DOMAIN users : users[u] = tx[t].request.old => u \in DOMAIN tx[t].users
              /\ \A u \in DOMAIN tx[t].users : tx[t].users[u] = tx[t].request.code
        /\ \A t \in Session : tx[t].op = "deleteRole" /\ tx[t].request.role \in DOMAIN roles =>
              \A u \in DOMAIN users : users[u] # roles[tx[t].request.role]

RolesInv == RoleIds /\ RoleInv

LEMMA RolesQuiet ==
    ASSUME RolesInv, Quiet(RoleOps), roles' = roles, DOMAIN users' \subseteq DOMAIN users,
           \A u \in DOMAIN users' : users'[u] = users[u]
    PROVE  RolesInv'
<1>1. \A t \in Session : tx'[t].op \in RoleOps => tx'[t] = tx[t] /\ Owned(t)' = Owned(t) /\ Sees(t)' = Sees(t)
  BY DEF Quiet, Owned, Sees
<1>2. "renameRole" \in RoleOps /\ "deleteRole" \in RoleOps /\ "saveUser" \in RoleOps /\ "createRole" \in RoleOps
  BY DEF RoleOps
<1>3. RoleIds'
  BY <1>1, <1>2 DEF RolesInv, RoleIds, Quiet
<1>4. RoleInv'
  BY <1>1, <1>2 DEF RolesInv, RoleInv, Quiet, Codes
<1> QED
  BY <1>3, <1>4 DEF RolesInv

\* What the built-in roles put back are.
LEMMA SeedRows ==
    ASSUME RoleIds, DOMAIN Seeds \subseteq RoleId \ ids
    PROVE  /\ DOMAIN Seeded = DOMAIN Seeds \cup DOMAIN roles /\ DOMAIN Seeds \cap DOMAIN roles = {}
           /\ \A i \in DOMAIN roles : Seeded[i] = roles[i]
           /\ Codes(roles) \subseteq Codes(Seeded) /\ Readonly \in Codes(Seeded)
<1>1. /\ DOMAIN Seeded = DOMAIN Seeds \cup DOMAIN roles /\ DOMAIN Seeds \cap DOMAIN roles = {}
      /\ \A i \in DOMAIN roles : Seeded[i] = roles[i]
      /\ \A i \in DOMAIN Seeds : Seeded[i] = Seeds[i]
  BY DEF Seeded, Over, RoleIds
<1>2. Codes(roles) \subseteq Codes(Seeded)
  BY <1>1 DEF Codes
<1>3. Readonly \in Codes(Seeded)
  <2>1. CASE Readonly \in Codes(roles)
    BY <1>2, <2>1
  <2>2. CASE Readonly \notin Codes(roles)
    <3>1. Seeds = Only(NewRole({}), Readonly)
      BY <2>2 DEF Seeds
    <3>2. NewRole({}) \in DOMAIN Seeds /\ Seeds[NewRole({})] = Readonly
      BY <3>1 DEF Only
    <3> QED
      BY <1>1, <3>2 DEF Codes
  <2> QED
    BY <2>1, <2>2
<1> QED
  BY <1>1, <1>2, <1>3

\* A request of the roles has begun.
Asked(s, op, request, new) ==
    /\ tx[s].op = "none" /\ Touches(s, RoleOps) /\ ids' = ids \cup DOMAIN Seeds \cup new
    /\ tx'[s].op = op /\ tx'[s].stage = "checked" /\ tx'[s].seeds = Seeds /\ tx'[s].request = request
    /\ DOMAIN Seeds \cup new \subseteq RoleId \ ids
    /\ cache' = Refreshed(Seeded) /\ UNCHANGED <<roles, users>>

LEMMA AskedBy ==
    ASSUME SessionsInv, NEW s \in Session, NEW op \in RoleOps, NEW request, NEW new,
           OpensRoles(s, op, request, new)
    PROVE  Asked(s, op, request, new)
<1> DEFINE held == [op |-> op, stage |-> "checked", seeds |-> Seeds, request |-> request]
<1>1. /\ OpensTaking(s, held, DOMAIN Seeds \cup new) /\ DOMAIN Seeds \cup new \subseteq RoleId \ ids
      /\ cache' = Refreshed(Seeded) /\ UNCHANGED <<roles, users>>
  BY DEF OpensRoles
<1>2. held.op = op /\ held.stage = "checked" /\ held.seeds = Seeds /\ held.request = request
  OBVIOUS
<1> HIDE DEF held
<1>3. Touches(s, RoleOps) /\ tx'[s] = held /\ tx[s].op = "none" /\ ids' = ids \cup DOMAIN Seeds \cup new
  BY <1>1, <1>2, Starting, Opened DEF SessionsInv
<1> QED
  BY <1>1, <1>2, <1>3 DEF Asked

\* The ids stay apart when a request takes its own.
LEMMA IdsTaken ==
    ASSUME RoleIds, NEW s \in Session, NEW op \in RoleOps, NEW request, NEW new, Asked(s, op, request, new),
           op = "createRole" => request.role \notin DOMAIN Seeds /\ new = {request.role},
           op = "deleteRole" => request.role \in DOMAIN roles
    PROVE  RoleIds'
<1>1. \A t \in Session \ {s} : tx'[t] = tx[t] /\ Owned(t)' = Owned(t)
  BY DEF Asked, Touches, Owned
<1>2. Owned(s)' \subseteq ids' \ ids
  BY DEF Asked, Owned
<1>3. DOMAIN roles' \subseteq ids /\ ids \subseteq ids'
  BY DEF Asked, Touches, RoleIds
<1>4. ASSUME NEW t \in Session, tx'[t].op \in RoleOps
      PROVE  /\ Owned(t)' \subseteq ids' \ DOMAIN roles'
             /\ \A u \in Session \ {t} : tx'[u].op \in RoleOps => Owned(t)' \cap Owned(u)' = {}
  <2>1. \A u \in Session \ {s} : tx'[u].op \in RoleOps => Owned(u)' \subseteq ids \ DOMAIN roles'
    BY <1>1 DEF RoleIds, Asked
  <2>2. CASE t = s
    BY <1>2, <1>3, <2>1, <2>2
  <2>3. CASE t # s
    BY <1>1, <1>2, <1>3, <1>4, <2>1, <2>3 DEF RoleIds
  <2> QED
    BY <2>2, <2>3
<1>5. \A t \in Session : tx'[t].op = "createRole" => tx'[t].request.role \notin DOMAIN tx'[t].seeds
  BY <1>1 DEF RoleIds, Asked
<1>6. ASSUME NEW t \in Session, tx'[t].op = "deleteRole"
      PROVE  /\ tx'[t].request.role \in ids'
             /\ \A u \in Session : tx'[u].op \in RoleOps => tx'[t].request.role \notin Owned(u)'
  <2>1. tx'[t].request.role \in ids
    BY <1>1, <1>3, <1>6 DEF RoleIds, Asked
  <2>2. ASSUME NEW u \in Session \ {s}, tx'[u].op \in RoleOps
        PROVE  tx'[t].request.role \notin Owned(u)'
    <3>1. CASE t = s
      BY <1>1, <1>6, <2>2, <3>1 DEF RoleIds, Asked
    <3>2. CASE t # s
      BY <1>1, <1>6, <2>2, <3>2 DEF RoleIds
    <3> QED
      BY <3>1, <3>2
  <2> QED
    BY <1>2, <1>3, <2>1, <2>2
<1>7. DOMAIN roles' \subseteq ids'
  BY <1>3
<1> QED
  BY <1>4, <1>5, <1>6, <1>7 DEF RoleIds

LEMMA RoleAsked ==
    ASSUME RolesInv, NEW s \in Session, NEW op \in RoleOps, NEW request, NEW new, Asked(s, op, request, new),
           op = "createRole" => request.role \notin DOMAIN Seeds /\ new = {request.role},
           op = "deleteRole" => /\ request.role \in DOMAIN roles
                                /\ \A u \in DOMAIN users : users[u] # roles[request.role],
           op = "renameRole" => request.role \in DOMAIN roles /\ request.old = roles[request.role],
           op = "saveUser" /\ "role" \notin overlap =>
               \A u \in DOMAIN request.users : request.users[u] \in Codes(Seeded)
    PROVE  RolesInv'
<1>1. RoleIds'
  BY IdsTaken DEF RolesInv
<1>2. \A t \in Session \ {s} : tx'[t] = tx[t] /\ Sees(t)' = Sees(t)
  BY DEF Asked, Touches, Sees
<1>3. Sees(s)' = Seeded
  BY DEF Asked, Sees, Seeded
<1>4. /\ tx'[s].op = op /\ tx'[s].stage = "checked" /\ tx'[s].request = request
      /\ overlap \subseteq overlap' /\ roles' = roles /\ users' = users
  BY DEF Asked, Touches
<1>5. ASSUME "role" \notin overlap'
      PROVE  /\ \A u \in DOMAIN users' : users'[u] \in Codes(roles)'
             /\ \A t \in Session : tx'[t].op = "saveUser" =>
                   \A u \in DOMAIN tx'[t].request.users : tx'[t].request.users[u] \in Codes(Sees(t))'
    <2>1. "role" \notin overlap
      BY <1>4, <1>5
    <2>2. \A u \in DOMAIN users' : users'[u] \in Codes(roles)'
      BY <1>4, <2>1 DEF RolesInv, RoleInv, Codes
    <2>3. ASSUME NEW t \in Session, tx'[t].op = "saveUser", NEW u \in DOMAIN tx'[t].request.users
          PROVE  tx'[t].request.users[u] \in Codes(Sees(t))'
      <3>1. CASE t = s
        BY <1>3, <1>4, <2>1, <2>3, <3>1 DEF Codes
      <3>2. CASE t # s
        BY <1>2, <2>1, <2>3, <3>2 DEF RolesInv, RoleInv, Codes
      <3> QED
        BY <3>1, <3>2
    <2> QED
      BY <2>2, <2>3
<1>6. ASSUME "role" \notin overlap', NEW t \in Session
      PROVE  /\ tx'[t].op = "renameRole" => /\ tx'[t].request.role \in DOMAIN roles'
                                            /\ roles'[tx'[t].request.role] = tx'[t].request.old
             /\ tx'[t].op = "renameRole" /\ tx'[t].stage = "open" =>
                   /\ \A u \in DOMAIN users' : users'[u] = tx'[t].request.old => u \in DOMAIN tx'[t].users
                   /\ \A u \in DOMAIN tx'[t].users : tx'[t].users[u] = tx'[t].request.code
             /\ tx'[t].op = "deleteRole" /\ tx'[t].request.role \in DOMAIN roles' =>
                   \A u \in DOMAIN users' : users'[u] # roles'[tx'[t].request.role]
  <2>1. "role" \notin overlap
    BY <1>4, <1>6
  <2>2. CASE t = s
    BY <1>4, <2>1, <2>2
  <2>3. CASE t # s
    BY <1>2, <1>4, <2>1, <2>3 DEF RolesInv, RoleInv
  <2> QED
    BY <2>2, <2>3
<1>7. RoleInv'
  BY <1>5, <1>6 DEF RoleInv
<1> QED
  BY <1>1, <1>7 DEF RolesInv

LEMMA RolesRequested ==
    ASSUME SessionsInv, RolesInv, NEW s \in Session, IdentityRequest(s)
    PROVE  RolesInv'
<1>1. CASE ViewRoles(s)
  <2>1. Asked(s, "viewRoles", <<>>, {})
    BY <1>1, AskedBy DEF ViewRoles, RoleOps
  <2> QED
    BY <2>1, RoleAsked DEF RoleOps
<1>2. ASSUME NEW code, CreateRole(s, code)
      PROVE  RolesInv'
  <2>1. PICK i : /\ i \notin DOMAIN Seeds
                 /\ OpensRoles(s, "createRole", [role |-> i, code |-> code], {i})
    BY <1>2 DEF CreateRole
  <2>2. PICK request : request = [role |-> i, code |-> code]
    OBVIOUS
  <2>3. Asked(s, "createRole", request, {i}) /\ request.role = i
    BY <2>1, <2>2, AskedBy DEF RoleOps
  <2> QED
    BY <2>1, <2>3, RoleAsked DEF RoleOps
<1>3. ASSUME NEW code, NEW i \in RoleId, RenameRole(s, i, code)
      PROVE  RolesInv'
  <2>1. PICK request : request = [role |-> i, code |-> code, old |-> roles[i]]
    OBVIOUS
  <2>2. Asked(s, "renameRole", request, {}) /\ request.role = i /\ request.old = roles[i] /\ i \in DOMAIN roles
    BY <1>3, <2>1, AskedBy DEF RoleOps, RenameRole
  <2> QED
    BY <2>2, RoleAsked DEF RoleOps
<1>4. ASSUME NEW i \in RoleId, DeleteRole(s, i)
      PROVE  RolesInv'
  <2>1. PICK request : request = [role |-> i]
    OBVIOUS
  <2>2. Asked(s, "deleteRole", request, {}) /\ request.role = i /\ i \in DOMAIN roles
    BY <1>4, <2>1, AskedBy DEF RoleOps, DeleteRole
  <2>3. \A u \in DOMAIN users : users[u] # roles[i]
    BY <1>4 DEF DeleteRole
  <2> QED
    BY <2>2, <2>3, RoleAsked DEF RoleOps
<1>5. ASSUME NEW u \in User, NEW code \in Code, SaveUser(s, u, code)
      PROVE  RolesInv'
  <2> DEFINE role == IF code \in Codes(Seeded) THEN code ELSE IF u \in DOMAIN users THEN users[u] ELSE Readonly
             given == IF u \in DOMAIN users /\ users[u] = role THEN <<>> ELSE Only(u, role)
  <2>1. PICK request : request = [new |-> u \notin DOMAIN users, users |-> given]
    OBVIOUS
  <2>2. OpensRoles(s, "saveUser", request, {})
    BY <1>5, <2>1 DEF SaveUser
  <2>3. request.users = given
    BY <2>1
  <2>4. DOMAIN Seeds \subseteq RoleId \ ids
    BY <2>2 DEF OpensRoles
  <2>5. \A v \in DOMAIN given : v = u /\ given[v] = role /\ (u \in DOMAIN users => users[u] # role)
    BY DEF Only
  <2>6. Readonly \in Codes(Seeded)
    BY <2>4, SeedRows DEF RolesInv
  <2>7. \A v \in DOMAIN given : given[v] \in Codes(Seeded)
    BY <2>5, <2>6
  <2> HIDE DEF given, role
  <2>8. Asked(s, "saveUser", request, {})
    BY <2>2, AskedBy DEF RoleOps
  <2> QED
    BY <2>3, <2>7, <2>8, RoleAsked DEF RoleOps
<1> QED
  BY <1>1, <1>2, <1>3, <1>4, <1>5 DEF IdentityRequest

LEMMA RoleFlushed ==
    ASSUME SessionsInv, RolesInv, NEW s \in Session, FlushRole(s)
    PROVE  RolesInv'
<1> DEFINE renamed == IF tx[s].op = "renameRole"
                      THEN [u \in {u \in DOMAIN users : users[u] = tx[s].request.old} |-> tx[s].request.code]
                      ELSE <<>>
           held == [op |-> tx[s].op, stage |-> "open", seeds |-> tx[s].seeds, request |-> tx[s].request,
                    users |-> renamed]
<1>1. Continues(s, held) /\ UNCHANGED <<roles, users>> /\ tx[s].op \in RoleOps
  BY DEF FlushRole, RoleOps
<1>2. /\ held.op = tx[s].op /\ held.stage = "open" /\ held.seeds = tx[s].seeds /\ held.request = tx[s].request
      /\ held.users = renamed
  OBVIOUS
<1>3. tx[s].op = "renameRole" =>
         /\ \A u \in DOMAIN users : users[u] = tx[s].request.old => u \in DOMAIN renamed
         /\ \A u \in DOMAIN renamed : renamed[u] = tx[s].request.code
  OBVIOUS
<1> HIDE DEF renamed, held
<1>4. Touches(s, RoleOps) /\ tx'[s] = held /\ overlap' = overlap /\ ids' = ids
  BY <1>1, <1>2, GoingOn DEF SessionsInv
<1>5. \A t \in Session : /\ tx'[t].op = tx[t].op /\ Owned(t)' = Owned(t) /\ Sees(t)' = Sees(t)
                         /\ tx'[t].seeds = tx[t].seeds \/ t # s
                         /\ tx'[t].request = tx[t].request /\ (t # s => tx'[t] = tx[t])
  BY <1>1, <1>2, <1>4 DEF Touches, Owned, Sees
<1>6. RoleIds'
  BY <1>1, <1>4, <1>5 DEF RolesInv, RoleIds
<1>7. RoleInv'
  <2>1. tx'[s].users = renamed
    BY <1>2, <1>4
  <2> QED
    BY <1>1, <1>3, <1>4, <1>5, <2>1 DEF RolesInv, RoleInv, Codes
<1> QED
  BY <1>6, <1>7 DEF RolesInv

\* The rows of a session's flush, one by one.
LEMMA FlushedRows ==
    ASSUME NEW s \in Session, tx[s].op \in RoleOps
    PROVE  LET i == tx[s].request.role IN
           /\ tx[s].op \in {"viewRoles", "saveUser"} => Flushed(s) = Sees(s)
           /\ tx[s].op \in {"createRole", "renameRole"} =>
                 /\ DOMAIN Flushed(s) = DOMAIN Sees(s) \cup {i} /\ Flushed(s)[i] = tx[s].request.code
                 /\ \A j \in DOMAIN Sees(s) \ {i} : Flushed(s)[j] = Sees(s)[j]
           /\ tx[s].op = "deleteRole" =>
                 /\ DOMAIN Flushed(s) = DOMAIN Sees(s) \ {i}
                 /\ \A j \in DOMAIN Sees(s) \ {i} : Flushed(s)[j] = Sees(s)[j]
<1>1. CASE tx[s].op \in {"viewRoles", "saveUser"}
  BY <1>1 DEF Flushed, Sees
<1>2. CASE tx[s].op \in {"createRole", "renameRole"}
  <2>1. Flushed(s) = Over(Only(tx[s].request.role, tx[s].request.code), Sees(s))
    BY <1>2 DEF Flushed, Sees
  <2> QED
    BY <1>2, <2>1 DEF Over, Only
<1>3. CASE tx[s].op = "deleteRole"
  <2>1. Flushed(s) = Restrict(Sees(s), DOMAIN Sees(s) \ {tx[s].request.role})
    BY <1>3 DEF Flushed, Sees
  <2> QED
    BY <1>3, <2>1 DEF Restrict
<1> QED
  BY <1>1, <1>2, <1>3 DEF RoleOps

\* What a session sees has every row, as it is.
LEMMA SeenRows ==
    ASSUME RoleIds, NEW s \in Session, tx[s].op \in RoleOps
    PROVE  /\ DOMAIN Sees(s) = DOMAIN tx[s].seeds \cup DOMAIN roles
           /\ \A i \in DOMAIN roles : Sees(s)[i] = roles[i]
           /\ Codes(roles) \subseteq Codes(Sees(s))
<1>1. DOMAIN Sees(s) = DOMAIN tx[s].seeds \cup DOMAIN roles /\ DOMAIN tx[s].seeds \cap DOMAIN roles = {}
  BY DEF Sees, Over, RoleIds, Owned
<1>2. \A i \in DOMAIN roles : Sees(s)[i] = roles[i]
  BY <1>1 DEF Sees, Over
<1> QED
  BY <1>1, <1>2 DEF Codes

\* A commit of roles, the rows it leaves, and the ids it puts to use.
LEMMA IdsUsed ==
    ASSUME SessionsInv, RoleIds, NEW s \in Session, tx[s].op \in RoleOps, Closes(s), roles' = Flushed(s),
           tx[s].op = "renameRole" => tx[s].request.role \in DOMAIN roles
    PROVE  /\ RoleIds' /\ Touches(s, RoleOps) /\ tx'[s].op = "none" /\ overlap' = overlap
           /\ \A i \in DOMAIN roles : \/ roles'[i] = roles[i] /\ i \in DOMAIN roles'
                                      \/ tx[s].op \in {"renameRole", "deleteRole"} /\ i = tx[s].request.role
           /\ \A i \in DOMAIN roles' : i \in DOMAIN roles \cup Owned(s)
<1>1. Touches(s, RoleOps) /\ tx'[s].op = "none" /\ overlap' = overlap /\ ids' = ids
  BY Closing, IdleOp DEF SessionsInv
<1>2. DOMAIN roles' \subseteq DOMAIN roles \cup Owned(s)
  <2>1. tx[s].op = "createRole" => tx[s].request.role \in Owned(s)
    BY DEF Owned
  <2>2. DOMAIN tx[s].seeds \subseteq Owned(s)
    BY DEF Owned
  <2> QED
    BY <2>1, <2>2, FlushedRows, SeenRows DEF RoleOps
<1>3. \A i \in DOMAIN roles : \/ roles'[i] = roles[i] /\ i \in DOMAIN roles'
                              \/ tx[s].op \in {"renameRole", "deleteRole"} /\ i = tx[s].request.role
  <2>1. tx[s].op = "createRole" => tx[s].request.role \notin DOMAIN roles
    BY DEF RoleIds, Owned
  <2> QED
    BY <2>1, FlushedRows, SeenRows DEF RoleOps
<1>4. \A t \in Session \ {s} : tx'[t] = tx[t] /\ Owned(t)' = Owned(t)
  BY <1>1 DEF Touches, Owned
<1>5. "none" \notin RoleOps /\ "deleteRole" \in RoleOps /\ "createRole" \in RoleOps
  BY DEF RoleOps
<1>6. DOMAIN roles' \subseteq ids'
  BY <1>1, <1>2 DEF RoleIds
<1>7. ASSUME NEW t \in Session, tx'[t].op \in RoleOps
      PROVE  /\ Owned(t)' \subseteq ids' \ DOMAIN roles'
             /\ \A u \in Session \ {t} : tx'[u].op \in RoleOps => Owned(t)' \cap Owned(u)' = {}
  <2>1. t # s
    BY <1>1, <1>5, <1>7
  <2>2. Owned(t) \cap Owned(s) = {} /\ Owned(t) \subseteq ids \ DOMAIN roles
    BY <1>4, <1>7, <2>1 DEF RoleIds
  <2>3. \A u \in Session \ {t} : tx'[u].op \in RoleOps => Owned(t)' \cap Owned(u)' = {}
    BY <1>1, <1>4, <1>5, <1>7, <2>1 DEF RoleIds
  <2> QED
    BY <1>1, <1>2, <1>4, <2>1, <2>2, <2>3
<1>8. \A t \in Session : tx'[t].op = "createRole" => tx'[t].request.role \notin DOMAIN tx'[t].seeds
  BY <1>1, <1>4 DEF RoleIds
<1>9. \A t \in Session : tx'[t].op = "deleteRole" =>
          /\ tx'[t].request.role \in ids'
          /\ \A u \in Session : tx'[u].op \in RoleOps => tx'[t].request.role \notin Owned(u)'
  BY <1>1, <1>4, <1>5 DEF RoleIds
<1> QED
  BY <1>1, <1>2, <1>3, <1>6, <1>7, <1>8, <1>9 DEF RoleIds

\* While a user is saved, or a role renamed, no role is renamed or deleted.
LEMMA RolesApart ==
    ASSUME SessionsInv, "role" \notin overlap, NEW s \in Session, NEW t \in Session \ {s},
           tx[s].op \in {"renameRole", "deleteRole"}
    PROVE  tx[t].op \notin {"saveUser", "renameRole"} /\ (tx[s].op = "renameRole" => tx[t].op # "deleteRole")
<1>1. "role" \notin Raced(tx[s].op, tx[t].op)
  BY DEF SessionsInv, RacesNoted
<1> QED
  BY <1>1, RacesOf

\* The claims of the others when the roles are as they were, or more, and only
\* users who are being saved have changed.
LEMMA RolesAdded ==
    ASSUME SessionsInv, RolesInv, NEW s \in Session, tx[s].op \in RoleOps, Closes(s), roles' = Flushed(s),
           tx[s].op \in {"viewRoles", "createRole", "saveUser"},
           \/ users' = users
           \/ tx[s].op = "saveUser" /\ users' = Over(tx[s].request.users, users)
    PROVE  RolesInv'
<1>1. /\ RoleIds' /\ Touches(s, RoleOps) /\ tx'[s].op = "none" /\ overlap' = overlap
      /\ \A i \in DOMAIN roles : roles'[i] = roles[i] /\ i \in DOMAIN roles'
      /\ \A i \in DOMAIN roles' : i \in DOMAIN roles \cup Owned(s)
  BY IdsUsed DEF RolesInv
<1>2. Codes(roles) \subseteq Codes(roles')
  BY <1>1 DEF Codes
<1>3. SUFFICES ASSUME "role" \notin overlap
               PROVE  RoleInv'
  BY <1>1 DEF RolesInv, RoleInv
<1>4. \A t \in Session \ {s} : tx'[t] = tx[t]
  BY <1>1 DEF Touches
<1>5. \A t \in Session \ {s} : Codes(Sees(t)) \subseteq Codes(Sees(t))'
  <2> TAKE t \in Session \ {s}
  <2>1. \A i \in DOMAIN Sees(t) : i \in DOMAIN Sees(t)' /\ Sees(t)'[i] = Sees(t)[i]
    BY <1>1, <1>4 DEF Sees, Over
  <2> QED
    BY <2>1 DEF Codes
<1>6. \A u \in DOMAIN users' : users'[u] \in Codes(roles)'
  <2>1. \A u \in DOMAIN users : users[u] \in Codes(roles)'
    BY <1>2, <1>3 DEF RolesInv, RoleInv, Codes
  <2>2. CASE users' = users
    BY <2>1, <2>2
  <2>3. CASE tx[s].op = "saveUser" /\ users' = Over(tx[s].request.users, users)
    <3>a. roles' = Sees(s)
      BY <2>3, FlushedRows
    <3>1. Codes(roles)' = Codes(Sees(s))
      BY <3>a DEF Codes
    <3>2. \A u \in DOMAIN tx[s].request.users : tx[s].request.users[u] \in Codes(roles)'
      BY <1>3, <2>3, <3>1 DEF RolesInv, RoleInv
    <3> QED
      BY <2>1, <2>3, <3>2 DEF Over
  <2> QED
    BY <2>2, <2>3
<1>7. \A t \in Session : tx'[t].op = "saveUser" =>
          \A u \in DOMAIN tx'[t].request.users : tx'[t].request.users[u] \in Codes(Sees(t))'
  BY <1>1, <1>3, <1>4, <1>5 DEF RolesInv, RoleInv
<1>8. ASSUME NEW t \in Session, tx'[t].op = "renameRole"
      PROVE  /\ tx'[t].request.role \in DOMAIN roles' /\ roles'[tx'[t].request.role] = tx'[t].request.old
             /\ tx'[t].stage = "open" =>
                   /\ \A u \in DOMAIN users' : users'[u] = tx'[t].request.old => u \in DOMAIN tx'[t].users
                   /\ \A u \in DOMAIN tx'[t].users : tx'[t].users[u] = tx'[t].request.code
  <2>1. t # s /\ tx[t].op = "renameRole"
    BY <1>1, <1>4, <1>8
  <2>2. tx[s].op # "saveUser"
    BY <1>3, <2>1, RolesApart
  <2> QED
    BY <1>1, <1>3, <1>4, <2>1, <2>2 DEF RolesInv, RoleInv
<1>9. ASSUME NEW t \in Session, tx'[t].op = "deleteRole", tx'[t].request.role \in DOMAIN roles'
      PROVE  \A u \in DOMAIN users' : users'[u] # roles'[tx'[t].request.role]
  <2>1. t # s /\ tx[t].op = "deleteRole"
    BY <1>1, <1>4, <1>9
  <2>2. tx[s].op # "saveUser"
    BY <1>3, <2>1, RolesApart
  <2>3. tx[t].request.role \in DOMAIN roles
    BY <1>1, <1>4, <1>9, <2>1 DEF RolesInv, RoleIds
  <2> QED
    BY <1>1, <1>3, <1>4, <2>1, <2>2, <2>3 DEF RolesInv, RoleInv
<1> QED
  BY <1>6, <1>7, <1>8, <1>9 DEF RoleInv

LEMMA RoleRenamed ==
    ASSUME SessionsInv, RolesInv, NEW s \in Session, tx[s].op = "renameRole", CommitRoles(s)
    PROVE  RolesInv'
<1> DEFINE i == tx[s].request.role
<1>1. /\ roles' = Flushed(s) /\ users' = Over(tx[s].users, users) /\ Closes(s) /\ i \in DOMAIN roles
      /\ tx[s].stage = "open" /\ tx[s].op \in RoleOps
  BY DEF CommitRoles, RoleOps
<1>2. /\ RoleIds' /\ Touches(s, RoleOps) /\ tx'[s].op = "none" /\ overlap' = overlap
      /\ \A j \in DOMAIN roles : j = i \/ (roles'[j] = roles[j] /\ j \in DOMAIN roles')
  BY <1>1, IdsUsed DEF RolesInv
<1>3. SUFFICES ASSUME "role" \notin overlap
               PROVE  RoleInv'
  BY <1>2 DEF RolesInv, RoleInv
<1>4. \A t \in Session : tx'[t].op \notin {"saveUser", "renameRole", "deleteRole"}
  BY <1>2, <1>3, RolesApart DEF Touches
<1>5. i \in DOMAIN roles' /\ roles'[i] = tx[s].request.code
  BY <1>1, FlushedRows
<1>6. ASSUME NEW u \in DOMAIN users'
      PROVE  users'[u] \in Codes(roles)'
  <2>1. CASE u \in DOMAIN tx[s].users
    <3>1. users'[u] = tx[s].request.code
      BY <1>1, <1>3, <2>1 DEF Over, RolesInv, RoleInv
    <3> QED
      BY <1>5, <3>1 DEF Codes
  <2>2. CASE u \notin DOMAIN tx[s].users
    <3>1. u \in DOMAIN users /\ users'[u] = users[u]
      BY <1>1, <2>2 DEF Over
    <3>2. users[u] # roles[i]
      BY <1>1, <1>3, <2>2, <3>1 DEF RolesInv, RoleInv
    <3>3. PICK j \in DOMAIN roles : users[u] = roles[j]
      BY <1>3, <3>1 DEF RolesInv, RoleInv, Codes
    <3> QED
      BY <1>2, <3>1, <3>2, <3>3 DEF Codes
  <2> QED
    BY <2>1, <2>2
<1> QED
  BY <1>4, <1>6 DEF RoleInv

LEMMA RoleDeleted ==
    ASSUME SessionsInv, RolesInv, NEW s \in Session, tx[s].op = "deleteRole", CommitRoles(s)
    PROVE  RolesInv'
<1> DEFINE i == tx[s].request.role
<1>1. /\ roles' = Flushed(s) /\ users' = users /\ Closes(s) /\ tx[s].op \in RoleOps
  BY DEF CommitRoles, RoleOps
<1>2. /\ RoleIds' /\ Touches(s, RoleOps) /\ tx'[s].op = "none" /\ overlap' = overlap
      /\ \A j \in DOMAIN roles : j = i \/ (roles'[j] = roles[j] /\ j \in DOMAIN roles')
      /\ \A j \in DOMAIN roles' : j \in DOMAIN roles \cup Owned(s)
  BY <1>1, IdsUsed DEF RolesInv
<1>3. SUFFICES ASSUME "role" \notin overlap
               PROVE  RoleInv'
  BY <1>2 DEF RolesInv, RoleInv
<1>4. \A t \in Session : tx'[t].op \notin {"saveUser", "renameRole"}
  BY <1>2, <1>3, RolesApart DEF Touches
<1>5. i \notin DOMAIN roles'
  BY <1>1, FlushedRows
<1>6. ASSUME NEW u \in DOMAIN users'
      PROVE  users'[u] \in Codes(roles)'
  <2>1. PICK j \in DOMAIN roles : users[u] = roles[j]
    BY <1>1, <1>3 DEF RolesInv, RoleInv, Codes
  <2>2. j # i
    BY <1>1, <1>3, <2>1 DEF RolesInv, RoleInv
  <2> QED
    BY <1>1, <1>2, <2>1, <2>2 DEF Codes
<1>7. ASSUME NEW t \in Session, tx'[t].op = "deleteRole", tx'[t].request.role \in DOMAIN roles'
      PROVE  \A u \in DOMAIN users' : users'[u] # roles'[tx'[t].request.role]
  <2>1. t # s /\ tx[t].op = "deleteRole" /\ tx'[t] = tx[t]
    BY <1>2, <1>7 DEF Touches
  <2>2. tx[t].request.role \in DOMAIN roles
    BY <1>1, <1>2, <1>7, <2>1 DEF RolesInv, RoleIds
  <2>3. tx[t].request.role # i
    BY <1>5, <1>7, <2>1
  <2> QED
    BY <1>1, <1>2, <1>3, <2>1, <2>2, <2>3 DEF RolesInv, RoleInv
<1> QED
  BY <1>4, <1>6, <1>7 DEF RoleInv

LEMMA RolesRestarted ==
    ASSUME RolesInv, Restart
    PROVE  RolesInv'
<1>1. /\ DOMAIN Seeds \subseteq RoleId \ ids /\ roles' = Seeded /\ ids' = ids \cup DOMAIN Seeds
      /\ users' = users /\ overlap' = overlap
      /\ \A t \in Session : tx'[t].op = "none"
  BY RestartFrame DEF Restart, RestartIdentity
<1>2. DOMAIN Seeded = DOMAIN Seeds \cup DOMAIN roles /\ Codes(roles) \subseteq Codes(Seeded)
  BY <1>1, SeedRows DEF RolesInv
<1>3. RoleIds'
  BY <1>1, <1>2 DEF RolesInv, RoleIds, RoleOps
<1>4. \A u \in DOMAIN users : "role" \notin overlap => users[u] \in Codes(Seeded)
  BY <1>2 DEF RolesInv, RoleInv
<1>5. RoleInv'
  BY <1>1, <1>4 DEF RoleInv, Codes
<1> QED
  BY <1>3, <1>5 DEF RolesInv

LEMMA RolesKept ==
    ASSUME SessionsInv, [Next]_vars, RolesInv
    PROVE  RolesInv'
<1>1. ASSUME Quiet(RoleOps), UNCHANGED identityVars
      PROVE  RolesInv'
  BY <1>1, RolesQuiet DEF identityVars
<1>2. ASSUME NEW s \in Session, RoleStep(s)
      PROVE  RolesInv'
  <2>1. ASSUME CommitRoles(s)
        PROVE  RolesInv'
    <3>1. /\ tx[s].op \in RoleOps \ {"saveUser"} /\ Closes(s) /\ roles' = Flushed(s)
          /\ tx[s].op # "renameRole" => users' = users
      BY <2>1 DEF CommitRoles
    <3>2. CASE tx[s].op \in {"viewRoles", "createRole"}
      BY <3>1, <3>2, RolesAdded
    <3> QED
      BY <2>1, <3>1, <3>2, RoleRenamed, RoleDeleted DEF RoleOps
  <2>2. ASSUME CommitUser(s)
        PROVE  RolesInv'
    <3>1. /\ tx[s].op = "saveUser" /\ Closes(s) /\ roles' = Flushed(s) /\ tx[s].op \in RoleOps
          /\ users' = Over(tx[s].request.users, users)
      BY <2>2 DEF CommitUser, RoleOps
    <3> QED
      BY <3>1, RolesAdded
  <2>3. ASSUME RollbackRoles(s)
        PROVE  RolesInv'
    <3>1. Quiet(RoleOps) /\ UNCHANGED identityVars
      BY <2>3, IdleOp DEF RollbackRoles, Quiet, SessionsInv, RoleOps
    <3> QED
      BY <1>1, <3>1
  <2> QED
    BY <1>2, <2>1, <2>2, <2>3, RolesRequested, RoleFlushed DEF RoleStep, IdentityCommit
<1>3. CASE UserStep
  <2>1. UNCHANGED <<tx, ids, overlap, roles>> /\ DOMAIN users' \subseteq DOMAIN users
        /\ \A u \in DOMAIN users' : users'[u] = users[u]
    BY <1>3, UserFrame DEF UserStep, DeleteUser, Restrict
  <2> QED
    BY <2>1, RolesQuiet DEF Quiet
<1>4. CASE UNCHANGED vars \/ RunStep \/ \E s \in Session : RollbackStep(s)
  <2>1. Quiet(RoleOps) /\ UNCHANGED identityVars
    BY <1>4, RunFrame, RollbackFrame, IdleOp DEF Quiet, Touches, RoleOps, vars, requestVars
  <2> QED
    BY <1>1, <2>1
<1>5. ASSUME NEW s \in Session, NEW ops, Touches(s, ops), ops \cap RoleOps = {}, UNCHANGED identityVars
      PROVE  RolesInv'
  <2>1. Quiet(RoleOps)
    BY <1>5, OthersQuiet DEF RoleOps
  <2> QED
    BY <1>1, <1>5, <2>1
<1>6. ASSUME NEW s \in Session, \/ GroupStep(s) \/ DeviceStep(s) \/ RemovalStep(s) \/ CredentialStep(s)
                                \/ ScheduleStep(s) \/ BackupStep(s) \/ RoutingStep(s)
      PROVE  RolesInv'
  <2>1. CASE GroupStep(s)
    BY <1>5, <2>1, GroupFrame DEF GroupOps, RoleOps
  <2>2. CASE DeviceStep(s)
    BY <1>5, <2>2, DeviceFrame DEF DeviceOps, RoleOps
  <2>3. CASE RemovalStep(s)
    BY <1>5, <2>3, RemovalFrame DEF RoleOps
  <2>4. CASE CredentialStep(s)
    BY <1>5, <2>4, CredentialFrame DEF RoleOps
  <2>5. CASE ScheduleStep(s)
    BY <1>5, <2>5, ScheduleFrame DEF ScheduleOps, RoleOps
  <2>6. CASE BackupStep(s)
    BY <1>5, <2>6, BackupFrame DEF BackupOps, RoleOps
  <2>7. CASE RoutingStep(s)
    BY <1>5, <2>7, RoutingFrame DEF RoutingOps, RoleOps
  <2> QED
    BY <1>6, <2>1, <2>2, <2>3, <2>4, <2>5, <2>6, <2>7
<1> QED
  BY <1>2, <1>3, <1>4, <1>6, StepKinds, RolesRestarted

-----------------------------------------------------------------------------
(* What the process keeps in memory. *)

\* A step of others: none of ops begins, goes on or ends.
Apart(ops) ==
    /\ overlap \subseteq overlap'
    /\ \A t \in Session : tx'[t] = tx[t] \/ (tx[t].op \notin ops /\ tx'[t].op \notin ops)

LEMMA OthersApart ==
    ASSUME NEW s \in Session, NEW A, NEW B, Touches(s, A), A \cap B = {}, "none" \notin B
    PROVE  Apart(B)
BY DEF Touches, Apart

\* Unless raced, the role cache is what the one session that changes roles sees.
CacheInv ==
    "cache" \notin overlap =>
        /\ (\A t \in Session : tx[t].op \notin RoleOps) => cache = Refreshed(roles)
        /\ \A t \in Session : tx[t].op \in RoleOps =>
              cache = Refreshed(IF tx[t].stage = "open" THEN Flushed(t) ELSE Sees(t))

LEMMA CacheQuiet ==
    ASSUME CacheInv, Apart(RoleOps), UNCHANGED <<roles, cache>>
    PROVE  CacheInv'
<1>1. \A t \in Session : tx'[t].op \in RoleOps => tx'[t] = tx[t] /\ tx[t].op \in RoleOps
  BY DEF Apart
<1>2. \A t \in Session : tx[t].op \in RoleOps => tx'[t] = tx[t] /\ tx'[t].op \in RoleOps
  BY DEF Apart
<1>3. \A t \in Session : tx'[t].op \in RoleOps => Flushed(t)' = Flushed(t) /\ Sees(t)' = Sees(t)
  BY <1>1 DEF Flushed, Sees
<1>4. Refreshed(roles)' = Refreshed(roles)
  BY DEF Refreshed, Codes
<1> QED
  BY <1>1, <1>2, <1>3, <1>4 DEF CacheInv, Apart, Refreshed, Codes

\* Two sessions of ops are a race that is noted.
LEMMA OneAtATime ==
    ASSUME SessionsInv, NEW s \in Session, NEW t \in Session \ {s}
    PROVE  /\ "cache" \notin overlap => tx[s].op \notin RoleOps \/ tx[t].op \notin RoleOps
           /\ "reload" \notin overlap => tx[s].op \notin ScheduleOps \/ tx[t].op \notin ScheduleOps
<1>1. Raced(tx[s].op, tx[t].op) \subseteq overlap
  BY DEF SessionsInv, RacesNoted
<1> QED
  BY <1>1, RacesOf

LEMMA CacheKeptByRoles ==
    ASSUME SessionsInv, SessionsInv', CacheInv, NEW s \in Session, RoleStep(s)
    PROVE  CacheInv'
<1>1. Touches(s, RoleOps)
  BY RoleFrame
<1>2. SUFFICES ASSUME "cache" \notin overlap'
               PROVE  CacheInv'
  BY DEF CacheInv
<1>3. "cache" \notin overlap
  BY <1>1, <1>2 DEF Touches
<1>4. \A t \in Session \ {s} : tx'[t] = tx[t] /\ (tx[s].op \in RoleOps \/ tx'[s].op \in RoleOps => tx[t].op \notin RoleOps)
  <2> TAKE t \in Session \ {s}
  <2>1. tx'[t] = tx[t]
    BY <1>1 DEF Touches
  <2>2. tx[s].op \in RoleOps => tx[t].op \notin RoleOps
    BY <1>3, OneAtATime
  <2>3. tx'[s].op \in RoleOps => tx'[t].op \notin RoleOps
    <3>1. Raced(tx'[s].op, tx'[t].op) \subseteq overlap'
      BY DEF SessionsInv, RacesNoted
    <3> QED
      BY <1>2, <3>1, RacesOf
  <2> QED
    BY <2>1, <2>2, <2>3
<1>5. ASSUME NEW op \in RoleOps, NEW request, NEW new, Asked(s, op, request, new)
      PROVE  CacheInv'
  <2>1. /\ tx'[s].op \in RoleOps /\ tx'[s].stage = "checked" /\ cache' = Refreshed(Seeded)
        /\ tx'[s].seeds = Seeds /\ roles' = roles
    BY <1>5 DEF Asked
  <2>2. Sees(s)' = Seeded
    BY <2>1 DEF Sees, Seeded
  <2>3. cache' = Refreshed(Sees(s)')
    BY <2>1, <2>2
  <2> QED
    BY <1>4, <2>1, <2>3 DEF CacheInv, Refreshed, Codes
<1>6. ASSUME IdentityRequest(s)
      PROVE  CacheInv'
  <2>1. ASSUME NEW op \in RoleOps, NEW request, NEW new, OpensRoles(s, op, request, new)
        PROVE  CacheInv'
    BY <1>5, <2>1, AskedBy
  <2> QED
    BY <1>6, <2>1 DEF IdentityRequest, ViewRoles, CreateRole, RenameRole, DeleteRole, SaveUser, RoleOps
<1>7. ASSUME FlushRole(s)
      PROVE  CacheInv'
  <2>1. /\ tx[s].op \in RoleOps /\ tx'[s].op = tx[s].op /\ tx'[s].stage = "open" /\ tx'[s].seeds = tx[s].seeds
        /\ tx'[s].request = tx[s].request /\ roles' = roles /\ cache' = Refreshed(Flushed(s))
    BY <1>7 DEF FlushRole, Continues, RoleOps, SessionsInv
  <2>2. Flushed(s)' = Flushed(s)
    BY <2>1 DEF Flushed
  <2>3. cache' = Refreshed(Flushed(s)')
    BY <2>1, <2>2
  <2> QED
    BY <1>4, <2>1, <2>3 DEF CacheInv, Refreshed, Codes
<1>8. ASSUME tx[s].op \in RoleOps, roles' = Flushed(s), cache' = cache, Closes(s),
             tx[s].stage = "open" \/ tx[s].op \in {"viewRoles", "saveUser"}
      PROVE  CacheInv'
  <2>1. cache = Refreshed(Flushed(s))
    BY <1>3, <1>8, FlushedRows DEF CacheInv
  <2>2. cache' = Refreshed(roles')
    BY <1>8, <2>1
  <2>3. \A t \in Session : tx'[t].op \notin RoleOps
    <3>1. tx'[s].op = "none"
      BY <1>8, Closing, IdleOp DEF SessionsInv
    <3> QED
      BY <1>4, <1>8, <3>1 DEF RoleOps
  <2> QED
    BY <2>2, <2>3 DEF CacheInv, Refreshed, Codes
<1>9. ASSUME CommitRoles(s)
      PROVE  CacheInv'
  BY <1>8, <1>9 DEF CommitRoles
<1>10. ASSUME CommitUser(s)
      PROVE  CacheInv'
  BY <1>8, <1>10 DEF CommitUser, RoleOps
<1>11. ~RollbackRoles(s)
  BY <1>2 DEF RollbackRoles
<1> QED
  BY <1>6, <1>7, <1>9, <1>10, <1>11 DEF RoleStep, IdentityCommit

LEMMA CacheKept ==
    ASSUME SessionsInv, SessionsInv', [Next]_vars, CacheInv
    PROVE  CacheInv'
<1>1. ASSUME NEW s \in Session, NEW ops, Touches(s, ops), ops \cap RoleOps = {}, UNCHANGED identityVars
      PROVE  CacheInv'
  BY <1>1, OthersApart, CacheQuiet DEF RoleOps, identityVars
<1>2. CASE UNCHANGED vars \/ UserStep \/ RunStep
  <2>1. UNCHANGED <<tx, roles, cache>> /\ overlap \subseteq overlap'
    BY <1>2, UserFrame, RunFrame DEF vars, requestVars, identityVars
  <2> QED
    BY <2>1, CacheQuiet DEF Apart
<1>3. CASE Restart
  <2>1. /\ \A t \in Session : tx'[t].op \notin RoleOps
        /\ roles' = Seeded /\ cache' = Refreshed(Seeded)
    BY <1>3, RestartFrame DEF Restart, RestartIdentity, RoleOps
  <2> QED
    BY <2>1 DEF CacheInv, Refreshed, Codes
<1>4. ASSUME NEW s \in Session, RollbackStep(s)
      PROVE  CacheInv'
  BY <1>1, <1>4, RollbackFrame DEF RollbackStep, Rollback
<1>5. ASSUME NEW s \in Session, \/ GroupStep(s) \/ DeviceStep(s) \/ RemovalStep(s) \/ CredentialStep(s)
                                \/ ScheduleStep(s) \/ BackupStep(s) \/ RoutingStep(s)
      PROVE  CacheInv'
  <2>1. CASE GroupStep(s)
    BY <1>1, <2>1, GroupFrame DEF GroupOps, RoleOps
  <2>2. CASE DeviceStep(s)
    BY <1>1, <2>2, DeviceFrame DEF DeviceOps, RoleOps
  <2>3. CASE RemovalStep(s)
    BY <1>1, <2>3, RemovalFrame DEF RoleOps
  <2>4. CASE CredentialStep(s)
    BY <1>1, <2>4, CredentialFrame DEF RoleOps
  <2>5. CASE ScheduleStep(s)
    BY <1>1, <2>5, ScheduleFrame DEF ScheduleOps, RoleOps
  <2>6. CASE BackupStep(s)
    BY <1>1, <2>6, BackupFrame DEF BackupOps, RoleOps
  <2>7. CASE RoutingStep(s)
    BY <1>1, <2>7, RoutingFrame DEF RoutingOps, RoleOps
  <2> QED
    BY <1>5, <2>1, <2>2, <2>3, <2>4, <2>5, <2>6, <2>7
<1> QED
  BY <1>2, <1>3, <1>4, <1>5, StepKinds, CacheKeptByRoles

ScheduleColumns == {"on", "targets"}

\* The rows of schedules have their columns, and a reload goes through its stages.
ScheduleRows ==
    /\ \A x \in DOMAIN schedules : DOMAIN schedules[x] = ScheduleColumns
    /\ \A t \in Session : tx[t].op \in ScheduleOps =>
          /\ tx[t].stage \in {"open", "reload", "clear", "add"}
          /\ tx[t].op # "deleteSchedule" /\ tx[t].stage = "open" => DOMAIN tx[t].row = ScheduleColumns

\* Unless raced, the jobs are the enabled schedules until a change has committed,
\* and what a reload has found is the enabled schedules until it ends.
JobsInv ==
    "reload" \notin overlap =>
        /\ (\A t \in Session : tx[t].op \notin ScheduleOps) => jobs = Enabled
        /\ \A t \in Session : tx[t].op \in ScheduleOps =>
              /\ tx[t].stage = "open" => jobs = Enabled
              /\ tx[t].stage \in {"clear", "add"} => tx[t].found = Enabled
              /\ tx[t].stage = "add" => jobs = {}

SchedulerInv == ScheduleRows /\ JobsInv

LEMMA SchedulerQuiet ==
    ASSUME SchedulerInv, Apart(ScheduleOps), jobs' = jobs, DOMAIN schedules' = DOMAIN schedules,
           \A x \in DOMAIN schedules : DOMAIN schedules'[x] = ScheduleColumns /\ schedules'[x].on = schedules[x].on
    PROVE  SchedulerInv'
<1>1. Enabled' = Enabled
  BY DEF Enabled
<1>2. ScheduleRows'
  BY DEF SchedulerInv, ScheduleRows, Apart
<1>3. JobsInv'
  BY <1>1 DEF SchedulerInv, JobsInv, Apart
<1> QED
  BY <1>2, <1>3 DEF SchedulerInv

LEMMA ScheduleHeld ==
    ASSUME SessionsInv, SchedulerInv, NEW s \in Session, Touches(s, ScheduleOps), UNCHANGED <<schedules, jobs>>,
           tx[s].op = "none", tx'[s].op \in ScheduleOps, tx'[s].stage = "open",
           tx'[s].op # "deleteSchedule" => DOMAIN tx'[s].row = ScheduleColumns,
           SessionsInv'
    PROVE  SchedulerInv'
<1>1. ScheduleRows'
  BY DEF SchedulerInv, ScheduleRows, Touches
<1>2. ASSUME "reload" \notin overlap'
      PROVE  jobs = Enabled /\ \A t \in Session \ {s} : tx'[t].op \notin ScheduleOps
  <2>1. "reload" \notin overlap
    BY <1>2 DEF Touches
  <2>2. ASSUME NEW t \in Session \ {s}
        PROVE  tx'[t].op \notin ScheduleOps /\ tx[t].op \notin ScheduleOps
    <3>1. Raced(tx'[s].op, tx'[t].op) \subseteq overlap' /\ tx'[t] = tx[t]
      BY DEF SessionsInv, RacesNoted, Touches
    <3> QED
      BY <1>2, <3>1, RacesOf
  <2>3. \A t \in Session : tx[t].op \notin ScheduleOps
    BY <2>2 DEF ScheduleOps
  <2> QED
    BY <2>1, <2>2, <2>3 DEF SchedulerInv, JobsInv
<1>3. JobsInv'
  BY <1>2 DEF JobsInv, Enabled
<1> QED
  BY <1>1, <1>3 DEF SchedulerInv

LEMMA SchedulerKeptBySchedules ==
    ASSUME SessionsInv, SessionsInv', SchedulerInv, NEW s \in Session, ScheduleStep(s)
    PROVE  SchedulerInv'
<1>1. Touches(s, ScheduleOps)
  BY ScheduleFrame
<1>2. ASSUME NEW x, NEW on, NEW targets, SaveSchedule(s, x, on, targets)
      PROVE  SchedulerInv'
  <2>1. PICK row : row = [on |-> on, targets |-> Normal(targets)]
    OBVIOUS
  <2>2. PICK columns : Opens(s, [op |-> "saveSchedule", stage |-> "open", schedule |-> x,
                                 new |-> x \notin DOMAIN schedules, row |-> row, columns |-> columns])
    BY <1>2, <2>1 DEF SaveSchedule
  <2>3. /\ tx[s].op = "none" /\ tx'[s].op = "saveSchedule" /\ tx'[s].stage = "open" /\ tx'[s].row = row
        /\ UNCHANGED inventoryVars
    BY <1>2, <2>2, Opened DEF SaveSchedule, Opens, SessionsInv
  <2>4. DOMAIN row = ScheduleColumns
    BY <2>1 DEF ScheduleColumns
  <2> QED
    BY <1>1, <2>3, <2>4, ScheduleHeld DEF inventoryVars, ScheduleOps
<1>3. ASSUME NEW x, ToggleSchedule(s, x)
      PROVE  SchedulerInv'
  <2>1. /\ tx[s].op = "none" /\ tx'[s].op = "toggleSchedule" /\ tx'[s].stage = "open"
        /\ tx'[s].row = [schedules[x] EXCEPT !.on = ~schedules[x].on]
        /\ UNCHANGED inventoryVars /\ x \in DOMAIN schedules
    BY <1>3, Opened DEF ToggleSchedule, Opens, SessionsInv
  <2>2. DOMAIN tx'[s].row = ScheduleColumns
    BY <2>1 DEF SchedulerInv, ScheduleRows
  <2> QED
    BY <1>1, <2>1, <2>2, ScheduleHeld DEF inventoryVars, ScheduleOps
<1>4. ASSUME NEW x, DeleteSchedule(s, x)
      PROVE  SchedulerInv'
  <2>1. /\ tx[s].op = "none" /\ tx'[s].op = "deleteSchedule" /\ tx'[s].stage = "open"
        /\ UNCHANGED inventoryVars
    BY <1>4, Opened DEF DeleteSchedule, Opens, SessionsInv
  <2> QED
    BY <1>1, <2>1, ScheduleHeld DEF inventoryVars, ScheduleOps
<1>5. ASSUME tx[s].op \in ScheduleOps, overlap' = overlap, "reload" \notin overlap
      PROVE  \A t \in Session \ {s} : tx'[t] = tx[t] /\ tx'[t].op \notin ScheduleOps
  BY <1>1, <1>5, OneAtATime DEF Touches
<1>6. ASSUME CommitSchedule(s)
      PROVE  SchedulerInv'
  <2>1. /\ tx[s].op \in ScheduleOps /\ overlap' = overlap /\ tx'[s] = [op |-> tx[s].op, stage |-> "reload"]
        /\ tx[s].stage = "open"
    <3>1. tx[s].op \in ScheduleOps /\ tx[s].stage = "open"
      BY <1>6 DEF CommitSchedule, Ready, ScheduleOps
    <3>2. Continues(s, [op |-> tx[s].op, stage |-> "reload"])
      BY <1>6 DEF CommitSchedule
    <3> QED
      BY <3>1, <3>2 DEF Continues, SessionsInv
  <2>2. ASSUME NEW x \in DOMAIN schedules'
        PROVE  DOMAIN schedules'[x] = ScheduleColumns
    <3>1. CASE tx[s].op = "deleteSchedule"
      <4>1. x \in DOMAIN schedules /\ schedules'[x] = schedules[x]
        BY <1>6, <2>2, <3>1 DEF CommitSchedule, Ready, Restrict
      <4> QED
        BY <4>1 DEF SchedulerInv, ScheduleRows
    <3>2. CASE tx[s].op # "deleteSchedule"
      <4>1. PICK row : /\ row = IF tx[s].new THEN tx[s].row
                                ELSE Updated(schedules[tx[s].schedule], tx[s].columns, tx[s].row)
                       /\ schedules' = Over(Only(tx[s].schedule, row), schedules)
                       /\ tx[s].new = (tx[s].schedule \notin DOMAIN schedules)
        BY <1>6, <3>2 DEF CommitSchedule, Ready
      <4>2. DOMAIN row = ScheduleColumns
        <5>1. CASE tx[s].new
          BY <2>1, <3>2, <4>1, <5>1 DEF SchedulerInv, ScheduleRows
        <5>2. CASE ~tx[s].new
          <6>1. DOMAIN schedules[tx[s].schedule] = ScheduleColumns
            BY <4>1, <5>2 DEF SchedulerInv, ScheduleRows
          <6> QED
            BY <4>1, <5>2, <6>1 DEF Updated
        <5> QED
          BY <5>1, <5>2
      <4>3. schedules'[x] = row \/ (x \in DOMAIN schedules /\ schedules'[x] = schedules[x])
        BY <2>2, <4>1 DEF Over, Only
      <4> QED
        BY <4>2, <4>3 DEF SchedulerInv, ScheduleRows
    <3> QED
      BY <3>1, <3>2
  <2>3. ScheduleRows'
    BY <1>1, <2>1, <2>2 DEF SchedulerInv, ScheduleRows, Touches
  <2>4. JobsInv'
    BY <1>5, <2>1 DEF JobsInv
  <2> QED
    BY <2>3, <2>4 DEF SchedulerInv
<1>7. ASSUME ReadJobs(s)
      PROVE  SchedulerInv'
  <2>1. /\ tx[s].op \in ScheduleOps /\ overlap' = overlap
        /\ tx'[s] = [op |-> tx[s].op, stage |-> "clear", found |-> Enabled]
        /\ UNCHANGED <<schedules, jobs>>
    BY <1>7, GoingOn DEF ReadJobs, SessionsInv, inventoryVars
  <2>2. ScheduleRows'
    BY <1>1, <2>1 DEF SchedulerInv, ScheduleRows, Touches
  <2>3. Enabled' = Enabled
    BY <2>1 DEF Enabled
  <2>4. JobsInv'
    BY <1>5, <2>1, <2>3 DEF JobsInv
  <2> QED
    BY <2>2, <2>4 DEF SchedulerInv
<1>8. ASSUME RemoveJobs(s)
      PROVE  SchedulerInv'
  <2>1. /\ tx[s].op \in ScheduleOps /\ overlap' = overlap /\ tx[s].stage = "clear"
        /\ tx'[s] = [op |-> tx[s].op, stage |-> "add", found |-> tx[s].found]
        /\ schedules' = schedules /\ jobs' = {}
    BY <1>8, GoingOn DEF RemoveJobs, SessionsInv
  <2>2. ScheduleRows'
    BY <1>1, <2>1 DEF SchedulerInv, ScheduleRows, Touches
  <2>3. Enabled' = Enabled
    BY <2>1 DEF Enabled
  <2>4. JobsInv'
    BY <1>5, <2>1, <2>3 DEF JobsInv, SchedulerInv
  <2> QED
    BY <2>2, <2>4 DEF SchedulerInv
<1>9. ASSUME AddJobs(s)
      PROVE  SchedulerInv'
  <2>1. /\ tx[s].op \in ScheduleOps /\ overlap' = overlap /\ tx[s].stage = "add"
        /\ tx'[s].op = "none" /\ schedules' = schedules /\ jobs' = jobs \cup tx[s].found
    BY <1>9, Closing, IdleOp DEF AddJobs, SessionsInv
  <2>2. ScheduleRows'
    BY <1>1, <2>1 DEF SchedulerInv, ScheduleRows, Touches, ScheduleOps
  <2>3. Enabled' = Enabled
    BY <2>1 DEF Enabled
  <2>4. "reload" \notin overlap => jobs' = Enabled
    BY <2>1 DEF JobsInv, SchedulerInv
  <2>5. JobsInv'
    BY <1>5, <2>1, <2>3, <2>4 DEF JobsInv, ScheduleOps
  <2> QED
    BY <2>2, <2>5 DEF SchedulerInv
<1>10. ASSUME ReloadFails(s)
      PROVE  SchedulerInv'
  <2>1. "reload" \in overlap' /\ tx'[s].op = "none" /\ schedules' = schedules
    BY <1>10, IdleOp DEF ReloadFails, SessionsInv, inventoryVars
  <2>2. ScheduleRows'
    BY <1>1, <2>1 DEF SchedulerInv, ScheduleRows, Touches, ScheduleOps
  <2> QED
    BY <2>1, <2>2 DEF SchedulerInv, JobsInv
<1> QED
  BY <1>2, <1>3, <1>4, <1>6, <1>7, <1>8, <1>9, <1>10 DEF ScheduleStep

LEMMA SchedulerKept ==
    ASSUME SessionsInv, SessionsInv', [Next]_vars, SchedulerInv
    PROVE  SchedulerInv'
<1>1. ASSUME Apart(ScheduleOps), UNCHANGED <<schedules, jobs>>
      PROVE  SchedulerInv'
  <2>1. \A x \in DOMAIN schedules : DOMAIN schedules[x] = ScheduleColumns
    BY DEF SchedulerInv, ScheduleRows
  <2> QED
    BY <1>1, <2>1, SchedulerQuiet
<1>2. ASSUME NEW s \in Session, NEW ops, Touches(s, ops), ops \cap ScheduleOps = {}, UNCHANGED <<schedules, jobs>>
      PROVE  SchedulerInv'
  BY <1>1, <1>2, OthersApart DEF ScheduleOps
<1>3. CASE UNCHANGED vars \/ UserStep \/ RunStep
  <2>1. UNCHANGED <<tx, schedules, jobs>> /\ overlap \subseteq overlap'
    BY <1>3, UserFrame, RunFrame DEF vars, requestVars, inventoryVars
  <2> QED
    BY <1>1, <2>1 DEF Apart
<1>4. CASE Restart
  <2>1. /\ \A t \in Session : tx'[t].op \notin ScheduleOps
        /\ schedules' = schedules /\ jobs' = Enabled
    BY <1>4, RestartFrame DEF Restart, RestartInventory, ScheduleOps
  <2>2. Enabled' = Enabled
    BY <2>1 DEF Enabled
  <2> QED
    BY <2>1, <2>2 DEF SchedulerInv, ScheduleRows, JobsInv
<1>5. ASSUME NEW s \in Session, RollbackStep(s)
      PROVE  SchedulerInv'
  <2>1. /\ Touches(s, {tx[s].op}) /\ tx'[s].op = "none" /\ overlap' = overlap
        /\ tx[s].stage \in {"open", "moving"} /\ UNCHANGED <<schedules, jobs>>
    BY <1>5, RollbackFrame, IdleOp DEF inventoryVars
  <2>2. CASE tx[s].op \notin ScheduleOps
    BY <1>2, <2>1, <2>2
  <2>3. CASE tx[s].op \in ScheduleOps
    <3>1. tx[s].stage = "open"
      BY <2>1, <2>3 DEF SchedulerInv, ScheduleRows
    <3>2. ScheduleRows'
      BY <2>1 DEF SchedulerInv, ScheduleRows, Touches, ScheduleOps
    <3>3. Enabled' = Enabled
      BY <2>1 DEF Enabled
    <3>4. "none" \notin ScheduleOps
      BY DEF ScheduleOps
    <3>5. JobsInv'
      BY <2>1, <2>3, <3>1, <3>3, <3>4, OneAtATime DEF SchedulerInv, JobsInv, Touches
    <3> QED
      BY <3>2, <3>5 DEF SchedulerInv
  <2> QED
    BY <2>2, <2>3
<1>6. ASSUME NEW s \in Session, RemovalStep(s)
      PROVE  SchedulerInv'
  <2>1. Apart(ScheduleOps) /\ jobs' = jobs
    BY <1>6, RemovalFrame, OthersApart DEF ScheduleOps
  <2>2. CASE schedules' = schedules
    BY <1>1, <2>1, <2>2
  <2>3. CASE CommitDeleteDevices(s)
    <3>1. DOMAIN schedules' = DOMAIN schedules
      BY <2>3 DEF CommitDeleteDevices
    <3>2. ASSUME NEW x \in DOMAIN schedules
          PROVE  DOMAIN schedules'[x] = ScheduleColumns /\ schedules'[x].on = schedules[x].on
      <4>1. DOMAIN schedules[x] = ScheduleColumns /\ "on" \in ScheduleColumns
        BY DEF SchedulerInv, ScheduleRows, ScheduleColumns
      <4>2. \/ schedules'[x] = schedules[x]
            \/ schedules'[x] = [schedules[x] EXCEPT !.targets = tx[s].targets[x]]
        BY <2>3 DEF CommitDeleteDevices
      <4> QED
        BY <4>1, <4>2
    <3> QED
      BY <2>1, <3>1, <3>2, SchedulerQuiet
  <2> QED
    BY <1>6, <2>2, <2>3 DEF RemovalStep, DeleteDevices, inventoryVars
<1>7. ASSUME NEW s \in Session, \/ GroupStep(s) \/ DeviceStep(s) \/ CredentialStep(s)
                                \/ BackupStep(s) \/ RoleStep(s) \/ RoutingStep(s)
      PROVE  SchedulerInv'
  <2>1. CASE GroupStep(s)
    BY <1>2, <2>1, GroupFrame DEF GroupOps, ScheduleOps
  <2>2. CASE DeviceStep(s)
    BY <1>2, <2>2, DeviceFrame DEF DeviceOps, ScheduleOps
  <2>3. CASE CredentialStep(s)
    BY <1>2, <2>3, CredentialFrame DEF ScheduleOps
  <2>4. CASE BackupStep(s)
    BY <1>2, <2>4, BackupFrame DEF BackupOps, ScheduleOps
  <2>5. CASE RoleStep(s)
    BY <1>2, <2>5, RoleFrame DEF RoleOps, ScheduleOps, inventoryVars
  <2>6. CASE RoutingStep(s)
    BY <1>2, <2>6, RoutingFrame DEF RoutingOps, ScheduleOps, inventoryVars
  <2> QED
    BY <1>7, <2>1, <2>2, <2>3, <2>4, <2>5, <2>6
<1> QED
  BY <1>3, <1>4, <1>5, <1>6, <1>7, StepKinds, SchedulerKeptBySchedules


-----------------------------------------------------------------------------
(* Paths. *)

\* A path is a sequence of groups that ends in the group it is the path of.
Ends(path, g) == path \in Seq(Group) /\ Len(path) > 0 /\ path[Len(path)] = g

\* The path under another one, in place of the old one.
Rebase(path, old, new) == new \o SubSeq(path, Len(old) + 1, Len(path))

LEMMA PrefixByIndex ==
    ASSUME NEW a \in Seq(Group), NEW b \in Seq(Group)
    PROVE  IsPrefix(a, b) <=> Len(a) <= Len(b) /\ \A i \in 1..Len(a) : a[i] = b[i]
<1>1. CASE Len(a) <= Len(b)
  <2>1. /\ SubSeq(a, 1, Len(a)) \in Seq(Group) /\ Len(SubSeq(a, 1, Len(a))) = Len(a)
        /\ SubSeq(b, 1, Len(a)) \in Seq(Group) /\ Len(SubSeq(b, 1, Len(a))) = Len(a)
        /\ \A i \in 1..Len(a) : SubSeq(a, 1, Len(a))[i] = a[i] /\ SubSeq(b, 1, Len(a))[i] = b[i]
    BY <1>1
  <2>2. SubSeq(a, 1, Len(a)) = SubSeq(b, 1, Len(a)) <=> \A i \in 1..Len(a) : a[i] = b[i]
    BY <2>1
  <2> QED
    BY <1>1, <2>2 DEF IsPrefix
<1>2. CASE ~(Len(a) <= Len(b))
  BY <1>2 DEF IsPrefix
<1> QED
  BY <1>1, <1>2

LEMMA RootPath ==
    ASSUME NEW g \in Group, NEW h \in Group, NEW old, Ends(old, g)
    PROVE  /\ Ends(<<h>>, h) /\ (h # g => ~IsPrefix(old, <<h>>))
<1>1. Ends(<<h>>, h) /\ <<h>> \in Seq(Group) /\ Len(<<h>>) = 1 /\ <<h>>[1] = h
  BY DEF Ends
<1>2. ASSUME IsPrefix(old, <<h>>)
      PROVE  h = g
  <2>1. Len(old) <= 1 /\ \A i \in 1..Len(old) : old[i] = <<h>>[i]
    BY <1>1, <1>2, PrefixByIndex DEF Ends
  <2>2. Len(old) = 1
    BY <2>1 DEF Ends
  <2> QED
    BY <1>1, <2>1, <2>2 DEF Ends
<1> QED
  BY <1>1, <1>2

LEMMA ChildPath ==
    ASSUME NEW g \in Group, NEW h \in Group, NEW old, Ends(old, g), NEW path \in Seq(Group)
    PROVE  /\ Ends(Append(path, h), h)
           /\ h # g => (IsPrefix(old, Append(path, h)) <=> IsPrefix(old, path))
<1> DEFINE child == Append(path, h)
<1>1. /\ child \in Seq(Group) /\ Len(child) = Len(path) + 1 /\ child[Len(path) + 1] = h
      /\ \A i \in 1..Len(path) : child[i] = path[i]
  OBVIOUS
<1>2. Ends(child, h)
  BY <1>1 DEF Ends
<1> HIDE DEF child
<1>3. ASSUME h # g, IsPrefix(old, child)
      PROVE  IsPrefix(old, path)
  <2>1. old \in Seq(Group) /\ Len(old) > 0 /\ old[Len(old)] = g
    BY DEF Ends
  <2>2. Len(old) <= Len(path) + 1 /\ \A i \in 1..Len(old) : old[i] = child[i]
    BY <1>1, <1>3, <2>1, PrefixByIndex
  <2>3. Len(old) # Len(path) + 1
    BY <1>1, <1>3, <2>1, <2>2
  <2>4. Len(old) <= Len(path)
    BY <2>1, <2>2, <2>3
  <2>5. \A i \in 1..Len(old) : old[i] = path[i]
    BY <1>1, <2>1, <2>2, <2>4
  <2> QED
    BY <2>1, <2>4, <2>5, PrefixByIndex
<1>4. ASSUME IsPrefix(old, path)
      PROVE  IsPrefix(old, child)
  <2>1. old \in Seq(Group)
    BY DEF Ends
  <2>2. Len(old) <= Len(path) /\ \A i \in 1..Len(old) : old[i] = path[i]
    BY <1>4, <2>1, PrefixByIndex
  <2>3. Len(old) <= Len(child) /\ \A i \in 1..Len(old) : old[i] = child[i]
    BY <1>1, <2>1, <2>2
  <2> QED
    BY <1>1, <2>1, <2>3, PrefixByIndex
<1> QED
  BY <1>2, <1>3, <1>4 DEF child

\* What is left of a path without its first k groups.
LEMMA RestOfPath ==
    ASSUME NEW path \in Seq(Group), NEW k \in Nat, k <= Len(path), NEW rest,
           rest = SubSeq(path, k + 1, Len(path))
    PROVE  /\ rest \in Seq(Group) /\ Len(rest) = Len(path) - k /\ Len(path) - k \in Nat
           /\ \A i \in 1..(Len(path) - k) : rest[i] = path[k + i]
OBVIOUS

LEMMA RebasedChild ==
    ASSUME NEW h \in Group, NEW path \in Seq(Group), NEW old \in Seq(Group), NEW new \in Seq(Group),
           Len(old) <= Len(path)
    PROVE  Rebase(Append(path, h), old, new) = Append(Rebase(path, old, new), h)
<1>1. PICK k \in Nat, n \in Nat : k = Len(old) /\ n = Len(path) /\ k <= n
  OBVIOUS
<1>a. PICK child : child = Append(path, h)
  OBVIOUS
<1>2. /\ child \in Seq(Group) /\ Len(child) = n + 1 /\ child[n + 1] = h
      /\ \A i \in 1..n : child[i] = path[i]
  BY <1>1, <1>a, AppendProperties
<1>3. PICK rest : rest = SubSeq(path, k + 1, n)
  OBVIOUS
<1>4. PICK whole : whole = SubSeq(child, k + 1, n + 1)
  OBVIOUS
<1>5. rest \in Seq(Group) /\ Len(rest) = n - k /\ \A i \in 1..(n - k) : rest[i] = path[k + i]
  BY <1>1, <1>3, RestOfPath
<1>6. /\ whole \in Seq(Group) /\ Len(whole) = n + 1 - k
      /\ \A i \in 1..(n + 1 - k) : whole[i] = child[k + i]
  BY <1>1, <1>2, <1>4, RestOfPath
<1>b. PICK longer : longer = Append(rest, h)
  OBVIOUS
<1>7. /\ longer \in Seq(Group) /\ Len(longer) = n - k + 1 /\ longer[n - k + 1] = h
      /\ \A i \in 1..(n - k) : longer[i] = rest[i]
  BY <1>1, <1>5, <1>b, AppendProperties
<1>8. whole = longer
  <2>1. ASSUME NEW i \in 1..(n + 1 - k)
        PROVE  whole[i] = longer[i]
    <3>1. CASE i = n + 1 - k
      <4>1. whole[i] = child[k + i] /\ k + i = n + 1 /\ i = n - k + 1
        BY <1>1, <1>6, <3>1
      <4> QED
        BY <1>2, <1>7, <4>1
    <3>2. CASE i \in 1..(n - k)
      <4>a. k + i \in 1..n
        BY <1>1, <3>2
      <4>1. whole[i] = child[k + i] /\ k + i \in 1..n
        BY <1>6, <4>a
      <4> QED
        BY <1>2, <1>5, <1>7, <3>2, <4>1
    <3>3. i = n + 1 - k \/ i \in 1..(n - k)
      BY <1>1
    <3> QED
      BY <3>1, <3>2, <3>3
  <2>2. Len(whole) = Len(longer) /\ Len(whole) = n + 1 - k
    BY <1>1, <1>6, <1>7
  <2>3. \A i \in 1..Len(whole) : whole[i] = longer[i]
    BY <2>1, <2>2
  <2>4. whole \in Seq(Group) /\ longer \in Seq(Group)
    BY <1>6, <1>7
  <2>5. Len(whole) = Len(longer)
    BY <2>2
  <2> QED
    BY <2>3, <2>4, <2>5, SeqEqual, Zenon
<1>9. new \o Append(rest, h) = Append(new \o rest, h)
  <2>1. Append(rest, h) = rest \o <<h>>
    BY <1>5, AppendIsConcat
  <2>2. (new \o rest) \in Seq(Group)
    BY <1>5, ConcatProperties
  <2>a. <<h>> \in Seq(Group)
    OBVIOUS
  <2>3. PICK one : one = <<h>>
    OBVIOUS
  <2>b. one \in Seq(Group) /\ rest \in Seq(Group)
    BY <1>5, <2>3, <2>a
  <2>4. Append(new \o rest, h) = (new \o rest) \o <<h>>
    BY <2>2, AppendIsConcat
  <2>c. \A x, y, z \in Seq(Group) : (x \o y) \o z = x \o (y \o z)
    BY ConcatAssociative
  <2>5. (new \o rest) \o one = new \o (rest \o one)
    BY <2>b, <2>c
  <2> QED
    BY <2>1, <2>3, <2>4, <2>5
<1>10. Rebase(path, old, new) = new \o rest
  BY <1>1, <1>3 DEF Rebase
<1>11. Rebase(Append(path, h), old, new) = new \o whole
  BY <1>1, <1>2, <1>4, <1>a DEF Rebase
<1> QED
  BY <1>8, <1>9, <1>10, <1>11, <1>b

LEMMA RebasedSelf ==
    ASSUME NEW old \in Seq(Group), NEW new \in Seq(Group)
    PROVE  Rebase(old, old, new) = new
BY DEF Rebase

LEMMA RebasedEnds ==
    ASSUME NEW h \in Group, NEW path, Ends(path, h), NEW old \in Seq(Group), NEW new \in Seq(Group),
           Len(old) < Len(path)
    PROVE  Ends(Rebase(path, old, new), h)
<1>1. path \in Seq(Group) /\ path[Len(path)] = h
  BY DEF Ends
<1> DEFINE rest == SubSeq(path, Len(old) + 1, Len(path))
<1>2. rest \in Seq(Group) /\ Len(rest) = Len(path) - Len(old) /\ rest[Len(path) - Len(old)] = h
  BY <1>1
<1>3. Rebase(path, old, new) = new \o rest
  BY DEF Rebase
<1>4. Len(rest) > 0 /\ rest[Len(rest)] = h /\ Len(rest) \in Nat /\ Len(new) \in Nat
  <2>1. Len(path) \in Nat /\ Len(old) \in Nat /\ Len(new) \in Nat
    BY <1>1
  <2> HIDE DEF rest
  <2> QED
    BY <1>2, <2>1
<1> HIDE DEF rest
<1>5. (new \o rest) \in Seq(Group) /\ Len(new \o rest) = Len(new) + Len(rest)
  BY <1>2, ConcatProperties
<1>6. (new \o rest)[Len(new) + Len(rest)] = rest[Len(rest)]
  <2>1. \A i \in 1..(Len(new) + Len(rest)) : (new \o rest)[i] = IF i <= Len(new) THEN new[i] ELSE rest[i - Len(new)]
    BY <1>2, ConcatProperties
  <2>2. Len(new) + Len(rest) \in 1..(Len(new) + Len(rest)) /\ ~(Len(new) + Len(rest) <= Len(new))
        /\ Len(new) + Len(rest) - Len(new) = Len(rest)
    BY <1>4
  <2> QED
    BY <2>1, <2>2
<1> QED
  BY <1>3, <1>4, <1>5, <1>6 DEF Ends

\* Every path ends in its own group, and is the parent's path and the group where the parent is there.
PathsSound(rows) ==
    \A g \in DOMAIN rows :
        /\ Ends(rows[g].path, g)
        /\ rows[g].parent \in DOMAIN rows \cup {None} => rows[g].path = PathUnder(rows, g, rows[g].parent)

IsRow(row) == row = [parent |-> row.parent, path |-> row.path]

\* What a move of group g is to write, from what it has read.
MoveSound(rows, g, row, old) ==
    /\ Ends(old, g) /\ (g \in DOMAIN rows => rows[g].path = old)
    /\ Ends(row.path, g)
    /\ row.parent \in DOMAIN rows \cup {None} => row.path = PathUnder(rows, g, row.parent)
    /\ row.parent \in DOMAIN rows => row.parent # g /\ ~IsPrefix(old, rows[row.parent].path)

\* What it has read of the groups below: all of them, and where they go.
BelowRead(rows, g, row, old, paths) ==
    \A h \in DOMAIN rows \ {g} :
        IF IsPrefix(old, rows[h].path)
        THEN h \in DOMAIN paths /\ paths[h] = Rebase(rows[h].path, old, row.path)
        ELSE h \notin DOMAIN paths

LEMMA LongerBelow ==
    ASSUME NEW g \in Group, NEW h \in Group, h # g, NEW old, Ends(old, g), NEW path, Ends(path, h), IsPrefix(old, path)
    PROVE  Len(old) < Len(path) /\ old \in Seq(Group) /\ path \in Seq(Group)
<1>1. old \in Seq(Group) /\ path \in Seq(Group)
  BY DEF Ends
<1>2. Len(old) <= Len(path) /\ \A i \in 1..Len(old) : old[i] = path[i]
  BY <1>1, PrefixByIndex
<1>3. Len(old) # Len(path)
  BY <1>1, <1>2 DEF Ends
<1> QED
  BY <1>1, <1>2, <1>3

LEMMA MovedSound ==
    ASSUME NEW rows, DOMAIN rows \subseteq Group, PathsSound(rows), \A h \in DOMAIN rows : IsRow(rows[h]),
           NEW g \in DOMAIN rows, NEW row, IsRow(row), NEW old, MoveSound(rows, g, row, old),
           NEW paths, BelowRead(rows, g, row, old, paths), NEW new, new = Moved(rows, g, row, paths)
    PROVE  /\ DOMAIN new = DOMAIN rows /\ new[g] = row
           /\ \A h \in DOMAIN rows \ {g} : new[h].parent = rows[h].parent
           /\ \A h \in DOMAIN new : IsRow(new[h])
           /\ PathsSound(new)
<1>1. /\ DOMAIN new = DOMAIN rows /\ new[g] = row
      /\ \A h \in DOMAIN rows \ {g} :
            new[h] = IF h \in DOMAIN paths THEN [rows[h] EXCEPT !.path = paths[h]] ELSE rows[h]
  BY DEF Moved
<1>2. ASSUME NEW h \in DOMAIN rows \ {g}
      PROVE  /\ new[h].parent = rows[h].parent /\ IsRow(new[h])
             /\ new[h].path = IF IsPrefix(old, rows[h].path) THEN Rebase(rows[h].path, old, row.path) ELSE rows[h].path
  <2>1. CASE h \in DOMAIN paths
    <3>1. new[h] = [rows[h] EXCEPT !.path = paths[h]] /\ IsRow(rows[h])
      BY <1>1, <2>1
    <3>2. new[h] = [parent |-> rows[h].parent, path |-> paths[h]]
      BY <3>1 DEF IsRow
    <3>3. paths[h] = Rebase(rows[h].path, old, row.path) /\ IsPrefix(old, rows[h].path)
      BY <2>1 DEF BelowRead
    <3> QED
      BY <3>2, <3>3 DEF IsRow
  <2>2. CASE h \notin DOMAIN paths
    <3>1. new[h] = rows[h] /\ IsRow(rows[h])
      BY <1>1, <2>2
    <3>2. ~IsPrefix(old, rows[h].path)
      BY <2>2 DEF BelowRead
    <3> QED
      BY <3>1, <3>2
  <2> QED
    BY <2>1, <2>2
<1>3. old \in Seq(Group) /\ row.path \in Seq(Group) /\ rows[g].path = old /\ Ends(old, g) /\ Ends(row.path, g)
  BY DEF MoveSound, Ends
<1>4. ASSUME NEW h \in DOMAIN rows
      PROVE  Ends(new[h].path, h)
  <2>1. CASE h = g
    BY <1>1, <1>3, <2>1
  <2>2. CASE h # g /\ ~IsPrefix(old, rows[h].path)
    BY <1>2, <2>2 DEF PathsSound
  <2>3. CASE h # g /\ IsPrefix(old, rows[h].path)
    <3>1. Ends(rows[h].path, h) /\ h \in Group /\ g \in Group
      BY DEF PathsSound
    <3>2. Len(old) < Len(rows[h].path)
      BY <1>3, <2>3, <3>1, LongerBelow
    <3> QED
      BY <1>2, <1>3, <2>3, <3>1, <3>2, RebasedEnds
  <2> QED
    BY <2>1, <2>2, <2>3
<1>5. ASSUME NEW h \in DOMAIN rows, new[h].parent \in DOMAIN rows \cup {None}
      PROVE  new[h].path = PathUnder(new, h, new[h].parent)
  <2>1. g \in Group /\ h \in Group
    OBVIOUS
  <2>2. CASE h = g
    <3>1. row.path = PathUnder(rows, g, row.parent) /\ new[h] = row
      BY <1>1, <1>5, <2>2 DEF MoveSound
    <3>2. CASE row.parent = None
      BY <2>2, <3>1, <3>2 DEF PathUnder
    <3>3. CASE row.parent # None
      <4>1. row.parent \in DOMAIN rows \ {g} /\ ~IsPrefix(old, rows[row.parent].path)
        BY <1>5, <3>1, <3>3 DEF MoveSound
      <4>2. new[row.parent].path = rows[row.parent].path
        BY <1>2, <4>1
      <4> QED
        BY <2>2, <3>1, <4>2 DEF PathUnder
    <3> QED
      BY <3>2, <3>3
  <2>3. CASE h # g
    <3>1. PICK q : q = rows[h].parent
      OBVIOUS
    <3>2. new[h].parent = q /\ q \in DOMAIN rows \cup {None}
      BY <1>2, <1>5, <2>3, <3>1
    <3>3. rows[h].path = PathUnder(rows, h, q)
      BY <3>1, <3>2 DEF PathsSound
    <3>4. CASE q = None
      <4>1. rows[h].path = <<h>>
        BY <3>3, <3>4 DEF PathUnder
      <4>2. ~IsPrefix(old, rows[h].path)
        BY <1>3, <2>1, <2>3, <4>1, RootPath
      <4> QED
        BY <1>2, <2>3, <3>2, <3>4, <4>1, <4>2 DEF PathUnder
    <3>5. CASE q # None
      <4>1. q \in DOMAIN rows /\ rows[h].path = Append(rows[q].path, h) /\ rows[q].path \in Seq(Group)
        BY <3>2, <3>3, <3>5 DEF PathUnder, PathsSound, Ends
      <4>2. PathUnder(new, h, q) = Append(new[q].path, h)
        BY <3>5 DEF PathUnder
      <4>3. IsPrefix(old, rows[h].path) <=> IsPrefix(old, rows[q].path)
        BY <1>3, <2>1, <2>3, <4>1, ChildPath
      <4>4. CASE ~IsPrefix(old, rows[q].path)
        <5>1. q # g
          BY <1>3, <4>4, PrefixByIndex
        <5>2. new[q].path = rows[q].path /\ new[h].path = rows[h].path
          BY <1>2, <2>3, <4>1, <4>3, <4>4, <5>1
        <5> QED
          BY <3>2, <4>1, <4>2, <5>2
      <4>5. CASE IsPrefix(old, rows[q].path)
        <5>1. new[h].path = Rebase(Append(rows[q].path, h), old, row.path)
          BY <1>2, <2>3, <4>1, <4>3, <4>5
        <5>2. Len(old) <= Len(rows[q].path)
          BY <1>3, <4>1, <4>5, PrefixByIndex
        <5>3. new[h].path = Append(Rebase(rows[q].path, old, row.path), h)
          BY <1>3, <2>1, <4>1, <5>1, <5>2, RebasedChild
        <5>4. new[q].path = Rebase(rows[q].path, old, row.path)
          <6>1. CASE q = g
            BY <1>1, <1>3, <6>1, RebasedSelf
          <6>2. CASE q # g
            BY <1>2, <4>1, <4>5, <6>2
          <6> QED
            BY <6>1, <6>2
        <5> QED
          BY <3>2, <4>2, <5>3, <5>4
      <4> QED
        BY <4>4, <4>5
    <3> QED
      BY <3>4, <3>5
  <2> QED
    BY <2>2, <2>3
<1>6. \A h \in DOMAIN new : IsRow(new[h])
  BY <1>1, <1>2
<1>7. PathsSound(new)
  BY <1>1, <1>4, <1>5 DEF PathsSound
<1> QED
  BY <1>1, <1>2, <1>6, <1>7

-----------------------------------------------------------------------------
(* The tree of groups. *)

TreeOps == GroupOps \cup {"import"}

\* The ids a session is to add rows under, and the ones its rows speak of.
Taken(t) == IF tx[t].op = "createGroup" THEN {tx[t].group}
            ELSE IF tx[t].op = "import" THEN DOMAIN tx[t].groups ELSE {}

Mentions(t) == IF tx[t].op = "createGroup" THEN {tx[t].row.parent}
               ELSE IF tx[t].op = "moveGroup" THEN {tx[t].group, tx[t].row.parent} \cup DOMAIN tx[t].paths
               ELSE IF tx[t].op = "deleteGroup" THEN {tx[t].group} ELSE {}

Known == DOMAIN tree \cup {tree[g].parent : g \in DOMAIN tree}

\* An id names one group for ever: nothing speaks of an id before its row is there.
GroupIds ==
    /\ DOMAIN tree \subseteq Group /\ Known \subseteq ids \cup {None}
    /\ \A t \in Session : /\ Mentions(t) \subseteq ids \cup {None}
                          /\ Taken(t) \subseteq ids \cap Group /\ Taken(t) \cap Known = {}
    /\ \A t, u \in Session : /\ Taken(t) \cap Mentions(u) = {}
                             /\ t # u => Taken(t) \cap Taken(u) = {}

\* The rows that session t holds.
RowHeld(t) ==
    /\ tx[t].op \in {"createGroup", "moveGroup"} => IsRow(tx[t].row)
    /\ tx[t].op = "import" => \A g \in DOMAIN tx[t].groups : tx[t].groups[g] = [parent |-> None, path |-> <<g>>]
    /\ tx[t].op \in {"createGroup", "moveGroup", "deleteGroup"} => tx[t].group \in Group

TreeRows == (\A g \in DOMAIN tree : IsRow(tree[g])) /\ \A t \in Session : RowHeld(t)

ParentHeld(t) ==
    /\ tx[t].op \in {"createGroup", "moveGroup"} => tx[t].row.parent \in DOMAIN tree \cup {None}
    /\ tx[t].op = "deleteGroup" => \A h \in DOMAIN tree : tree[h].parent # tx[t].group

\* Unless raced, or constrained: parents exist, also the ones of rows to be
\* written, and a group to be deleted has no child.
ParentInv ==
    /\ ForeignKey \/ "orphan" \notin overlap => \A g \in DOMAIN tree : tree[g].parent \in DOMAIN tree \cup {None}
    /\ "orphan" \notin overlap => \A t \in Session : ParentHeld(t)

PathHeld(t) ==
    /\ tx[t].op = "createGroup" =>
          /\ Ends(tx[t].row.path, tx[t].group)
          /\ tx[t].row.parent \in DOMAIN tree \cup {None} =>
                tx[t].row.path = PathUnder(tree, tx[t].group, tx[t].row.parent)
    /\ tx[t].op = "moveGroup" =>
          /\ MoveSound(tree, tx[t].group, tx[t].row, tx[t].old)
          /\ tx[t].stage = "open" => BelowRead(tree, tx[t].group, tx[t].row, tx[t].old, tx[t].paths)

\* Unless raced, paths are the parents' paths and the group, also the ones of
\* rows to be written; and a move has read what is below.
PathInv == "tree" \notin overlap => PathsSound(tree) /\ \A t \in Session : PathHeld(t)

TreeInv == GroupIds /\ TreeRows /\ ParentInv /\ PathInv

LEMMA GroupIdsKept ==
    ASSUME GroupIds, NEW s \in Session, \A t \in Session \ {s} : tx'[t] = tx[t], ids \subseteq ids',
           DOMAIN tree' \subseteq Group, Known' \subseteq Known \cup Taken(s) \cup Mentions(s),
           Taken(s)' \subseteq (ids' \ ids) \cap Group, Mentions(s)' \subseteq Mentions(s) \cup Known \cup {None}
    PROVE  GroupIds'
<1>1. \A t \in Session \ {s} : Taken(t)' = Taken(t) /\ Mentions(t)' = Mentions(t)
  BY DEF Taken, Mentions
<1>2. None \notin Group
  BY GroupAssumption
<1>3. Known' \subseteq ids \cup {None} /\ Mentions(s)' \subseteq ids \cup {None}
  BY DEF GroupIds
<1>4. ASSUME NEW t \in Session
      PROVE  /\ Mentions(t)' \subseteq ids' \cup {None}
             /\ Taken(t)' \subseteq ids' \cap Group /\ Taken(t)' \cap Known' = {}
  <2>1. CASE t = s
    BY <1>2, <1>3, <2>1
  <2>2. CASE t # s
    <3>1. Taken(t) \cap (Known \cup Taken(s) \cup Mentions(s)) = {}
      BY <2>2 DEF GroupIds
    <3> QED
      BY <1>1, <2>2, <3>1 DEF GroupIds
  <2> QED
    BY <2>1, <2>2
<1>5. ASSUME NEW t \in Session, NEW u \in Session
      PROVE  /\ Taken(t)' \cap Mentions(u)' = {}
             /\ t # u => Taken(t)' \cap Taken(u)' = {}
  <2>1. CASE t = s /\ u = s
    BY <1>2, <1>3, <2>1
  <2>2. CASE t = s /\ u # s
    <3>1. Mentions(u)' \subseteq ids \cup {None} /\ Taken(u)' \subseteq ids
      BY <1>1, <2>2 DEF GroupIds
    <3> QED
      BY <1>2, <2>2, <3>1
  <2>3. CASE t # s /\ u = s
    <3>1. /\ Taken(t)' \subseteq ids \cap Group
          /\ Taken(t)' \cap (Known \cup Mentions(s)) = {}
      BY <1>1, <2>3 DEF GroupIds
    <3> QED
      BY <1>2, <2>3, <3>1
  <2>4. CASE t # s /\ u # s
    BY <1>1, <2>4 DEF GroupIds
  <2> QED
    BY <2>1, <2>2, <2>3, <2>4
<1> QED
  BY <1>3, <1>4, <1>5 DEF GroupIds

LEMMA TreeQuiet ==
    ASSUME TreeInv, Quiet(TreeOps), tree' = tree
    PROVE  TreeInv'
<1>1. \A t \in Session : tx'[t] = tx[t] \/ tx'[t].op \notin TreeOps
  BY DEF Quiet
<1>2. \A t \in Session : /\ Taken(t)' = Taken(t) \/ Taken(t)' = {}
                         /\ Mentions(t)' = Mentions(t) \/ Mentions(t)' = {}
  BY <1>1 DEF Taken, Mentions, TreeOps, GroupOps
<1>3. Known' = Known
  BY DEF Known
<1>4. GroupIds'
  <2>1. DOMAIN tree' \subseteq Group /\ Known' \subseteq ids' \cup {None}
    BY <1>3 DEF TreeInv, GroupIds, Quiet
  <2>2. \A t \in Session : /\ Mentions(t)' \subseteq ids' \cup {None}
                           /\ Taken(t)' \subseteq ids' \cap Group /\ Taken(t)' \cap Known' = {}
    BY <1>2, <1>3 DEF TreeInv, GroupIds, Quiet
  <2>3. \A t, u \in Session : /\ Taken(t)' \cap Mentions(u)' = {}
                              /\ t # u => Taken(t)' \cap Taken(u)' = {}
    BY <1>2 DEF TreeInv, GroupIds
  <2> QED
    BY <2>1, <2>2, <2>3 DEF GroupIds
<1>5. TreeRows'
  BY <1>1 DEF TreeInv, TreeRows, RowHeld, TreeOps, GroupOps
<1>6. ParentInv'
  BY <1>1 DEF TreeInv, ParentInv, ParentHeld, TreeOps, GroupOps, Quiet
<1>7. PathInv'
  <2>1. \A t \in Session : PathHeld(t) => PathHeld(t)'
    BY <1>1 DEF PathHeld, TreeOps, GroupOps
  <2> QED
    BY <2>1 DEF TreeInv, PathInv, Quiet
<1> QED
  BY <1>4, <1>5, <1>6, <1>7 DEF TreeInv

\* A request of the groups, or its next stage: what it holds is sound.
LEMMA TreeHeld ==
    ASSUME TreeInv, NEW s \in Session, NEW ops, Touches(s, ops), tree' = tree,
           Taken(s)' \subseteq (ids' \ ids) \cap Group, Mentions(s)' \subseteq Mentions(s) \cup Known \cup {None},
           RowHeld(s)', "orphan" \notin overlap' => ParentHeld(s)', "tree" \notin overlap' => PathHeld(s)'
    PROVE  TreeInv'
<1>1. (\A t \in Session \ {s} : tx'[t] = tx[t]) /\ overlap \subseteq overlap' /\ ids \subseteq ids'
  BY DEF Touches
<1>2. GroupIds'
  <2>1. Known' = Known
    BY DEF Known
  <2> QED
    BY <1>1, <2>1, GroupIdsKept DEF TreeInv, GroupIds
<1>3. \A t \in Session \ {s} : RowHeld(t)' = RowHeld(t) /\ ParentHeld(t)' = ParentHeld(t) /\ PathHeld(t)' = PathHeld(t)
  BY <1>1 DEF RowHeld, ParentHeld, PathHeld
<1>4. TreeRows'
  BY <1>3 DEF TreeInv, TreeRows
<1>5. ParentInv'
  BY <1>1, <1>3 DEF TreeInv, ParentInv
<1>6. PathInv'
  BY <1>1, <1>3 DEF TreeInv, PathInv
<1> QED
  BY <1>2, <1>4, <1>5, <1>6 DEF TreeInv

LEMMA GroupRequested ==
    ASSUME SessionsInv, TreeInv, NEW s \in Session, NEW g \in Group, NEW p \in Group \cup {None},
           CreateGroup(s, g, p) \/ MoveGroup(s, g, p)
    PROVE  TreeInv'
<1>1. PICK row : row = Row(tree, g, p)
  OBVIOUS
<1>2. row.parent = p /\ row.path = PathUnder(tree, g, p) /\ IsRow(row)
  BY <1>1 DEF Row, IsRow
<1>3. ASSUME p \in DOMAIN tree \cup {None}, "tree" \notin overlap
      PROVE  Ends(row.path, g)
  <2>1. CASE p = None
    BY <1>2, <2>1 DEF PathUnder, Ends
  <2>2. CASE p # None
    <3>1. row.path = Append(tree[p].path, g) /\ tree[p].path \in Seq(Group)
      BY <1>2, <1>3, <2>2 DEF PathUnder, TreeInv, PathInv, PathsSound, Ends
    <3> QED
      BY <3>1 DEF Ends
  <2> QED
    BY <2>1, <2>2
<1>4. CASE CreateGroup(s, g, p)
  <2>1. PICK request : request = [op |-> "createGroup", stage |-> "open", group |-> g, row |-> row]
    OBVIOUS
  <2>2. /\ request.op = "createGroup" /\ request.group = g /\ request.row = row
        /\ OpensTaking(s, request, {g}) /\ g \notin ids /\ p \in DOMAIN tree \cup {None} /\ tree' = tree
    BY <1>1, <1>4, <2>1 DEF CreateGroup, inventoryVars
  <2>3. /\ tx'[s].op = "createGroup" /\ tx'[s].group = g /\ tx'[s].row = row
        /\ ids' = ids \cup {g} /\ Touches(s, {"createGroup"})
    BY <2>2, Opened, Starting DEF SessionsInv
  <2>4. Taken(s)' \subseteq (ids' \ ids) \cap Group /\ Mentions(s)' \subseteq Known \cup {None}
    BY <1>2, <2>2, <2>3 DEF Taken, Mentions, Known
  <2>5. RowHeld(s)' /\ ParentHeld(s)'
    BY <1>2, <2>2, <2>3 DEF RowHeld, ParentHeld
  <2>6. "tree" \notin overlap' => PathHeld(s)'
    BY <1>2, <1>3, <2>2, <2>3 DEF PathHeld, Touches, PathUnder
  <2> QED
    BY <2>2, <2>3, <2>4, <2>5, <2>6, TreeHeld
<1>5. CASE MoveGroup(s, g, p)
  <2>1. PICK request : request = [op |-> "moveGroup", stage |-> "moving", group |-> g, old |-> tree[g].path,
                                  row |-> row, paths |-> <<>>]
    OBVIOUS
  <2>2. /\ request.op = "moveGroup" /\ request.stage = "moving" /\ request.group = g
        /\ request.old = tree[g].path /\ request.row = row /\ request.paths = <<>>
        /\ OpensTaking(s, request, {}) /\ g \in DOMAIN tree /\ MayMove(tree, g, p) /\ tree' = tree
    BY <1>1, <1>5, <2>1 DEF MoveGroup, Opens, inventoryVars
  <2>3. /\ tx'[s].op = "moveGroup" /\ tx'[s].stage = "moving" /\ tx'[s].group = g
        /\ tx'[s].old = tree[g].path /\ tx'[s].row = row /\ tx'[s].paths = <<>>
        /\ ids' = ids /\ Touches(s, {"moveGroup"})
    <3>1. tx'[s] = request /\ ids' = ids \cup {}
      BY <2>2, Opened, Zenon DEF SessionsInv
    <3>2. Touches(s, {"moveGroup"})
      BY <2>2, Starting DEF SessionsInv
    <3> QED
      BY <2>2, <3>1, <3>2
  <2>4. p \in DOMAIN tree => p # g /\ ~IsPrefix(tree[g].path, tree[p].path)
    <3>1. p # None \/ p \notin DOMAIN tree
      BY GroupAssumption DEF TreeInv, GroupIds
    <3> QED
      BY <2>2, <3>1 DEF MayMove
  <2>5. p \in DOMAIN tree \cup {None}
    BY <2>2 DEF MayMove
  <2>6. Taken(s)' = {} /\ Mentions(s)' \subseteq Known \cup {None}
    BY <1>2, <2>2, <2>3, <2>5 DEF Taken, Mentions, Known
  <2>7. RowHeld(s)' /\ ParentHeld(s)'
    BY <1>2, <2>2, <2>3, <2>5 DEF RowHeld, ParentHeld
  <2>8. ASSUME "tree" \notin overlap'
        PROVE  PathHeld(s)'
    <3>1. "tree" \notin overlap
      BY <2>3, <2>8 DEF Touches
    <3>2. Ends(tree[g].path, g) /\ Ends(row.path, g)
      BY <1>3, <2>2, <2>5, <3>1 DEF TreeInv, PathInv, PathsSound
    <3>3. MoveSound(tree, g, row, tree[g].path)
      BY <1>2, <2>4, <3>2 DEF MoveSound
    <3>4. PathHeld(s)'
      BY <2>2, <2>3, <3>3 DEF PathHeld
    <3> QED
      BY <3>4
  <2> QED
    BY <2>2, <2>3, <2>6, <2>7, <2>8, TreeHeld
<1> QED
  BY <1>4, <1>5

LEMMA MoveFlushed ==
    ASSUME SessionsInv, TreeInv, NEW s \in Session, FlushMove(s)
    PROVE  TreeInv'
<1>1. PICK g, old, row, paths :
         /\ g = tx[s].group /\ old = tx[s].old /\ row = tx[s].row
         /\ paths = Rebased(tree, g, old, row.path)
  OBVIOUS
<1>2. PICK request : request = [op |-> "moveGroup", stage |-> "open", group |-> g, old |-> old,
                                row |-> row, paths |-> paths]
  OBVIOUS
<1>3. /\ request.op = "moveGroup" /\ request.stage = "open" /\ request.group = g /\ request.old = old
      /\ request.row = row /\ request.paths = paths
      /\ Continues(s, request) /\ tx[s].op = "moveGroup" /\ tree' = tree
  BY <1>1, <1>2 DEF FlushMove, inventoryVars
<1>4. /\ tx'[s] = request /\ overlap' = overlap /\ ids' = ids /\ Touches(s, {"moveGroup"})
  BY <1>3, GoingOn DEF SessionsInv
<1>5. DOMAIN paths \subseteq DOMAIN tree
  BY <1>1 DEF Rebased, Below
<1>6. Taken(s)' = {} /\ Mentions(s)' \subseteq Mentions(s) \cup Known
  BY <1>1, <1>3, <1>4, <1>5 DEF Taken, Mentions, Known
<1>7. RowHeld(s)'
  BY <1>1, <1>3, <1>4 DEF RowHeld, TreeInv, TreeRows
<1>8. "orphan" \notin overlap => ParentHeld(s)'
  BY <1>1, <1>3, <1>4 DEF ParentHeld, TreeInv, ParentInv
<1>9. BelowRead(tree, g, row, old, paths)
  BY <1>1 DEF BelowRead, Rebased, Below, Rebase
<1>10. "tree" \notin overlap => PathHeld(s)'
  <2>1. "tree" \notin overlap => MoveSound(tree, g, row, old)
    BY <1>1, <1>3 DEF TreeInv, PathInv, PathHeld
  <2>2. "tree" \notin overlap => MoveSound(tree', g, row, old) /\ BelowRead(tree', g, row, old, paths)
    BY <1>3, <1>9, <2>1
  <2> QED
    BY <1>3, <1>4, <2>2 DEF PathHeld
<1> QED
  BY <1>3, <1>4, <1>6, <1>7, <1>8, <1>10, TreeHeld

LEMMA GroupDeletionHeld ==
    ASSUME SessionsInv, TreeInv, NEW s \in Session, NEW g \in Group, DeleteGroup(s, g)
    PROVE  TreeInv'
<1>1. /\ tx'[s].op = "deleteGroup" /\ tx'[s].group = g /\ tree' = tree /\ ids' = ids
      /\ g \in DOMAIN tree
  BY Opened DEF DeleteGroup, Opens, SessionsInv, inventoryVars
<1>2. Touches(s, {"deleteGroup"})
  BY Starting DEF DeleteGroup, Opens, SessionsInv
<1>3. \A h \in DOMAIN tree : tree[h].parent # g
  BY DEF DeleteGroup, Children
<1>4. Taken(s)' = {} /\ Mentions(s)' \subseteq Known
  BY <1>1 DEF Taken, Mentions, Known
<1>5. RowHeld(s)' /\ ParentHeld(s)' /\ PathHeld(s)'
  BY <1>1, <1>3 DEF RowHeld, ParentHeld, PathHeld
<1> QED
  BY <1>1, <1>2, <1>4, <1>5, TreeHeld

LEMMA ImportHeld ==
    ASSUME SessionsInv, TreeInv, NEW s \in Session, NEW file, Import(s, file)
    PROVE  TreeInv'
<1>1. PICK g : g = file.group
  OBVIOUS
<1>2. PICK groups, new, set, request :
         /\ groups = IF g \in ids \cup {None} THEN <<>> ELSE Only(g, Row(tree, g, None))
         /\ request = [op |-> "import", stage |-> "open", new |-> new, groups |-> groups, set |-> set]
         /\ OpensTaking(s, request, {g} \ {None})
  BY <1>1 DEF Import
<1>3. tree' = tree /\ g \in {None} \cup DOMAIN tree \cup (Group \ ids)
  BY <1>1 DEF Import, inventoryVars
<1>4. request.op = "import" /\ request.groups = groups
  BY <1>2
<1>5. /\ tx'[s].op = "import" /\ tx'[s].groups = groups /\ Touches(s, {"import"})
      /\ ids' = ids \cup ({g} \ {None})
  BY <1>2, <1>4, Opened, Starting DEF SessionsInv
<1>6. DOMAIN groups \subseteq (ids' \ ids) \cap Group
  <2>1. CASE g \in ids \cup {None}
    BY <1>2, <2>1
  <2>2. CASE g \notin ids \cup {None}
    <3>1. DOMAIN groups = {g} /\ g \in Group
      BY <1>2, <1>3, <2>2 DEF Only, TreeInv, GroupIds
    <3> QED
      BY <1>5, <2>2, <3>1
  <2> QED
    BY <2>1, <2>2
<1>7. \A h \in DOMAIN groups : groups[h] = [parent |-> None, path |-> <<h>>]
  BY <1>2 DEF Only, Row, PathUnder
<1>8. Taken(s)' \subseteq (ids' \ ids) \cap Group /\ Mentions(s)' = {}
  BY <1>5, <1>6 DEF Taken, Mentions
<1>9. RowHeld(s)' /\ ParentHeld(s)' /\ PathHeld(s)'
  BY <1>5, <1>7 DEF RowHeld, ParentHeld, PathHeld
<1> QED
  BY <1>3, <1>5, <1>8, <1>9, TreeHeld


\* Rows are added to the tree, as they were held.
LEMMA GroupsAdded ==
    ASSUME SessionsInv, TreeInv, NEW s \in Session, Closes(s), tx[s].op \in {"createGroup", "import"},
           DOMAIN tree' = DOMAIN tree \cup Taken(s), \A g \in DOMAIN tree : tree'[g] = tree[g],
           \A g \in Taken(s) :
               /\ IsRow(tree'[g]) /\ tree'[g].parent \in Mentions(s) \cup {None}
               /\ ForeignKey \/ "orphan" \notin overlap => tree'[g].parent \in DOMAIN tree \cup {None}
               /\ "tree" \notin overlap =>
                     /\ Ends(tree'[g].path, g)
                     /\ tree'[g].parent \in DOMAIN tree \cup {None} =>
                           tree'[g].path = PathUnder(tree, g, tree'[g].parent)
               /\ tx[s].op = "import" => tree'[g] = [parent |-> None, path |-> <<g>>]
    PROVE  TreeInv'
<1>1. /\ tx'[s] = Idle /\ overlap' = overlap /\ ids' = ids /\ DOMAIN tx' = Session
      /\ \A t \in Session \ {s} : tx'[t] = tx[t]
  BY DEF Closes, Continues, SessionsInv
<1>2. tx'[s].op = "none"
  BY <1>1, IdleOp
<1>3. /\ Taken(s) \subseteq Group /\ Taken(s) \cap Known = {} /\ Taken(s) \cap Mentions(s) = {}
      /\ DOMAIN tree \subseteq Group /\ None \notin Group
  BY GroupAssumption DEF TreeInv, GroupIds
<1>4. \A g \in DOMAIN tree : tree[g].parent \notin Taken(s)
  BY <1>3 DEF Known
<1>5. \A g \in Taken(s) : tree'[g].parent \notin Taken(s)
  BY <1>3
<1>6. GroupIds'
  <2>1. Known' \subseteq Known \cup Taken(s) \cup Mentions(s) \cup {None}
    BY DEF Known
  <2>2. Taken(s)' = {} /\ Mentions(s)' = {}
    BY <1>2 DEF Taken, Mentions
  <2>3. \A t \in Session : Taken(t) \cap {None} = {}
    BY <1>3 DEF TreeInv, GroupIds
  <2>4. \A t \in Session \ {s} : Taken(t)' = Taken(t) /\ Mentions(t)' = Mentions(t)
    BY <1>1 DEF Taken, Mentions
  <2>5. DOMAIN tree' \subseteq Group /\ Known' \subseteq ids \cup {None}
    BY <1>3, <2>1 DEF TreeInv, GroupIds
  <2>6. ASSUME NEW t \in Session \ {s}
        PROVE  Taken(t)' \cap Known' = {}
    <3>1. Taken(t) \cap (Known \cup Taken(s) \cup Mentions(s) \cup {None}) = {}
      BY <2>3 DEF TreeInv, GroupIds
    <3> QED
      BY <2>1, <2>4, <3>1
  <2>7. \A t \in Session : /\ Mentions(t)' \subseteq ids' \cup {None}
                           /\ Taken(t)' \subseteq ids' \cap Group /\ Taken(t)' \cap Known' = {}
    BY <1>1, <2>2, <2>4, <2>6 DEF TreeInv, GroupIds
  <2>8. \A t, u \in Session : /\ Taken(t)' \cap Mentions(u)' = {}
                              /\ t # u => Taken(t)' \cap Taken(u)' = {}
    BY <2>2, <2>4 DEF TreeInv, GroupIds
  <2> QED
    BY <1>1, <2>5, <2>7, <2>8 DEF GroupIds
<1>7. TreeRows'
  <2>1. \A t \in Session : RowHeld(t)'
    BY <1>1, <1>2 DEF RowHeld, TreeInv, TreeRows
  <2>2. \A g \in DOMAIN tree' : IsRow(tree'[g])
    BY DEF TreeInv, TreeRows
  <2> QED
    BY <2>1, <2>2 DEF TreeRows, IsRow
<1>8. ParentInv'
  <2>1. ASSUME ForeignKey \/ "orphan" \notin overlap
        PROVE  \A g \in DOMAIN tree' : tree'[g].parent \in DOMAIN tree' \cup {None}
    BY <2>1 DEF TreeInv, ParentInv
  <2>2. ASSUME "orphan" \notin overlap, NEW t \in Session
        PROVE  ParentHeld(t)'
    <3>1. CASE t = s
      BY <1>2, <3>1 DEF ParentHeld
    <3>2. CASE t # s /\ tx[t].op # "deleteGroup"
      BY <1>1, <2>2, <3>2 DEF ParentHeld, TreeInv, ParentInv
    <3>3. CASE t # s /\ tx[t].op = "deleteGroup"
      <4>1. tx[s].op # "createGroup"
        BY <2>2, <3>3, RacesOf DEF SessionsInv, RacesNoted
      <4>2. \A g \in Taken(s) : tree'[g].parent = None
        BY <4>1
      <4>3. tx[t].group \in Group
        BY <3>3 DEF TreeInv, TreeRows, RowHeld
      <4>4. \A h \in DOMAIN tree : tree[h].parent # tx[t].group
        BY <2>2, <3>3 DEF TreeInv, ParentInv, ParentHeld
      <4>5. \A h \in DOMAIN tree' : tree'[h].parent # tx[t].group
        BY <1>3, <4>2, <4>3, <4>4
      <4> QED
        BY <1>1, <3>3, <4>5 DEF ParentHeld
    <3> QED
      BY <3>1, <3>2, <3>3
  <2> QED
    BY <1>1, <2>1, <2>2 DEF ParentInv
<1>9. PathInv'
  <2> SUFFICES ASSUME "tree" \notin overlap
               PROVE  PathsSound(tree') /\ \A t \in Session : PathHeld(t)'
    BY <1>1 DEF PathInv
  <2>1. PathsSound(tree) /\ \A t \in Session : PathHeld(t)
    BY DEF TreeInv, PathInv
  <2>2. ASSUME NEW g, NEW p, p \notin Taken(s), p \in DOMAIN tree' \cup {None}
        PROVE  p \in DOMAIN tree \cup {None} /\ PathUnder(tree', g, p) = PathUnder(tree, g, p)
    BY <2>2 DEF PathUnder
  <2>3. PathsSound(tree')
    <3>1. ASSUME NEW g \in DOMAIN tree
          PROVE  /\ Ends(tree'[g].path, g)
                 /\ tree'[g].parent \in DOMAIN tree' \cup {None} =>
                       tree'[g].path = PathUnder(tree', g, tree'[g].parent)
      BY <1>4, <2>1, <2>2 DEF PathsSound
    <3>2. ASSUME NEW g \in Taken(s)
          PROVE  /\ Ends(tree'[g].path, g)
                 /\ tree'[g].parent \in DOMAIN tree' \cup {None} =>
                       tree'[g].path = PathUnder(tree', g, tree'[g].parent)
      BY <1>5, <2>2
    <3> QED
      BY <3>1, <3>2 DEF PathsSound
  <2>4. ASSUME NEW t \in Session \ {s}, tx[t].op = "createGroup"
        PROVE  PathHeld(t)'
    <3>1. PICK g, p, path : g = tx[t].group /\ p = tx[t].row.parent /\ path = tx[t].row.path
      OBVIOUS
    <3>2. Ends(path, g) /\ (p \in DOMAIN tree \cup {None} => path = PathUnder(tree, g, p))
      BY <2>1, <2>4, <3>1 DEF PathHeld
    <3>3. p \notin Taken(s)
      BY <2>4, <3>1 DEF TreeInv, GroupIds, Mentions
    <3>4. p \in DOMAIN tree' \cup {None} => path = PathUnder(tree', g, p)
      BY <2>2, <3>2, <3>3
    <3> QED
      BY <1>1, <2>4, <3>1, <3>2, <3>4 DEF PathHeld
  <2>5. ASSUME NEW t \in Session \ {s}, tx[t].op = "moveGroup"
        PROVE  PathHeld(t)'
    <3>1. tx[s].op = "import"
      BY <2>5, RacesOf DEF SessionsInv, RacesNoted
    <3>2. PICK g, row, old, paths : /\ g = tx[t].group /\ row = tx[t].row /\ old = tx[t].old
                                    /\ paths = tx[t].paths
      OBVIOUS
    <3>3. /\ MoveSound(tree, g, row, old)
          /\ tx[t].stage = "open" => BelowRead(tree, g, row, old, paths)
      BY <2>1, <2>5, <3>2 DEF PathHeld
    <3>4. g \notin Taken(s) /\ row.parent \notin Taken(s) /\ DOMAIN paths \cap Taken(s) = {}
      BY <2>5, <3>2 DEF TreeInv, GroupIds, Mentions
    <3>5. MoveSound(tree', g, row, old)
      <4>1. /\ Ends(old, g) /\ (g \in DOMAIN tree' => tree'[g].path = old)
            /\ Ends(row.path, g)
        BY <3>3, <3>4 DEF MoveSound
      <4>2. row.parent \in DOMAIN tree' \cup {None} => row.path = PathUnder(tree', g, row.parent)
        BY <2>2, <3>3, <3>4 DEF MoveSound
      <4>3. row.parent \in DOMAIN tree' => row.parent # g /\ ~IsPrefix(old, tree'[row.parent].path)
        BY <3>3, <3>4 DEF MoveSound
      <4> QED
        BY <4>1, <4>2, <4>3 DEF MoveSound
    <3>6. ASSUME NEW h \in Taken(s)
          PROVE  ~IsPrefix(old, tree'[h].path)
      <4>1. tree'[h] = [parent |-> None, path |-> <<h>>]
        BY <3>1
      <4>2. tree'[h].path = <<h>>
        BY <4>1
      <4>3. g \in Group /\ h \in Group /\ h # g /\ Ends(old, g)
        BY <1>3, <2>5, <3>2, <3>3, <3>4 DEF TreeInv, TreeRows, RowHeld, MoveSound
      <4> QED
        BY <4>2, <4>3, RootPath
    <3>7. BelowRead(tree, g, row, old, paths) => BelowRead(tree', g, row, old, paths)
      BY <3>4, <3>6 DEF BelowRead
    <3> QED
      BY <1>1, <2>5, <3>2, <3>3, <3>5, <3>7 DEF PathHeld
  <2> QED
    BY <1>1, <1>2, <2>3, <2>4, <2>5 DEF PathHeld
<1> QED
  BY <1>6, <1>7, <1>8, <1>9 DEF TreeInv

\* A move, whatever it has read, puts the row under its new parent.
LEMMA MovedRows ==
    ASSUME NEW rows, \A h \in DOMAIN rows : IsRow(rows[h]), NEW g \in DOMAIN rows, NEW row, IsRow(row),
           NEW paths, NEW new, new = Moved(rows, g, row, paths)
    PROVE  /\ DOMAIN new = DOMAIN rows /\ new[g] = row
           /\ \A h \in DOMAIN rows \ {g} : new[h].parent = rows[h].parent
           /\ \A h \in DOMAIN new : IsRow(new[h])
<1>1. /\ DOMAIN new = DOMAIN rows /\ new[g] = row
      /\ \A h \in DOMAIN rows \ {g} :
            new[h] = IF h \in DOMAIN paths THEN [rows[h] EXCEPT !.path = paths[h]] ELSE rows[h]
  BY DEF Moved
<1>2. ASSUME NEW h \in DOMAIN rows \ {g}
      PROVE  new[h].parent = rows[h].parent /\ IsRow(new[h])
  <2>1. CASE h \in DOMAIN paths
    <3>1. new[h] = [rows[h] EXCEPT !.path = paths[h]] /\ IsRow(rows[h])
      BY <1>1, <2>1
    <3>2. new[h] = [parent |-> rows[h].parent, path |-> paths[h]]
      BY <3>1 DEF IsRow
    <3> QED
      BY <3>2 DEF IsRow
  <2>2. CASE h \notin DOMAIN paths
    BY <1>1, <2>2
  <2> QED
    BY <2>1, <2>2
<1> QED
  BY <1>1, <1>2

LEMMA MoveCommitted ==
    ASSUME SessionsInv, TreeInv, NEW s \in Session, CommitGroup(s), tx[s].op = "moveGroup"
    PROVE  TreeInv'
<1>1. PICK g, row, paths : g = tx[s].group /\ row = tx[s].row /\ paths = tx[s].paths
  OBVIOUS
<1>2. /\ tx[s].stage = "open" /\ g \in DOMAIN tree /\ ParentExists(row.parent)
      /\ tree' = Moved(tree, g, row, paths) /\ Closes(s)
  BY <1>1 DEF CommitGroup, Ready
<1>3. /\ tx'[s] = Idle /\ overlap' = overlap /\ ids' = ids
      /\ \A t \in Session \ {s} : tx'[t] = tx[t]
  BY <1>2 DEF Closes, Continues, SessionsInv
<1>4. tx'[s].op = "none"
  BY <1>3, IdleOp
<1>5. IsRow(row) /\ \A h \in DOMAIN tree : IsRow(tree[h])
  BY <1>1 DEF TreeInv, TreeRows, RowHeld
<1>6. /\ DOMAIN tree' = DOMAIN tree /\ tree'[g] = row
      /\ \A h \in DOMAIN tree \ {g} : tree'[h].parent = tree[h].parent
      /\ \A h \in DOMAIN tree' : IsRow(tree'[h])
  BY <1>2, <1>5, MovedRows
<1>7. GroupIds'
  <2>1. Known' \subseteq Known \cup {row.parent}
    BY <1>6 DEF Known
  <2>2. Known' \subseteq Known \cup Taken(s) \cup Mentions(s)
    BY <1>1, <2>1 DEF Mentions
  <2>3. Taken(s)' = {} /\ Mentions(s)' = {}
    BY <1>4 DEF Taken, Mentions
  <2>4. GroupIds /\ DOMAIN tree' \subseteq Group
    BY <1>6 DEF TreeInv, GroupIds
  <2> QED
    BY <1>3, <2>2, <2>3, <2>4, GroupIdsKept
<1>8. TreeRows'
  <2>1. \A t \in Session : RowHeld(t)'
    BY <1>3, <1>4 DEF RowHeld, TreeInv, TreeRows
  <2> QED
    BY <1>6, <2>1 DEF TreeRows, IsRow
<1>9. ParentInv'
  <2>1. ASSUME ForeignKey \/ "orphan" \notin overlap
        PROVE  \A h \in DOMAIN tree' : tree'[h].parent \in DOMAIN tree' \cup {None}
    <3>1. row.parent \in DOMAIN tree \cup {None}
      BY <1>1, <1>2, <2>1 DEF ParentExists, TreeInv, ParentInv, ParentHeld
    <3> QED
      BY <1>6, <2>1, <3>1 DEF TreeInv, ParentInv
  <2>2. ASSUME "orphan" \notin overlap, NEW t \in Session
        PROVE  ParentHeld(t)'
    <3>1. CASE t = s
      BY <1>4, <3>1 DEF ParentHeld
    <3>2. CASE t # s
      <4>1. tx[t].op # "deleteGroup"
        BY <2>2, <3>2, RacesOf DEF SessionsInv, RacesNoted
      <4> QED
        BY <1>3, <1>6, <2>2, <3>2, <4>1 DEF ParentHeld, TreeInv, ParentInv
    <3> QED
      BY <3>1, <3>2
  <2> QED
    BY <1>3, <2>1, <2>2 DEF ParentInv
<1>10. PathInv'
  <2> SUFFICES ASSUME "tree" \notin overlap
               PROVE  PathsSound(tree') /\ \A t \in Session : PathHeld(t)'
    BY <1>3 DEF PathInv
  <2>1. PICK old : old = tx[s].old
    OBVIOUS
  <2>2. PathsSound(tree) /\ MoveSound(tree, g, row, old) /\ BelowRead(tree, g, row, old, paths)
    BY <1>1, <1>2, <2>1 DEF TreeInv, PathInv, PathHeld
  <2>3. DOMAIN tree \subseteq Group
    BY DEF TreeInv, GroupIds
  <2>4. PathsSound(tree')
    BY <1>2, <1>5, <2>2, <2>3, MovedSound
  <2>5. \A t \in Session : tx'[t].op \notin {"createGroup", "moveGroup"}
    BY <1>3, <1>4, RacesOf DEF SessionsInv, RacesNoted
  <2> QED
    BY <2>4, <2>5 DEF PathHeld
<1> QED
  BY <1>7, <1>8, <1>9, <1>10 DEF TreeInv

LEMMA GroupDeleted ==
    ASSUME SessionsInv, TreeInv, NEW s \in Session, CommitGroup(s), tx[s].op = "deleteGroup"
    PROVE  TreeInv'
<1>1. PICK g : g = tx[s].group
  OBVIOUS
<1>2. /\ ForeignKey => Children(tree, g) = {}
      /\ tree' = Restrict(tree, DOMAIN tree \ {g}) /\ Closes(s)
  BY <1>1 DEF CommitGroup, Ready
<1>3. /\ tx'[s] = Idle /\ overlap' = overlap /\ ids' = ids
      /\ \A t \in Session \ {s} : tx'[t] = tx[t]
  BY <1>2 DEF Closes, Continues, SessionsInv
<1>4. tx'[s].op = "none"
  BY <1>3, IdleOp
<1>5. DOMAIN tree' = DOMAIN tree \ {g} /\ \A h \in DOMAIN tree' : tree'[h] = tree[h]
  BY <1>2 DEF Restrict
<1>6. GroupIds'
  <2>1. Known' \subseteq Known
    BY <1>5 DEF Known
  <2>2. Taken(s)' = {} /\ Mentions(s)' = {}
    BY <1>4 DEF Taken, Mentions
  <2>3. GroupIds /\ DOMAIN tree' \subseteq Group
    BY <1>5 DEF TreeInv, GroupIds
  <2> QED
    BY <1>3, <2>1, <2>2, <2>3, GroupIdsKept
<1>7. TreeRows'
  <2>1. \A t \in Session : RowHeld(t)'
    BY <1>3, <1>4 DEF RowHeld, TreeInv, TreeRows
  <2>2. \A h \in DOMAIN tree' : IsRow(tree'[h])
    BY <1>5 DEF TreeInv, TreeRows
  <2> QED
    BY <2>1, <2>2 DEF TreeRows, IsRow
<1>8. ParentInv'
  <2>1. ASSUME ForeignKey \/ "orphan" \notin overlap
        PROVE  \A h \in DOMAIN tree' : tree'[h].parent \in DOMAIN tree' \cup {None}
    <3>1. \A h \in DOMAIN tree : tree[h].parent # g
      BY <1>1, <1>2, <2>1 DEF Children, TreeInv, ParentInv, ParentHeld
    <3> QED
      BY <1>5, <2>1, <3>1 DEF TreeInv, ParentInv
  <2>2. ASSUME "orphan" \notin overlap, NEW t \in Session
        PROVE  ParentHeld(t)'
    <3>1. CASE t = s
      BY <1>4, <3>1 DEF ParentHeld
    <3>2. CASE t # s
      <4>1. tx[t].op \notin {"createGroup", "moveGroup"}
        BY <2>2, <3>2, RacesOf DEF SessionsInv, RacesNoted
      <4> QED
        BY <1>3, <1>5, <2>2, <3>2, <4>1 DEF ParentHeld, TreeInv, ParentInv
    <3> QED
      BY <3>1, <3>2
  <2> QED
    BY <1>3, <2>1, <2>2 DEF ParentInv
<1>9. PathInv'
  <2> SUFFICES ASSUME "tree" \notin overlap
               PROVE  PathsSound(tree') /\ \A t \in Session : PathHeld(t)'
    BY <1>3 DEF PathInv
  <2>1. PathsSound(tree) /\ \A t \in Session : PathHeld(t)
    BY DEF TreeInv, PathInv
  <2>2. \A h, p : p \in DOMAIN tree' \cup {None} => PathUnder(tree', h, p) = PathUnder(tree, h, p)
    BY <1>5 DEF PathUnder
  <2>3. PathsSound(tree')
    BY <1>5, <2>1, <2>2 DEF PathsSound
  <2>4. ASSUME NEW h, NEW row, NEW old, MoveSound(tree, h, row, old)
        PROVE  MoveSound(tree', h, row, old)
    BY <1>5, <2>2, <2>4 DEF MoveSound
  <2>5. ASSUME NEW h, NEW row, NEW old, NEW paths, BelowRead(tree, h, row, old, paths)
        PROVE  BelowRead(tree', h, row, old, paths)
    BY <1>5, <2>5 DEF BelowRead
  <2>6. ASSUME NEW t \in Session \ {s}
        PROVE  PathHeld(t)'
    <3>1. CASE tx[t].op = "createGroup"
      <4>1. PICK h, p, path : h = tx[t].group /\ p = tx[t].row.parent /\ path = tx[t].row.path
        OBVIOUS
      <4>2. Ends(path, h) /\ (p \in DOMAIN tree \cup {None} => path = PathUnder(tree, h, p))
        BY <2>1, <3>1, <4>1 DEF PathHeld
      <4>3. p \in DOMAIN tree' \cup {None} => path = PathUnder(tree', h, p)
        BY <1>5, <2>2, <4>2
      <4> QED
        BY <1>3, <3>1, <4>1, <4>2, <4>3 DEF PathHeld
    <3>2. CASE tx[t].op = "moveGroup"
      <4>1. /\ MoveSound(tree', tx[t].group, tx[t].row, tx[t].old)
            /\ tx[t].stage = "open" => BelowRead(tree', tx[t].group, tx[t].row, tx[t].old, tx[t].paths)
        BY <2>1, <2>4, <2>5, <3>2 DEF PathHeld
      <4> QED
        BY <1>3, <3>2, <4>1 DEF PathHeld
    <3>3. CASE tx[t].op \notin {"createGroup", "moveGroup"}
      BY <1>3, <3>3 DEF PathHeld
    <3> QED
      BY <3>1, <3>2, <3>3
  <2>7. PathHeld(s)'
    BY <1>4 DEF PathHeld
  <2> QED
    BY <2>3, <2>6, <2>7
<1> QED
  BY <1>6, <1>7, <1>8, <1>9 DEF TreeInv


LEMMA GroupCreated ==
    ASSUME SessionsInv, TreeInv, NEW s \in Session, CommitGroup(s), tx[s].op = "createGroup"
    PROVE  TreeInv'
<1>1. PICK g, row : g = tx[s].group /\ row = tx[s].row
  OBVIOUS
<1>2. ParentExists(row.parent) /\ tree' = Over(tree, Only(g, row)) /\ Closes(s)
  BY <1>1 DEF CommitGroup, Ready
<1>3. Taken(s) = {g} /\ row.parent \in Mentions(s) /\ IsRow(row)
  BY <1>1 DEF Taken, Mentions, TreeInv, TreeRows, RowHeld
<1>4. g \notin DOMAIN tree
  BY <1>3 DEF TreeInv, GroupIds, Known
<1>5. /\ DOMAIN tree' = DOMAIN tree \cup {g} /\ tree'[g] = row
      /\ \A h \in DOMAIN tree : tree'[h] = tree[h]
  BY <1>2, <1>4 DEF Over, Only
<1>6. ForeignKey \/ "orphan" \notin overlap => row.parent \in DOMAIN tree \cup {None}
  BY <1>1, <1>2 DEF ParentExists, TreeInv, ParentInv, ParentHeld
<1>7. "tree" \notin overlap =>
          /\ Ends(row.path, g)
          /\ row.parent \in DOMAIN tree \cup {None} => row.path = PathUnder(tree, g, row.parent)
  BY <1>1 DEF TreeInv, PathInv, PathHeld
<1> QED
  BY <1>2, <1>3, <1>5, <1>6, <1>7, GroupsAdded

\* An import adds a group of the top, or none; other writes of devices add none.
LEMMA GroupsImported ==
    ASSUME SessionsInv, TreeInv, NEW s \in Session, CommitDevices(s), tx[s].op = "import"
    PROVE  TreeInv'
<1>1. PICK groups : groups = tx[s].groups
  OBVIOUS
<1>2. tree' = Over(groups, tree) /\ Closes(s)
  BY <1>1 DEF CommitDevices
<1>3. Taken(s) = DOMAIN groups /\ \A g \in DOMAIN groups : groups[g] = [parent |-> None, path |-> <<g>>]
  BY <1>1 DEF Taken, TreeInv, TreeRows, RowHeld
<1>4. DOMAIN groups \cap DOMAIN tree = {} /\ DOMAIN groups \subseteq Group
  BY <1>3 DEF TreeInv, GroupIds, Known
<1>5. /\ DOMAIN tree' = DOMAIN tree \cup DOMAIN groups
      /\ \A g \in DOMAIN tree : tree'[g] = tree[g]
      /\ \A g \in DOMAIN groups : tree'[g] = [parent |-> None, path |-> <<g>>]
  BY <1>2, <1>3, <1>4 DEF Over
<1>6. ASSUME NEW g \in DOMAIN groups
      PROVE  /\ IsRow(tree'[g]) /\ tree'[g].parent = None /\ Ends(tree'[g].path, g)
             /\ tree'[g].path = PathUnder(tree, g, None)
  <2>1. tree'[g].parent = None /\ tree'[g].path = <<g>> /\ IsRow(tree'[g])
    BY <1>5 DEF IsRow
  <2>2. Ends(<<g>>, g)
    BY <1>4 DEF Ends
  <2> QED
    BY <2>1, <2>2 DEF PathUnder
<1>7. \A g \in Taken(s) :
          /\ IsRow(tree'[g]) /\ tree'[g].parent = None /\ Ends(tree'[g].path, g)
          /\ tree'[g].path = PathUnder(tree, g, tree'[g].parent)
          /\ tree'[g] = [parent |-> None, path |-> <<g>>]
  BY <1>3, <1>5, <1>6
<1> QED
  BY <1>2, <1>3, <1>5, <1>7, GroupsAdded

LEMMA TreeKept ==
    ASSUME SessionsInv, [Next]_vars, TreeInv
    PROVE  TreeInv'
<1> "none" \notin TreeOps
  BY DEF TreeOps, GroupOps
<1>1. ASSUME NEW s \in Session, NEW ops, Touches(s, ops), ops \cap TreeOps = {}, tree' = tree
      PROVE  TreeInv'
  BY <1>1, OthersQuiet, TreeQuiet
<1>2. ASSUME NEW s \in Session, GroupStep(s)
      PROVE  TreeInv'
  <2>1. ASSUME CommitGroup(s)
        PROVE  TreeInv'
    BY <2>1, GroupCreated, MoveCommitted, GroupDeleted DEF CommitGroup, Ready
  <2> QED
    BY <1>2, <2>1, GroupRequested, GroupDeletionHeld, MoveFlushed DEF GroupStep
<1>3. ASSUME NEW s \in Session, DeviceStep(s)
      PROVE  TreeInv'
  <2>1. ASSUME NEW r, r.op = "saveDevices", Opens(s, r), UNCHANGED inventoryVars
        PROVE  TreeInv'
    <3>1. Touches(s, {"saveDevices"})
      BY <2>1, Starting DEF SessionsInv, Opens
    <3>2. {"saveDevices"} \cap TreeOps = {}
      BY DEF TreeOps, GroupOps
    <3> QED
      BY <1>1, <2>1, <3>1, <3>2 DEF inventoryVars
  <2>2. ASSUME NEW d, NEW row, SaveDevice(s, d, row)
        PROVE  TreeInv'
    BY <2>1, <2>2 DEF SaveDevice
  <2>3. ASSUME NEW ds, NEW column, NEW row, BulkUpdate(s, ds, column, row)
        PROVE  TreeInv'
    BY <2>1, <2>3 DEF BulkUpdate
  <2>4. ASSUME CommitDevices(s), tx[s].op # "import"
        PROVE  TreeInv'
    <3>1. tx[s].op = "saveDevices" /\ tree' = tree /\ Closes(s)
      BY <2>4 DEF CommitDevices, Ready
    <3>2. Touches(s, {"saveDevices"})
      BY <3>1, Closing DEF SessionsInv
    <3>3. {"saveDevices"} \cap TreeOps = {}
      BY DEF TreeOps, GroupOps
    <3> QED
      BY <1>1, <3>1, <3>2, <3>3
  <2> QED
    BY <1>3, <2>2, <2>3, <2>4, ImportHeld, GroupsImported DEF DeviceStep
<1>4. ASSUME NEW s \in Session, RemovalStep(s)
      PROVE  TreeInv'
  <2>1. {"deleteDevices"} \cap TreeOps = {}
    BY DEF TreeOps, GroupOps
  <2> QED
    BY <1>1, <1>4, <2>1, RemovalFrame
<1>5. ASSUME NEW s \in Session, CredentialStep(s)
      PROVE  TreeInv'
  <2>1. {"deleteCredential"} \cap TreeOps = {}
    BY DEF TreeOps, GroupOps
  <2> QED
    BY <1>1, <1>5, <2>1, CredentialFrame
<1>6. ASSUME NEW s \in Session, ScheduleStep(s)
      PROVE  TreeInv'
  <2>1. ScheduleOps \cap TreeOps = {}
    BY DEF TreeOps, GroupOps, ScheduleOps
  <2> QED
    BY <1>1, <1>6, <2>1, ScheduleFrame
<1>7. ASSUME NEW s \in Session, BackupStep(s)
      PROVE  TreeInv'
  <2>1. BackupOps \cap TreeOps = {}
    BY DEF TreeOps, GroupOps, BackupOps
  <2> QED
    BY <1>1, <1>7, <2>1, BackupFrame
<1>8. ASSUME NEW s \in Session, RollbackStep(s)
      PROVE  TreeInv'
  <2>1. Touches(s, {tx[s].op}) /\ tx'[s] = Idle /\ overlap' = overlap /\ ids' = ids /\ tree' = tree
    BY <1>8, RollbackFrame DEF inventoryVars
  <2>2. Quiet(TreeOps)
    BY <2>1, IdleOp DEF Touches, Quiet
  <2> QED
    BY <2>1, <2>2, TreeQuiet
<1>9. ASSUME NEW s \in Session, RoleStep(s)
      PROVE  TreeInv'
  <2>1. RoleOps \cap TreeOps = {}
    BY DEF TreeOps, GroupOps, RoleOps
  <2> QED
    BY <1>1, <1>9, <2>1, RoleFrame DEF inventoryVars
<1>10. ASSUME NEW s \in Session, RoutingStep(s)
       PROVE  TreeInv'
  <2>1. RoutingOps \cap TreeOps = {}
    BY DEF TreeOps, GroupOps, RoutingOps
  <2> QED
    BY <1>1, <1>10, <2>1, RoutingFrame DEF inventoryVars
<1>11. CASE UNCHANGED vars \/ UserStep \/ RunStep
  <2>1. Quiet(TreeOps) /\ tree' = tree
    BY <1>11, UserFrame, RunFrame DEF Quiet, vars, requestVars, inventoryVars
  <2> QED
    BY <2>1, TreeQuiet
<1>12. CASE Restart
  <2>1. Quiet(TreeOps) /\ tree' = tree
    BY <1>12, RestartFrame, IdleOp DEF Quiet, inventoryVars
  <2> QED
    BY <2>1, TreeQuiet
<1> QED
  BY <1>2, <1>3, <1>4, <1>5, <1>6, <1>7, <1>8, <1>9, <1>10, <1>11, <1>12, StepKinds


-----------------------------------------------------------------------------
(* Everything the sessions keep together, from the start on. *)

AdministrationInv ==
    /\ SessionsInv
    /\ DeviceRows /\ CredentialInv /\ RunsInv /\ PoliciesInv /\ RolesInv
    /\ CacheInv /\ SchedulerInv
    /\ TreeInv

LEMMA StartsIdle ==
    ASSUME Init
    PROVE  /\ DOMAIN tx = Session /\ \A s \in Session : tx[s] = Idle /\ tx[s].op = "none"
           /\ overlap = {} /\ runs = <<>> /\ records = {}
           /\ jobs = Enabled /\ cache = Refreshed(roles)
BY IdleOp DEF Init, RequestsInit

LEMMA StartsSound ==
    ASSUME Init
    PROVE  AdministrationInv
<1>1. PICK db \in Start :
         /\ RequestsInit(DOMAIN db.tree \cup DOMAIN db.roles)
         /\ tree = db.tree /\ devices = db.devices /\ credentials = db.credentials
         /\ schedules = db.schedules /\ roles = db.roles /\ users = db.users
         /\ channels = db.channels /\ templates = db.templates
         /\ policies = db.policies /\ deliveries = {}
  BY DEF Init
<1>2. ids = DOMAIN tree \cup DOMAIN roles
  BY <1>1 DEF RequestsInit
<1>3. /\ DOMAIN tree \subseteq Group
      /\ \A g \in DOMAIN tree : /\ tree[g].parent \in DOMAIN tree \cup {None}
                                /\ tree[g] = Row(tree, g, tree[g].parent)
                                /\ tree[g].path \in Seq(Group)
  BY <1>1, AdministrationAssumption
<1>4. /\ \A d \in DOMAIN devices : /\ devices[d] \in [group : Group \cup {None}, credential : Credential]
                                   /\ devices[d].credential \in credentials
      /\ \A x \in DOMAIN schedules :
            schedules[x] \in [on : BOOLEAN, targets : SUBSET (Group \cup Device \cup {All})]
  BY <1>1, AdministrationAssumption
<1>5. {users[u] : u \in DOMAIN users} \subseteq Codes(roles)
  BY <1>1, AdministrationAssumption
<1>6. \A p \in DOMAIN policies :
          policies[p] \in [channels : SUBSET channels, template : Template \cup {NoTemplate}]
  BY <1>1, AdministrationAssumption
<1>7. SessionsInv
  BY StartsIdle, RacesOf DEF SessionsInv, RacesNoted
<1>8. DeviceRows /\ CredentialInv
  BY <1>4, StartsIdle DEF DeviceRows, DeviceColumns, CredentialInv, DeviceOps
<1>9. RunsInv
  BY StartsIdle DEF RunsInv, RecordRows, RunRows, DeviceInv, ScheduleInv
<1>10. PoliciesInv
  BY <1>6, StartsIdle DEF PoliciesInv, PolicyRows, ChannelInv
<1>11. RolesInv
  BY <1>2, <1>5, StartsIdle DEF RolesInv, RoleIds, RoleInv, RoleOps
<1>12. CacheInv
  BY StartsIdle DEF CacheInv, RoleOps
<1>13. SchedulerInv
  BY <1>4, StartsIdle DEF SchedulerInv, ScheduleRows, ScheduleColumns, JobsInv, ScheduleOps
<1>14. TreeInv
  <2>1. \A t \in Session : Taken(t) = {} /\ Mentions(t) = {}
    BY StartsIdle DEF Taken, Mentions
  <2>2. GroupIds
    BY <1>2, <1>3, <2>1 DEF GroupIds, Known
  <2>3. \A g \in DOMAIN tree : IsRow(tree[g]) /\ tree[g].path = PathUnder(tree, g, tree[g].parent)
    <3>1. ASSUME NEW g \in DOMAIN tree
          PROVE  IsRow(tree[g]) /\ tree[g].path = PathUnder(tree, g, tree[g].parent)
      <4>1. PICK p, path : p = tree[g].parent /\ path = PathUnder(tree, g, p)
        OBVIOUS
      <4>2. tree[g] = [parent |-> p, path |-> path]
        BY <1>3, <4>1 DEF Row
      <4> QED
        BY <4>1, <4>2 DEF IsRow
    <3> QED
      BY <3>1
  <2>4. TreeRows
    BY <2>3, StartsIdle DEF TreeRows, RowHeld
  <2>5. ParentInv
    BY <1>3, StartsIdle DEF ParentInv, ParentHeld
  <2>6. ASSUME NEW g \in DOMAIN tree
        PROVE  Ends(tree[g].path, g)
    <3>1. CASE tree[g].parent = None
      <4>1. tree[g].path = <<g>> /\ g \in Group
        BY <1>3, <2>3, <3>1 DEF PathUnder
      <4> QED
        BY <4>1 DEF Ends
    <3>2. CASE tree[g].parent # None
      <4>1. PICK upper : upper = tree[tree[g].parent].path
        OBVIOUS
      <4>2. upper \in Seq(Group) /\ tree[g].path = Append(upper, g) /\ g \in Group
        BY <1>3, <2>3, <3>2, <4>1 DEF PathUnder
      <4> QED
        BY <4>2 DEF Ends
    <3> QED
      BY <3>1, <3>2
  <2>7. PathInv
    BY <2>3, <2>6, StartsIdle DEF PathInv, PathsSound, PathHeld
  <2> QED
    BY <2>2, <2>4, <2>5, <2>7 DEF TreeInv
<1> QED
  BY <1>7, <1>8, <1>9, <1>10, <1>11, <1>12, <1>13, <1>14 DEF AdministrationInv

LEMMA StaysSound ==
    ASSUME AdministrationInv, [Next]_vars
    PROVE  AdministrationInv'
<1>1. SessionsInv /\ SessionsInv'
  BY SessionsKept DEF AdministrationInv
<1>2. DeviceRows' /\ CredentialInv'
  BY <1>1, CredentialKept DEF AdministrationInv
<1>3. RunsInv' /\ PoliciesInv' /\ RolesInv'
  BY <1>1, RunsKept, PoliciesKept, RolesKept DEF AdministrationInv
<1>4. CacheInv' /\ SchedulerInv'
  BY <1>1, CacheKept, SchedulerKept DEF AdministrationInv
<1>5. TreeInv'
  BY <1>1, TreeKept DEF AdministrationInv
<1> QED
  BY <1>1, <1>2, <1>3, <1>4, <1>5 DEF AdministrationInv

\* Whatever requests interleave, a behaviour of the web process keeps what its
\* handlers keep together.
THEOREM HandlersKeepTheirWord == Spec => []AdministrationInv
<1>1. Init => AdministrationInv
  BY StartsSound
<1>2. AdministrationInv /\ [Next]_vars => AdministrationInv'
  BY StaysSound
<1> QED
  BY <1>1, <1>2, PTL DEF Spec

\* The credential of a device, the device of a record, the schedule of a run, the
\* role of a user and the channels of a policy exist, in every state: only the
\* races that are noted, of the handlers that check nothing against each other,
\* can leave a row that refers to nothing. (crud.py, the services)
THEOREM ReferencesStay == Spec => []ReferencesHold
<1>1. AdministrationInv => ReferencesHold
  <2> SUFFICES ASSUME AdministrationInv
               PROVE  ReferencesHold
    OBVIOUS
  <2>1. ReferencesResolve
    BY DEF AdministrationInv, CredentialInv, RunsInv, DeviceInv, ScheduleInv, ReferencesResolve, UsedCredentials
  <2>2. UsersHaveRoles
    BY DEF AdministrationInv, RolesInv, RoleInv, UsersHaveRoles
  <2>3. RoutesResolve
    BY DEF AdministrationInv, PoliciesInv, ChannelInv, RoutesResolve
  <2> QED
    BY <2>1, <2>2, <2>3 DEF ReferencesHold
<1> QED
  BY <1>1, HandlersKeepTheirWord, PTL

\* When no schedule is being changed the scheduler has a job for the enabled
\* schedules and no others, and when no role is being changed the role cache is
\* the table of roles; only two changes at once, or one that fails on its way,
\* can leave them apart. (sync_scheduler_from_db, refresh_role_cache)
THEOREM CachesStayCurrent == Spec => []CachesAreCurrent
<1>1. AdministrationInv => CachesAreCurrent
  BY DEF AdministrationInv, SchedulerInv, JobsInv, CacheInv, CachesAreCurrent, JobsAreCurrent, RoleCacheIsCurrent
<1> QED
  BY <1>1, HandlersKeepTheirWord, PTL

\* Every group's path is its parent's path and its own id, through every creation,
\* move, import and deletion, so that a subtree found by its paths is the subtree;
\* only a move that another move or a creation overlapped can break it. And every
\* parent exists, unless (without the foreign key) its deletion was overlapped.
\* (create_group, update_group, delete_group, expand_group_ids)
THEOREM TreeStaysSound == Spec => []TreeIsSound
<1>1. AdministrationInv => TreeIsSound
  <2> SUFFICES ASSUME TreeInv
               PROVE  TreeIsSound
    BY DEF AdministrationInv
  <2>1. ForeignKey \/ "orphan" \notin overlap =>
            \A g \in DOMAIN tree : tree[g].parent \in DOMAIN tree \cup {None}
    BY DEF TreeInv, ParentInv
  <2>2. ASSUME "tree" \notin overlap, NEW g \in DOMAIN tree, tree[g].parent \in DOMAIN tree \cup {None}
        PROVE  tree[g] = Row(tree, g, tree[g].parent)
    <3>1. tree[g].path = PathUnder(tree, g, tree[g].parent)
      BY <2>2 DEF TreeInv, PathInv, PathsSound
    <3>2. tree[g] = [parent |-> tree[g].parent, path |-> tree[g].path]
      BY DEF TreeInv, TreeRows, IsRow
    <3> QED
      BY <3>1, <3>2 DEF Row
  <2> QED
    BY <2>1, <2>2 DEF TreeIsSound
<1> QED
  BY <1>1, HandlersKeepTheirWord, PTL

-----------------------------------------------------------------------------
(* What a deletion leaves: of the targets of a schedule, and of the records. *)

LEMMA DeletionRaces ==
    /\ "targets" \in Raced("deleteDevices", "saveSchedule")
    /\ "targets" \in Raced("deleteDevices", "deleteDevices")
    /\ "records" \in Raced("cleanup", "deleteRecords")
BY DEF Raced, Races, Pairs

\* Only devices are deleted; and the button of a schedule changes one column.
RemovalRows ==
    /\ \A t \in Session : tx[t].op = "deleteDevices" => tx[t].devices \subseteq Device
    /\ \A t \in Session : tx[t].op = "toggleSchedule" /\ tx[t].stage = "open" =>
          ~tx[t].new /\ tx[t].columns = {"on"}

\* Unless raced, what a deletion of devices has rewritten is still what the
\* schedule names without them, and what it has not names none of them.
TargetsInv ==
    "targets" \notin overlap =>
        \A t \in Session : tx[t].op = "deleteDevices" =>
            \A x \in DOMAIN schedules :
                IF x \in DOMAIN tx[t].targets
                THEN tx[t].targets[x] = schedules[x].targets \ tx[t].devices
                ELSE schedules[x].targets \cap tx[t].devices = {}

LEMMA RemovalRowsKept ==
    ASSUME SessionsInv, [Next]_vars, RemovalRows
    PROVE  RemovalRows'
<1>1. ASSUME Quiet({"deleteDevices", "toggleSchedule"})
      PROVE  RemovalRows'
  BY <1>1 DEF RemovalRows, Quiet
<1>2. ASSUME NEW s \in Session, NEW ops, Touches(s, ops), ops \cap {"deleteDevices", "toggleSchedule"} = {}
      PROVE  RemovalRows'
  BY <1>1, <1>2, OthersQuiet
<1>3. ASSUME NEW s \in Session, RemovalStep(s)
      PROVE  RemovalRows'
  <2>1. Touches(s, {"deleteDevices"})
    BY <1>3, RemovalFrame
  <2>2. ASSUME NEW ds \in Selections \cup {{d} : d \in Device}, DeleteDevices(s, ds)
        PROVE  RemovalRows'
    <3>1. tx'[s].op = "deleteDevices" /\ tx'[s].devices = ds
      BY <2>2, Opened DEF DeleteDevices, Opens, SessionsInv
    <3>2. ds \subseteq Device
      BY <2>2, TargetsAssumption
    <3> QED
      BY <2>1, <3>1, <3>2 DEF RemovalRows, Touches
  <2>3. CASE CommitDeleteDevices(s)
    <3>1. tx'[s].op = "none"
      BY <2>3, Closing, IdleOp DEF CommitDeleteDevices, Ready, SessionsInv
    <3> QED
      BY <2>1, <3>1 DEF RemovalRows, Touches
  <2> QED
    BY <1>3, <2>2, <2>3 DEF RemovalStep
<1>4. ASSUME NEW s \in Session, ScheduleStep(s)
      PROVE  RemovalRows'
  <2>1. Touches(s, ScheduleOps)
    BY <1>4, ScheduleFrame
  <2>2. CASE tx'[s].op = "toggleSchedule" /\ tx'[s].stage = "open" => ~tx'[s].new /\ tx'[s].columns = {"on"}
    BY <2>1, <2>2 DEF RemovalRows, Touches, ScheduleOps
  <2>3. ASSUME NEW x, ToggleSchedule(s, x)
        PROVE  RemovalRows'
    <3>1. ~tx'[s].new /\ tx'[s].columns = {"on"}
      BY <2>3, Opened DEF ToggleSchedule, Opens, SessionsInv
    <3> QED
      BY <2>2, <3>1
  <2>4. ASSUME NEW x, NEW on, NEW targets, SaveSchedule(s, x, on, targets)
        PROVE  RemovalRows'
    <3>1. tx'[s].op = "saveSchedule"
      BY <2>4, Opened DEF SaveSchedule, Opens, SessionsInv
    <3> QED
      BY <2>2, <3>1
  <2>5. ASSUME NEW x, DeleteSchedule(s, x)
        PROVE  RemovalRows'
    <3>1. tx'[s].op = "deleteSchedule"
      BY <2>5, Opened DEF DeleteSchedule, Opens, SessionsInv
    <3> QED
      BY <2>2, <3>1
  <2>6. CASE CommitSchedule(s)
    <3>1. tx'[s] = [op |-> tx[s].op, stage |-> "reload"]
      BY <2>6 DEF CommitSchedule, Continues, SessionsInv
    <3> QED
      BY <2>2, <3>1
  <2>7. CASE ReadJobs(s)
    <3>1. tx'[s] = [op |-> tx[s].op, stage |-> "clear", found |-> Enabled]
      BY <2>7 DEF ReadJobs, Continues, SessionsInv
    <3> QED
      BY <2>2, <3>1
  <2>8. CASE RemoveJobs(s)
    <3>1. tx'[s] = [op |-> tx[s].op, stage |-> "add", found |-> tx[s].found]
      BY <2>8 DEF RemoveJobs, Continues, SessionsInv
    <3> QED
      BY <2>2, <3>1
  <2>9. CASE AddJobs(s) \/ ReloadFails(s)
    <3>1. tx'[s].op = "none"
      BY <2>9, IdleOp DEF AddJobs, ReloadFails, Closes, Continues, SessionsInv
    <3> QED
      BY <2>2, <3>1
  <2> QED
    BY <1>4, <2>3, <2>4, <2>5, <2>6, <2>7, <2>8, <2>9 DEF ScheduleStep
<1>5. CASE UNCHANGED vars \/ UserStep \/ RunStep \/ Restart
  <2>1. Quiet({"deleteDevices", "toggleSchedule"})
    BY <1>5, UserFrame, RunFrame, RestartFrame DEF Quiet, vars, requestVars
  <2> QED
    BY <1>1, <2>1
<1>6. ASSUME NEW s \in Session, RollbackStep(s)
      PROVE  RemovalRows'
  <2>1. Touches(s, {tx[s].op}) /\ tx'[s].op = "none"
    BY <1>6, RollbackFrame, IdleOp
  <2> QED
    BY <2>1 DEF RemovalRows, Touches
<1>7. ASSUME NEW s \in Session, \/ GroupStep(s) \/ DeviceStep(s) \/ CredentialStep(s)
                                \/ BackupStep(s) \/ RoleStep(s) \/ RoutingStep(s)
      PROVE  RemovalRows'
  <2>1. CASE GroupStep(s)
    BY <1>2, <2>1, GroupFrame DEF GroupOps
  <2>2. CASE DeviceStep(s)
    BY <1>2, <2>2, DeviceFrame DEF DeviceOps
  <2>3. CASE CredentialStep(s)
    BY <1>2, <2>3, CredentialFrame
  <2>4. CASE BackupStep(s)
    BY <1>2, <2>4, BackupFrame DEF BackupOps
  <2>5. CASE RoleStep(s)
    BY <1>2, <2>5, RoleFrame DEF RoleOps
  <2>6. CASE RoutingStep(s)
    BY <1>2, <2>6, RoutingFrame DEF RoutingOps
  <2> QED
    BY <1>7, <2>1, <2>2, <2>3, <2>4, <2>5, <2>6
<1> QED
  BY <1>3, <1>4, <1>5, <1>6, <1>7, StepKinds

LEMMA TargetsQuiet ==
    ASSUME TargetsInv, Quiet({"deleteDevices"}), DOMAIN schedules' \subseteq DOMAIN schedules,
           \A x \in DOMAIN schedules' : schedules'[x].targets = schedules[x].targets
    PROVE  TargetsInv'
BY DEF TargetsInv, Quiet

LEMMA TargetsKept ==
    ASSUME SessionsInv, [Next]_vars, ScheduleRows, RemovalRows, TargetsInv
    PROVE  TargetsInv'
<1>1. ASSUME NEW s \in Session, NEW ops, Touches(s, ops), "deleteDevices" \notin ops, schedules' = schedules
      PROVE  TargetsInv'
  <2>1. Quiet({"deleteDevices"})
    BY <1>1, OthersQuiet
  <2> QED
    BY <1>1, <2>1, TargetsQuiet
<1>2. ASSUME NEW s \in Session, NEW t \in Session \ {s}, "targets" \notin overlap, tx[t].op = "deleteDevices"
      PROVE  tx[s].op \notin {"deleteDevices", "saveSchedule"}
  <2>1. Raced(tx[t].op, tx[s].op) \subseteq overlap
    BY DEF SessionsInv, RacesNoted
  <2> QED
    BY <1>2, <2>1, DeletionRaces
<1>3. ASSUME NEW s \in Session, RemovalStep(s)
      PROVE  TargetsInv'
  <2>1. Touches(s, {"deleteDevices"})
    BY <1>3, RemovalFrame
  <2>2. ASSUME NEW ds, DeleteDevices(s, ds)
        PROVE  TargetsInv'
    <3>1. PICK targets :
            /\ targets = [x \in {x \in DOMAIN schedules : schedules[x].targets \cap ds # {}} |->
                            schedules[x].targets \ ds]
            /\ Opens(s, [op |-> "deleteDevices", stage |-> "open", devices |-> ds, targets |-> targets])
      BY <2>2 DEF DeleteDevices
    <3>2. tx'[s].devices = ds /\ tx'[s].targets = targets /\ schedules' = schedules
      <4>1. tx'[s] = [op |-> "deleteDevices", stage |-> "open", devices |-> ds, targets |-> targets]
        BY <3>1, Opened DEF Opens, SessionsInv
      <4> QED
        BY <2>2, <4>1 DEF DeleteDevices, inventoryVars
    <3>3. \A x \in DOMAIN schedules :
            IF x \in DOMAIN targets THEN targets[x] = schedules[x].targets \ ds
            ELSE schedules[x].targets \cap ds = {}
      BY <3>1
    <3> QED
      BY <2>1, <3>2, <3>3 DEF TargetsInv, Touches
  <2>3. CASE CommitDeleteDevices(s)
    <3>1. tx'[s].op = "none" /\ tx[s].op = "deleteDevices"
      BY <2>3, Closing, IdleOp DEF CommitDeleteDevices, Ready, SessionsInv
    <3>2. ASSUME "targets" \notin overlap', NEW t \in Session
          PROVE  tx'[t].op # "deleteDevices"
      BY <1>2, <2>1, <3>1, <3>2 DEF Touches
    <3> QED
      BY <3>2 DEF TargetsInv
  <2> QED
    BY <1>3, <2>2, <2>3 DEF RemovalStep
<1>4. ASSUME NEW s \in Session, ScheduleStep(s)
      PROVE  TargetsInv'
  <2>1. Touches(s, ScheduleOps) /\ Quiet({"deleteDevices"})
    BY <1>4, ScheduleFrame, OthersQuiet DEF ScheduleOps
  <2>2. CASE schedules' = schedules
    BY <2>1, <2>2, TargetsQuiet
  <2>3. CASE CommitSchedule(s) /\ Ready(s, "saveSchedule")
    <3>1. ASSUME "targets" \notin overlap', NEW t \in Session
          PROVE  tx'[t].op # "deleteDevices"
      BY <1>2, <2>1, <2>3, <3>1 DEF Touches, ScheduleOps, Ready
    <3> QED
      BY <3>1 DEF TargetsInv
  <2>4. CASE CommitSchedule(s) /\ Ready(s, "toggleSchedule")
    <3>1. ~tx[s].new /\ tx[s].columns = {"on"}
      BY <2>4 DEF Ready, RemovalRows
    <3>2. PICK y : y = tx[s].schedule
      OBVIOUS
    <3>3. PICK row : row = Updated(schedules[y], {"on"}, tx[s].row)
      OBVIOUS
    <3>4. y \in DOMAIN schedules /\ schedules' = Over(Only(y, row), schedules)
      BY <2>4, <3>1, <3>2, <3>3 DEF CommitSchedule, Ready
    <3>5. DOMAIN schedules[y] = ScheduleColumns
      BY <3>4 DEF ScheduleRows
    <3>6. row.targets = schedules[y].targets
      BY <3>3, <3>5 DEF Updated, ScheduleColumns
    <3>7. /\ DOMAIN schedules' = DOMAIN schedules
          /\ \A x \in DOMAIN schedules : schedules'[x] = IF x = y THEN row ELSE schedules[x]
      BY <3>4 DEF Over, Only
    <3>8. \A x \in DOMAIN schedules' : schedules'[x].targets = schedules[x].targets
      BY <3>6, <3>7
    <3> QED
      BY <2>1, <3>7, <3>8, TargetsQuiet
  <2>5. CASE CommitSchedule(s) /\ Ready(s, "deleteSchedule")
    <3>1. schedules' = Restrict(schedules, DOMAIN schedules \ {tx[s].schedule})
      BY <2>5 DEF CommitSchedule, Ready
    <3>2. /\ DOMAIN schedules' \subseteq DOMAIN schedules
          /\ \A x \in DOMAIN schedules' : schedules'[x] = schedules[x]
      BY <3>1 DEF Restrict
    <3> QED
      BY <2>1, <3>2, TargetsQuiet
  <2>6. CommitSchedule(s) \/ schedules' = schedules
    BY <1>4 DEF ScheduleStep, SaveSchedule, ToggleSchedule, DeleteSchedule, ReadJobs, RemoveJobs, AddJobs,
       ReloadFails, inventoryVars
  <2> QED
    BY <2>2, <2>3, <2>4, <2>5, <2>6 DEF CommitSchedule
<1>5. CASE UNCHANGED vars \/ UserStep \/ RunStep \/ Restart
  <2>1. Quiet({"deleteDevices"}) /\ schedules' = schedules
    BY <1>5, UserFrame, RunFrame, RestartFrame DEF Quiet, vars, requestVars, inventoryVars
  <2> QED
    BY <2>1, TargetsQuiet
<1>6. ASSUME NEW s \in Session, RollbackStep(s)
      PROVE  TargetsInv'
  <2>1. Quiet({"deleteDevices"}) /\ schedules' = schedules
    BY <1>6, RollbackFrame, IdleOp DEF Quiet, Touches, inventoryVars
  <2> QED
    BY <2>1, TargetsQuiet
<1>7. ASSUME NEW s \in Session, \/ GroupStep(s) \/ DeviceStep(s) \/ CredentialStep(s)
                                \/ BackupStep(s) \/ RoleStep(s) \/ RoutingStep(s)
      PROVE  TargetsInv'
  <2>1. CASE GroupStep(s)
    BY <1>1, <2>1, GroupFrame DEF GroupOps
  <2>2. CASE DeviceStep(s)
    BY <1>1, <2>2, DeviceFrame DEF DeviceOps
  <2>3. CASE CredentialStep(s)
    BY <1>1, <2>3, CredentialFrame
  <2>4. CASE BackupStep(s)
    BY <1>1, <2>4, BackupFrame DEF BackupOps
  <2>5. CASE RoleStep(s)
    BY <1>1, <2>5, RoleFrame DEF RoleOps, inventoryVars
  <2>6. CASE RoutingStep(s)
    BY <1>1, <2>6, RoutingFrame DEF RoutingOps, inventoryVars
  <2> QED
    BY <1>7, <2>1, <2>2, <2>3, <2>4, <2>5, <2>6
<1> QED
  BY <1>3, <1>4, <1>5, <1>6, <1>7, StepKinds

\* A deletion that nothing overlapped takes its devices out of what a schedule
\* backs up, and nothing else.
LEMMA RemovalNarrows ==
    ASSUME ScheduleRows, RemovalRows, TargetsInv, NEW s \in Session, CommitDeleteDevices(s),
           "targets" \notin overlap, NEW x \in DOMAIN schedules
    PROVE  Resolve(schedules[x].targets)' = Resolve(schedules[x].targets) \ tx[s].devices
<1> DEFINE ds == tx[s].devices
           old == schedules[x].targets
           now == schedules'[x].targets
<1>1. tx[s].op = "deleteDevices" /\ ds \subseteq Device /\ tree' = tree
  BY DEF CommitDeleteDevices, Ready, RemovalRows
<1>2. IF x \in DOMAIN tx[s].targets THEN tx[s].targets[x] = old \ ds ELSE old \cap ds = {}
  BY <1>1 DEF TargetsInv
<1>3. IF x \in DOMAIN tx[s].targets THEN schedules'[x] = [schedules[x] EXCEPT !.targets = tx[s].targets[x]]
                                     ELSE schedules'[x] = schedules[x]
  BY DEF CommitDeleteDevices
<1>4. "targets" \in DOMAIN schedules[x]
  BY DEF ScheduleRows, ScheduleColumns
<1>5. now = old \ ds
  BY <1>2, <1>3, <1>4
<1>6. /\ DOMAIN devices' = DOMAIN devices \ ds
      /\ \A d \in DOMAIN devices' : devices'[d] = devices[d]
  BY DEF CommitDeleteDevices, Restrict
<1>7. All \notin ds /\ ds \cap Group = {}
  BY <1>1, TargetsAssumption
<1> HIDE DEF ds, old, now
<1>8. (All \in now <=> All \in old) /\ now \cap Group = old \cap Group
  BY <1>5, <1>7
<1>9. PICK below : below = Expand(tree, old \cap Group)
  OBVIOUS
<1>10. Expand(tree, now \cap Group) = below
  BY <1>8, <1>9
<1>11. Resolve(schedules[x].targets) =
         IF All \in old THEN DOMAIN devices
         ELSE {d \in DOMAIN devices : d \in old \/ devices[d].group \in below}
  BY <1>9 DEF Resolve, old
<1>12. Resolve(schedules[x].targets)' =
         IF All \in now THEN DOMAIN devices'
         ELSE {d \in DOMAIN devices' : d \in now \/ devices'[d].group \in below}
  BY <1>1, <1>10 DEF Resolve, now
<1> QED
  BY <1>5, <1>6, <1>8, <1>11, <1>12 DEF ds

\* The numbers of runs and records.
Numbers == DOMAIN runs \cup {r.run : r \in records}

\* A number is given once: to a plan, and then to its run and its records.
NumbersInv ==
    /\ begun \in [Parts -> Nat]
    /\ Numbers \subseteq 1..begun["backups"]
    /\ \A t \in Session : tx[t].op = "plan" =>
          /\ tx[t].run \in 1..begun["backups"] \ Numbers
          /\ \A u \in Session \ {t} : tx[u].op = "plan" => tx[u].run # tx[t].run

\* A run has one record of a device, and its records become active, and end, together:
\* none has ended while the run is open.
RecordsInv ==
    /\ \A r, q \in records : r.run = q.run /\ r.device = q.device => r = q
    /\ \A r, q \in records : r.run = q.run /\ q.status = "active" => r.status = "active"
    /\ \A r \in records : r.run \in DOMAIN runs /\ runs[r.run].open => r.status = "active"

\* Unless raced, a cleanup never dooms the latest success of a device.
CleanupInv ==
    "records" \notin overlap =>
        \A t \in Session : tx[t].op = "cleanup" =>
            \A r \in records : r \in Kept(r.device) => <<r.run, r.device>> \notin tx[t].doomed

\* The requests are counted.
Counts == begun' = begun \/ \E part : begun' = [begun EXCEPT ![part] = @ + 1]

LEMMA CountedUp ==
    ASSUME NEW b \in [Parts -> Nat], NEW c,
           c = b \/ \E part : c = [b EXCEPT ![part] = @ + 1]
    PROVE  /\ c \in [Parts -> Nat]
           /\ 1..b["backups"] \subseteq 1..c["backups"]
           /\ c["backups"] = b["backups"] + 1 => c["backups"] \in 1..c["backups"] \ 1..b["backups"]
<1>1. "backups" \in Parts
  BY DEF Parts
<1>2. PICK n \in Nat : n = b["backups"]
  BY <1>1
<1>3. c \in [Parts -> Nat] /\ (c["backups"] = n \/ c["backups"] = n + 1)
  BY <1>1, <1>2
<1> QED
  BY <1>2, <1>3

LEMMA CountsUp ==
    ASSUME [Next]_vars
    PROVE  Counts
<1>1. ASSUME NEW s, NEW r, NEW new, OpensTaking(s, r, new)
      PROVE  Counts
  BY <1>1 DEF OpensTaking, Begins, Counts
<1>2. ASSUME NEW part, Alone(part)
      PROVE  Counts
  BY <1>2 DEF Alone, Begins, Counts
<1>3. ASSUME NEW s, NEW r, Continues(s, r)
      PROVE  Counts
  BY <1>3 DEF Continues, Counts
<1>4. ASSUME NEW s, Closes(s)
      PROVE  Counts
  BY <1>3, <1>4 DEF Closes
<1>5. ASSUME NEW s, NEW r, Opens(s, r)
      PROVE  Counts
  BY <1>1, <1>5 DEF Opens
<1>6. ASSUME NEW s \in Session, GroupStep(s)
      PROVE  Counts
  <2>1. ASSUME NEW g, NEW p, CreateGroup(s, g, p) \/ MoveGroup(s, g, p) \/ DeleteGroup(s, g)
        PROVE  Counts
    BY <1>1, <1>5, <2>1 DEF CreateGroup, MoveGroup, DeleteGroup
  <2> QED
    BY <1>3, <1>4, <1>6, <2>1 DEF GroupStep, FlushMove, CommitGroup
<1>7. ASSUME NEW s \in Session, DeviceStep(s)
      PROVE  Counts
  <2>1. ASSUME NEW d, NEW row, SaveDevice(s, d, row)
        PROVE  Counts
    BY <1>5, <2>1 DEF SaveDevice
  <2>2. ASSUME NEW ds, NEW column, NEW row, BulkUpdate(s, ds, column, row)
        PROVE  Counts
    BY <1>5, <2>2 DEF BulkUpdate
  <2>3. ASSUME NEW file, Import(s, file)
        PROVE  Counts
    BY <1>1, <2>3 DEF Import
  <2>4. CASE CommitDevices(s)
    BY <1>4, <2>4 DEF CommitDevices
  <2> QED
    BY <1>7, <2>1, <2>2, <2>3, <2>4 DEF DeviceStep
<1>8. ASSUME NEW s \in Session, RemovalStep(s)
      PROVE  Counts
  BY <1>4, <1>5, <1>8 DEF RemovalStep, DeleteDevices, CommitDeleteDevices
<1>9. ASSUME NEW s \in Session, CredentialStep(s)
      PROVE  Counts
  BY <1>2, <1>4, <1>5, <1>9 DEF CredentialStep, CreateCredential, DeleteCredential, CommitDeleteCredential
<1>10. ASSUME NEW s \in Session, ScheduleStep(s)
      PROVE  Counts
  <2>1. ASSUME NEW x, NEW on, NEW targets, SaveSchedule(s, x, on, targets)
        PROVE  Counts
    BY <1>5, <2>1 DEF SaveSchedule
  <2>2. ASSUME NEW x, ToggleSchedule(s, x) \/ DeleteSchedule(s, x)
        PROVE  Counts
    BY <1>5, <2>2 DEF ToggleSchedule, DeleteSchedule
  <2>3. CASE CommitSchedule(s)
    BY <1>3, <2>3 DEF CommitSchedule
  <2>4. CASE ReadJobs(s) \/ RemoveJobs(s) \/ AddJobs(s)
    BY <1>3, <1>4, <2>4 DEF ReadJobs, RemoveJobs, AddJobs
  <2>5. CASE ReloadFails(s)
    BY <2>5 DEF ReloadFails, Counts
  <2> QED
    BY <1>10, <2>1, <2>2, <2>3, <2>4, <2>5 DEF ScheduleStep
<1>11. ASSUME NEW s \in Session, BackupStep(s)
      PROVE  Counts
  <2>1. ASSUME NEW x, NEW ds, NEW alone, Plans(s, x, ds, alone)
        PROVE  Counts
    BY <1>5, <2>1 DEF Plans
  <2>2. ASSUME NEW rs, DeleteRecords(s, rs)
        PROVE  Counts
    BY <1>5, <2>2 DEF DeleteRecords
  <2>3. CASE Cleanup(s) \/ CommitRun(s) \/ CommitRecords(s)
    BY <1>4, <1>5, <2>3 DEF Cleanup, CommitRun, CommitRecords
  <2> QED
    BY <1>11, <2>1, <2>2, <2>3 DEF BackupStep, BackupRequest, Plan, PlanBulk, PlanSingle, Retry
<1>12. ASSUME NEW s \in Session, RollbackStep(s)
      PROVE  Counts
  BY <1>4, <1>12 DEF RollbackStep, Rollback
<1>13. ASSUME NEW s \in Session, RoleStep(s)
      PROVE  Counts
  <2>1. ASSUME NEW op, NEW r, NEW new, OpensRoles(s, op, r, new)
        PROVE  Counts
    BY <1>1, <2>1 DEF OpensRoles
  <2>2. CASE IdentityRequest(s)
    BY <2>1, <2>2 DEF IdentityRequest, ViewRoles, CreateRole, RenameRole, DeleteRole, SaveUser
  <2>3. CASE FlushRole(s)
    BY <1>3, <2>3 DEF FlushRole
  <2>4. CASE CommitRoles(s) \/ CommitUser(s)
    BY <1>4, <2>4 DEF CommitRoles, CommitUser
  <2>5. CASE RollbackRoles(s)
    BY <2>5 DEF RollbackRoles, Counts
  <2> QED
    BY <1>13, <2>2, <2>3, <2>4, <2>5 DEF RoleStep, IdentityCommit
<1>14. ASSUME NEW s \in Session, RoutingStep(s)
      PROVE  Counts
  <2>1. ASSUME NEW p, NEW cs, NEW t, SavePolicy(s, p, cs, t)
        PROVE  Counts
    BY <1>5, <2>1 DEF SavePolicy
  <2>2. ASSUME NEW c, CreateChannel(c) \/ CreateTemplate(c)
        PROVE  Counts
    BY <1>2, <2>2 DEF CreateChannel, CreateTemplate
  <2>3. ASSUME NEW c, DeleteChannel(s, c)
        PROVE  Counts
    BY <1>5, <2>3 DEF DeleteChannel
  <2>4. ASSUME NEW c, DeleteTemplate(s, c) \/ DeletePolicy(s, c)
        PROVE  Counts
    BY <1>5, <2>4 DEF DeleteTemplate, DeletePolicy
  <2>5. CASE DispatchEvent(s)
    BY <1>5, <2>5 DEF DispatchEvent
  <2>6. CASE CommitRouting(s) \/ RollbackRouting(s)
    BY <1>4, <2>6 DEF CommitRouting, RollbackRouting
  <2> QED
    BY <1>14, <2>1, <2>2, <2>3, <2>4, <2>5, <2>6 DEF RoutingStep, RoutingRequest, RoutingCommit
<1>15. CASE UserStep
  BY <1>2, <1>15 DEF UserStep, DeleteUser
<1>16. CASE RunStep \/ Restart \/ UNCHANGED vars
  BY <1>16 DEF RunStep, InventoryElsewhere, EndRun, Age, Restart, vars, requestVars, Counts
<1> QED
  BY <1>6, <1>7, <1>8, <1>9, <1>10, <1>11, <1>12, <1>13, <1>14, <1>15, <1>16, StepKinds

\* No number is taken by a step that plans nothing and commits no plan.
LEMMA NumbersQuiet ==
    ASSUME NumbersInv, Counts, Quiet({"plan"}), Numbers' \subseteq Numbers
    PROVE  NumbersInv'
<1>1. begun' \in [Parts -> Nat] /\ 1..begun["backups"] \subseteq 1..begun'["backups"]
  BY CountedUp DEF NumbersInv, Counts
<1> QED
  BY <1>1 DEF NumbersInv, Quiet

LEMMA RecordsShrink ==
    ASSUME RecordsInv, records' \subseteq records, DOMAIN runs' \subseteq DOMAIN runs,
           \A i \in DOMAIN runs' : runs'[i] = runs[i]
    PROVE  RecordsInv' /\ Numbers' \subseteq Numbers
BY DEF RecordsInv, Numbers

LEMMA NumberPlanned ==
    ASSUME SessionsInv, NumbersInv, NEW s \in Session, NEW x, NEW ds, NEW alone, Plans(s, x, ds, alone)
    PROVE  NumbersInv'
<1>1. /\ tx'[s].op = "plan" /\ tx'[s].run = begun["backups"] + 1
      /\ UNCHANGED inventoryVars
  BY Opened DEF Plans, Opens, SessionsInv
<1>2. Touches(s, BackupOps)
  BY Starting DEF SessionsInv, Plans, Opens, BackupOps
<1>3. begun' = [begun EXCEPT !["backups"] = @ + 1]
  BY DEF Plans, Opens, OpensTaking, Begins, PartOf, RoleOps, RoutingOps, BackupOps
<1>4. begun'["backups"] = begun["backups"] + 1
  BY <1>3 DEF NumbersInv, Parts
<1>5. /\ begun' \in [Parts -> Nat]
      /\ 1..begun["backups"] \subseteq 1..begun'["backups"]
      /\ begun'["backups"] \in 1..begun'["backups"] \ 1..begun["backups"]
  BY <1>3, <1>4, CountedUp DEF NumbersInv
<1>6. Numbers' = Numbers
  BY <1>1 DEF Numbers, inventoryVars
<1>7. tx'[s].run \in 1..begun'["backups"] \ 1..begun["backups"]
  BY <1>1, <1>4, <1>5
<1> HIDE DEF NumbersInv
<1>8. PICK before : before = 1..begun["backups"]
  OBVIOUS
<1>9. PICK after : after = 1..begun'["backups"]
  OBVIOUS
<1>10. /\ Numbers \subseteq before /\ before \subseteq after /\ tx'[s].run \in after \ before
       /\ \A t \in Session : tx[t].op = "plan" =>
             /\ tx[t].run \in before \ Numbers
             /\ \A u \in Session \ {t} : tx[u].op = "plan" => tx[u].run # tx[t].run
  BY <1>5, <1>7, <1>8, <1>9 DEF NumbersInv
<1>11. \A t \in Session : tx'[t].op = "plan" =>
          /\ tx'[t].run \in after \ Numbers
          /\ \A u \in Session \ {t} : tx'[u].op = "plan" => tx'[u].run # tx'[t].run
  BY <1>1, <1>2, <1>10 DEF Touches
<1> QED
  BY <1>5, <1>6, <1>9, <1>10, <1>11 DEF NumbersInv

LEMMA NumberCommitted ==
    ASSUME SessionsInv, NumbersInv, RecordsInv, NEW s \in Session, CommitRun(s)
    PROVE  NumbersInv' /\ RecordsInv'
<1> DEFINE new == [run : {tx[s].run}, device : tx[s].devices, status : {"active"}, at : {aged}]
<1>1. records' = records \cup new /\ tx[s].op = "plan" /\ begun' = begun
  BY DEF CommitRun, Ready, Closes, Continues
<1>2. Touches(s, {"plan"}) /\ tx'[s].op = "none"
  BY Closing, IdleOp DEF CommitRun, Ready, SessionsInv
<1>3. /\ \A r \in new : r.run = tx[s].run /\ r.status = "active"
      /\ \A r, q \in new : r.device = q.device => r = q
  OBVIOUS
<1>4. /\ DOMAIN runs' \subseteq DOMAIN runs \cup {tx[s].run}
      /\ \A i \in DOMAIN runs : runs'[i] = runs[i]
  <2>1. CASE tx[s].alone
    BY <2>1 DEF CommitRun
  <2>2. CASE ~tx[s].alone
    <3>1. PICK row : runs' = Over(runs, Only(tx[s].run, row))
      BY <2>2 DEF CommitRun
    <3> QED
      BY <3>1 DEF Over, Only
  <2> QED
    BY <2>1, <2>2
<1>5. tx[s].run \notin Numbers /\ \A r \in records : r.run # tx[s].run
  BY <1>1 DEF NumbersInv, Numbers
<1> HIDE DEF new
<1>6. Numbers' \subseteq Numbers \cup {tx[s].run}
  BY <1>1, <1>3, <1>4 DEF Numbers
<1>7. NumbersInv'
  BY <1>1, <1>2, <1>6 DEF NumbersInv, Touches
<1>8. ASSUME NEW r \in records', NEW q \in records', r.run = q.run
      PROVE  (r \in records /\ q \in records) \/ (r \in new /\ q \in new)
  BY <1>1, <1>3, <1>5, <1>8
<1>9. ASSUME NEW r \in records', r.run \in DOMAIN runs', runs'[r.run].open
      PROVE  r.status = "active"
  <2>1. CASE r \in new
    BY <1>3, <2>1
  <2>2. CASE r \in records
    <3>1. r.run \in DOMAIN runs /\ runs'[r.run] = runs[r.run]
      BY <1>4, <1>5, <1>9, <2>2
    <3> QED
      BY <1>9, <2>2, <3>1 DEF RecordsInv
  <2> QED
    BY <1>1, <2>1, <2>2
<1>10. RecordsInv'
  BY <1>3, <1>8, <1>9 DEF RecordsInv
<1> QED
  BY <1>7, <1>10

LEMMA RecordsEnded ==
    ASSUME RecordRows, RunRows, NumbersInv, RecordsInv, NEW i, NEW good, EndRun(i, good)
    PROVE  RecordsInv' /\ NumbersInv'
<1> DEFINE Ended(r) == IF r.run # i THEN r
                       ELSE [r EXCEPT !.status = IF r.device \in good THEN "succeeded" ELSE "failed"]
<1>1. records' = {Ended(r) : r \in records} /\ begun' = begun /\ tx' = tx
  BY DEF EndRun
<1>2. ASSUME NEW r \in records
      PROVE  /\ Ended(r).run = r.run /\ Ended(r).device = r.device
             /\ r.run # i => Ended(r) = r
             /\ r.run = i => Ended(r).status # "active"
  <2>1. DOMAIN r = {"run", "device", "status", "at"}
    BY DEF RecordRows
  <2> QED
    BY <2>1
<1>3. /\ DOMAIN runs' = DOMAIN runs
      /\ \A j \in DOMAIN runs : runs'[j].open => j # i /\ runs'[j] = runs[j]
  <2>1. CASE i \in DOMAIN runs
    <3>1. runs' = [runs EXCEPT ![i].open = FALSE] /\ DOMAIN runs[i] = {"schedule", "open", "at"}
      BY <2>1 DEF EndRun, RunRows
    <3>2. ~runs'[i].open
      BY <2>1, <3>1
    <3> QED
      BY <3>1, <3>2
  <2>2. CASE i \notin DOMAIN runs
    BY <2>2 DEF EndRun
  <2> QED
    BY <2>1, <2>2
<1> HIDE DEF Ended
<1>4. Numbers' = Numbers
  BY <1>1, <1>2, <1>3 DEF Numbers
<1>5. NumbersInv'
  BY <1>1, <1>4 DEF NumbersInv
<1>6. ASSUME NEW r \in records', NEW q \in records', r.run = q.run
      PROVE  /\ r.device = q.device => r = q
             /\ q.status = "active" => r.status = "active"
  <2>1. PICK a \in records : r = Ended(a)
    BY <1>1
  <2>2. PICK b \in records : q = Ended(b)
    BY <1>1
  <2>3. a.run = b.run
    BY <1>2, <1>6, <2>1, <2>2
  <2>4. r.device = q.device => a = b
    BY <1>2, <2>1, <2>2, <2>3 DEF RecordsInv
  <2>5. q.status = "active" => r = a /\ q = b
    BY <1>2, <2>1, <2>2, <2>3
  <2> QED
    BY <2>1, <2>2, <2>3, <2>4, <2>5 DEF RecordsInv
<1>7. ASSUME NEW q \in records', q.run \in DOMAIN runs', runs'[q.run].open
      PROVE  q.status = "active"
  <2>1. PICK r \in records : q = Ended(r)
    BY <1>1
  <2>2. q = r /\ runs[r.run].open /\ r.run \in DOMAIN runs
    BY <1>2, <1>3, <1>7, <2>1
  <2> QED
    BY <2>2 DEF RecordsInv
<1>8. RecordsInv'
  BY <1>6, <1>7 DEF RecordsInv
<1> QED
  BY <1>5, <1>8

LEMMA NumbersKept ==
    ASSUME SessionsInv, [Next]_vars, RunsInv, NumbersInv, RecordsInv
    PROVE  NumbersInv' /\ RecordsInv'
<1>1. Counts
  BY CountsUp
<1>2. ASSUME Quiet({"plan"}), records' \subseteq records, DOMAIN runs' \subseteq DOMAIN runs,
             \A i \in DOMAIN runs' : runs'[i] = runs[i]
      PROVE  NumbersInv' /\ RecordsInv'
  BY <1>1, <1>2, NumbersQuiet, RecordsShrink
<1>3. ASSUME Quiet({"plan"}), UNCHANGED <<runs, records>>
      PROVE  NumbersInv' /\ RecordsInv'
  BY <1>2, <1>3
<1>4. ASSUME NEW s \in Session, BackupStep(s)
      PROVE  NumbersInv' /\ RecordsInv'
  <2>1. ASSUME NEW x, NEW ds, NEW alone, Plans(s, x, ds, alone), UNCHANGED inventoryVars
        PROVE  NumbersInv' /\ RecordsInv'
    BY <2>1, NumberPlanned, RecordsShrink DEF inventoryVars
  <2>2. ASSUME Cleanup(s) \/ \E rs \in SUBSET records : DeleteRecords(s, rs)
        PROVE  NumbersInv' /\ RecordsInv'
    <3>1. ASSUME NEW op \in {"cleanup", "deleteRecords"}, NEW r, Opens(s, r), r.op = op
          PROVE  Quiet({"plan"})
      <4>1. Touches(s, {op})
        BY <3>1, Starting DEF Opens, SessionsInv
      <4> QED
        BY <4>1, OthersQuiet
    <3>2. CASE Cleanup(s)
      BY <1>3, <3>1, <3>2 DEF Cleanup, inventoryVars
    <3>3. ASSUME NEW rs, DeleteRecords(s, rs)
          PROVE  NumbersInv' /\ RecordsInv'
      BY <1>3, <3>1, <3>3 DEF DeleteRecords, inventoryVars
    <3> QED
      BY <2>2, <3>2, <3>3
  <2>3. CASE CommitRecords(s)
    <3>1. Quiet({"plan"})
      <4>1. Touches(s, {"cleanup", "deleteRecords"})
        BY <2>3, Closing DEF CommitRecords, Ready, SessionsInv
      <4> QED
        BY <4>1, OthersQuiet
    <3>2. /\ records' \subseteq records
          /\ DOMAIN runs' \subseteq DOMAIN runs /\ \A i \in DOMAIN runs' : runs'[i] = runs[i]
      BY <2>3, PrunedRuns DEF CommitRecords
    <3> QED
      BY <1>2, <3>1, <3>2
  <2>4. CASE CommitRun(s)
    BY <2>4, NumberCommitted
  <2>5. BackupRequest(s) =>
          \/ \E x, ds, alone : Plans(s, x, ds, alone)
          \/ Cleanup(s) \/ \E rs \in SUBSET records : DeleteRecords(s, rs)
    BY DEF BackupRequest, Plan, PlanBulk, PlanSingle, Retry
  <2>6. \A x, ds, alone : Plans(s, x, ds, alone) => UNCHANGED inventoryVars
    BY DEF Plans
  <2> QED
    BY <1>4, <2>1, <2>2, <2>3, <2>4, <2>5, <2>6 DEF BackupStep
<1>5. ASSUME NEW s \in Session, RemovalStep(s)
      PROVE  NumbersInv' /\ RecordsInv'
  <2>1. Quiet({"plan"})
    BY <1>5, RemovalFrame, OthersQuiet
  <2>2. ASSUME NEW ds, DeleteDevices(s, ds)
        PROVE  NumbersInv' /\ RecordsInv'
    BY <1>3, <2>1, <2>2 DEF DeleteDevices, inventoryVars
  <2>3. CASE CommitDeleteDevices(s)
    <3>1. /\ records' \subseteq records
          /\ DOMAIN runs' \subseteq DOMAIN runs /\ \A i \in DOMAIN runs' : runs'[i] = runs[i]
      BY <2>3, PrunedRuns DEF CommitDeleteDevices
    <3> QED
      BY <1>2, <2>1, <3>1
  <2> QED
    BY <1>5, <2>2, <2>3 DEF RemovalStep
<1>6. ASSUME NEW s \in Session, ScheduleStep(s)
      PROVE  NumbersInv' /\ RecordsInv'
  <2>1. Quiet({"plan"}) /\ records' = records
    BY <1>6, ScheduleFrame, OthersQuiet DEF ScheduleOps
  <2>2. \/ runs' = runs
        \/ runs' = Restrict(runs, {i \in DOMAIN runs : runs[i].schedule # tx[s].schedule})
    BY <1>6 DEF ScheduleStep, SaveSchedule, ToggleSchedule, DeleteSchedule, CommitSchedule, ReadJobs, RemoveJobs,
       AddJobs, ReloadFails, inventoryVars
  <2>3. DOMAIN runs' \subseteq DOMAIN runs /\ \A i \in DOMAIN runs' : runs'[i] = runs[i]
    BY <2>2 DEF Restrict
  <2> QED
    BY <1>2, <2>1, <2>3
<1>7. CASE UNCHANGED vars \/ UserStep \/ Restart
  <2>1. Quiet({"plan"}) /\ UNCHANGED <<runs, records>>
    BY <1>7, UserFrame, RestartFrame DEF Quiet, vars, requestVars, inventoryVars
  <2> QED
    BY <1>3, <2>1
<1>8. CASE RunStep
  <2>1. Quiet({"plan"})
    BY <1>8, RunFrame DEF Quiet
  <2> QED
    BY <1>3, <1>8, <2>1, RunFrame, RecordsEnded DEF RunsInv
<1>9. ASSUME NEW s \in Session, RollbackStep(s)
      PROVE  NumbersInv' /\ RecordsInv'
  <2>1. Quiet({"plan"}) /\ UNCHANGED <<runs, records>>
    BY <1>9, RollbackFrame, IdleOp DEF Quiet, Touches, inventoryVars
  <2> QED
    BY <1>3, <2>1
<1>10. ASSUME NEW s \in Session, \/ GroupStep(s) \/ DeviceStep(s) \/ CredentialStep(s)
                                 \/ RoleStep(s) \/ RoutingStep(s)
      PROVE  NumbersInv' /\ RecordsInv'
  <2>1. CASE GroupStep(s)
    BY <1>3, <2>1, GroupFrame, OthersQuiet DEF GroupOps
  <2>2. CASE DeviceStep(s)
    BY <1>3, <2>2, DeviceFrame, OthersQuiet DEF DeviceOps
  <2>3. CASE CredentialStep(s)
    BY <1>3, <2>3, CredentialFrame, OthersQuiet
  <2>4. CASE RoleStep(s)
    BY <1>3, <2>4, RoleFrame, OthersQuiet DEF RoleOps, inventoryVars
  <2>5. CASE RoutingStep(s)
    BY <1>3, <2>5, RoutingFrame, OthersQuiet DEF RoutingOps, inventoryVars
  <2> QED
    BY <1>10, <2>1, <2>2, <2>3, <2>4, <2>5
<1> QED
  BY <1>4, <1>5, <1>6, <1>7, <1>8, <1>9, <1>10, StepKinds

LEMMA LeastNumber ==
    ASSUME NEW S, S \subseteq Nat, S # {}
    PROVE  \E m \in S : \A k \in S : m <= k
<1>1. \E m \in S : \A k \in S : <<k, m>> \notin OpToRel(<, Nat)
  BY NatLessThanWellFounded, WFMin
<1>2. \A k, m \in S : <<k, m>> \in OpToRel(<, Nat) <=> k < m
  BY DEF OpToRel
<1>3. \A k, m \in S : ~(k < m) => m <= k
  OBVIOUS
<1> QED
  BY <1>1, <1>2, <1>3

LEMMA GreatestNumber ==
    ASSUME NEW n \in Nat, NEW S, S \subseteq 1..n, S # {}
    PROVE  \E m \in S : \A k \in S : k <= m
<1> DEFINE D == {n - k : k \in S}
<1>1. D \subseteq Nat /\ D # {}
  <2>1. \A k \in S : k \in 1..n
    OBVIOUS
  <2>2. \A k \in S : n - k \in Nat
    BY <2>1
  <2> QED
    BY <2>2
<1>2. PICK d \in D : \A e \in D : d <= e
  BY <1>1, LeastNumber
<1>3. PICK m \in S : d = n - m
  OBVIOUS
<1>4. ASSUME NEW k \in S
      PROVE  k <= m
  <2>1. n - m <= n - k /\ k \in Int /\ m \in Int
    BY <1>2, <1>3
  <2> QED
    BY <2>1
<1> QED
  BY <1>4

\* A device with a success has a latest one.
LEMMA LatestExists ==
    ASSUME NumbersInv, NEW d, NEW q \in Succeeded(d)
    PROVE  \E r \in Kept(d) : q.run <= r.run
<1> DEFINE S == {r.run : r \in Succeeded(d)}
<1>1. "backups" \in Parts
  BY DEF Parts
<1>2. PICK n \in Nat : n = begun["backups"]
  BY <1>1 DEF NumbersInv
<1>3. S \subseteq 1..n
  BY <1>2 DEF NumbersInv, Numbers, Succeeded
<1>4. PICK m \in S : \A k \in S : k <= m
  BY <1>3, GreatestNumber
<1>5. PICK r \in Succeeded(d) : m = r.run
  OBVIOUS
<1>6. \A p \in Succeeded(d) : p.run <= r.run
  BY <1>4, <1>5
<1> QED
  BY <1>5, <1>6 DEF Kept

LEMMA CleanupQuiet ==
    ASSUME CleanupInv, Quiet({"cleanup"}), records' = records
    PROVE  CleanupInv'
<1>1. \A d : Kept(d)' = Kept(d)
  BY DEF Kept, Succeeded
<1> QED
  BY <1>1 DEF CleanupInv, Quiet

\* Records that go without another becoming the latest success of its device.
LEMMA CleanupShrinks ==
    ASSUME CleanupInv, Quiet({"cleanup"}), records' \subseteq records,
           "records" \notin overlap' =>
              \A r \in records' : r \in Kept(r.device)' => r \in Kept(r.device)
    PROVE  CleanupInv'
BY DEF CleanupInv, Quiet

LEMMA CleanupEnds ==
    ASSUME RecordRows, RecordsInv, CleanupInv, NEW i \in Unfinished, NEW good, EndRun(i, good)
    PROVE  CleanupInv'
<1> SUFFICES ASSUME "records" \notin overlap', NEW t \in Session, tx'[t].op = "cleanup",
                    NEW q \in records', q \in Kept(q.device)'
             PROVE  <<q.run, q.device>> \notin tx'[t].doomed
  BY DEF CleanupInv
<1>1. /\ "records" \notin overlap /\ tx' = tx
      /\ \A k \in tx[t].doomed : k[1] # i
  BY DEF EndRun
<1>2. PICK r \in records : q = IF r.run # i THEN r
                               ELSE [r EXCEPT !.status = IF r.device \in good THEN "succeeded" ELSE "failed"]
  BY DEF EndRun
<1>3. CASE r.run = i
  <2>1. DOMAIN r = {"run", "device", "status", "at"}
    BY DEF RecordRows
  <2>2. q.run = i
    BY <1>2, <1>3, <2>1
  <2> QED
    BY <1>1, <2>2
<1>4. CASE r.run # i
  <2>1. q = r
    BY <1>2, <1>4
  <2>2. \A p \in records : p.run = i => p.status = "active"
    BY DEF RecordsInv, Unfinished
  <2>3. \A p \in records : p.run # i => p \in records'
    BY DEF EndRun
  <2>4. Succeeded(q.device) \subseteq Succeeded(q.device)'
    BY <2>2, <2>3 DEF Succeeded
  <2>5. q \in Kept(q.device)
    BY <2>1, <2>4 DEF Kept, Succeeded
  <2> QED
    BY <1>1, <2>1, <2>5 DEF CleanupInv
<1> QED
  BY <1>3, <1>4

\* Another cleanup leaves the latest successes alone.
LEMMA CleanupCommits ==
    ASSUME NumbersInv, CleanupInv, NEW s \in Session, Ready(s, "cleanup"), CommitRecords(s),
           "records" \notin overlap, NEW r \in records', r \in Kept(r.device)'
    PROVE  r \in Kept(r.device)
<1>1. \A q \in records : q \in Kept(q.device) => q \in records'
  BY DEF CommitRecords, Ready, CleanupInv
<1>2. records' \subseteq records
  BY DEF CommitRecords
<1>3. r \in Succeeded(r.device) /\ \A p \in Succeeded(r.device) : p \in records' => p.run <= r.run
  BY <1>2 DEF Kept, Succeeded
<1>4. \A p \in Succeeded(r.device) : p \in records /\ p.device = r.device /\ p.run \in Nat
  <2>1. \A p \in records : p.run \in 1..begun["backups"]
    BY DEF NumbersInv, Numbers
  <2> QED
    BY <2>1 DEF Succeeded
<1>5. ASSUME NEW q \in Succeeded(r.device)
      PROVE  q.run <= r.run
  <2>1. PICK m \in Kept(r.device) : q.run <= m.run
    BY <1>5, LatestExists
  <2>2. m \in Succeeded(r.device)
    BY DEF Kept
  <2>3. m \in records'
    BY <1>1, <1>4, <2>2
  <2>4. m.run <= r.run
    BY <1>3, <2>2, <2>3
  <2> QED
    BY <1>3, <1>4, <2>1, <2>2, <2>4
<1> QED
  BY <1>3, <1>5 DEF Kept

LEMMA CleanupKept ==
    ASSUME SessionsInv, SessionsInv', [Next]_vars, RunsInv, NumbersInv, RecordsInv, CleanupInv
    PROVE  CleanupInv'
<1>1. ASSUME NEW s \in Session, BackupStep(s)
      PROVE  CleanupInv'
  <2>1. Touches(s, BackupOps)
    BY <1>1, BackupFrame
  <2>2. ASSUME NEW op \in {"plan", "deleteRecords"}, NEW r, Opens(s, r), r.op = op, UNCHANGED inventoryVars
        PROVE  CleanupInv'
    <3>1. Touches(s, {op})
      BY <2>2, Starting DEF Opens, SessionsInv
    <3>2. Quiet({"cleanup"})
      BY <3>1, OthersQuiet
    <3> QED
      BY <2>2, <3>2, CleanupQuiet DEF inventoryVars
  <2>3. ASSUME NEW x, NEW ds, NEW alone, Plans(s, x, ds, alone)
        PROVE  CleanupInv'
    BY <2>2, <2>3 DEF Plans
  <2>4. ASSUME NEW rs, DeleteRecords(s, rs)
        PROVE  CleanupInv'
    BY <2>2, <2>4 DEF DeleteRecords
  <2>5. CASE Cleanup(s)
    <3>1. tx'[s].doomed = Keys(Expired) /\ records' = records
      BY <2>5, Opened DEF Cleanup, Opens, SessionsInv, inventoryVars
    <3>2. \A d : Kept(d)' = Kept(d)
      BY <3>1 DEF Kept, Succeeded
    <3>3. \A r \in records : r \in Kept(r.device) => <<r.run, r.device>> \notin Keys(Expired)
      BY DEF Keys, Expired, RecordsInv
    <3> QED
      BY <2>1, <3>1, <3>2, <3>3 DEF CleanupInv, Touches
  <2>6. CASE CommitRun(s)
    <3> DEFINE new == [run : {tx[s].run}, device : tx[s].devices, status : {"active"}, at : {aged}]
    <3>1. records' = records \cup new /\ \A r \in new : r.status = "active"
      BY <2>6 DEF CommitRun
    <3> HIDE DEF new
    <3>2. \A d : Succeeded(d)' = Succeeded(d)
      BY <3>1 DEF Succeeded
    <3>3. \A d : Kept(d)' = Kept(d) /\ Kept(d) \subseteq records
      BY <3>2 DEF Kept, Succeeded
    <3>4. Quiet({"cleanup"})
      <4>1. Touches(s, {"plan"})
        BY <2>6, Closing DEF CommitRun, Ready, SessionsInv
      <4> QED
        BY <4>1, OthersQuiet
    <3> QED
      BY <3>3, <3>4 DEF CleanupInv, Quiet
  <2>7. CASE CommitRecords(s)
    <3>1. tx'[s].op = "none" /\ records' \subseteq records /\ overlap' = overlap
      BY <2>7, IdleOp DEF CommitRecords, Closes, Continues, SessionsInv
    <3>2. Quiet({"cleanup"})
      BY <2>1, <3>1 DEF Quiet, Touches
    <3>3. CASE Ready(s, "cleanup")
      BY <2>7, <3>1, <3>2, <3>3, CleanupCommits, CleanupShrinks
    <3>4. CASE Ready(s, "deleteRecords")
      <4>1. ASSUME NEW t \in Session, tx'[t].op = "cleanup"
            PROVE  "records" \in overlap
        <5>1. t # s /\ tx[t].op = "cleanup" /\ tx[s].op = "deleteRecords"
          BY <2>1, <3>1, <3>4, <4>1 DEF Touches, Ready
        <5>2. Raced(tx[t].op, tx[s].op) \subseteq overlap
          BY <5>1 DEF SessionsInv, RacesNoted
        <5> QED
          BY <5>1, <5>2, DeletionRaces
      <4> QED
        BY <3>1, <4>1 DEF CleanupInv
    <3> QED
      BY <2>7, <3>3, <3>4 DEF CommitRecords
  <2>8. BackupRequest(s) =>
          \/ \E x, ds, alone : Plans(s, x, ds, alone)
          \/ Cleanup(s) \/ \E rs \in SUBSET records : DeleteRecords(s, rs)
    BY DEF BackupRequest, Plan, PlanBulk, PlanSingle, Retry
  <2> QED
    BY <1>1, <2>3, <2>4, <2>5, <2>6, <2>7, <2>8 DEF BackupStep
<1>2. ASSUME NEW s \in Session, RemovalStep(s)
      PROVE  CleanupInv'
  <2>1. Quiet({"cleanup"})
    BY <1>2, RemovalFrame, OthersQuiet
  <2>2. ASSUME NEW ds, DeleteDevices(s, ds)
        PROVE  CleanupInv'
    BY <2>1, <2>2, CleanupQuiet DEF DeleteDevices, inventoryVars
  <2>3. CASE CommitDeleteDevices(s)
    <3>1. records' = {r \in records : r.device \notin tx[s].devices}
      BY <2>3 DEF CommitDeleteDevices
    <3>2. ASSUME NEW r \in records', r \in Kept(r.device)'
          PROVE  r \in Kept(r.device)
      <4>1. Succeeded(r.device)' = Succeeded(r.device)
        BY <3>1, <3>2 DEF Succeeded
      <4> QED
        BY <3>2, <4>1 DEF Kept
    <3> QED
      BY <2>1, <3>1, <3>2, CleanupShrinks
  <2> QED
    BY <1>2, <2>2, <2>3 DEF RemovalStep
<1>3. CASE RunStep
  <2>1. CASE records' = records
    <3>1. Quiet({"cleanup"})
      BY <1>3, RunFrame DEF Quiet
    <3> QED
      BY <2>1, <3>1, CleanupQuiet
  <2>2. ASSUME NEW i \in Unfinished, NEW good, EndRun(i, good)
        PROVE  CleanupInv'
    BY <2>2, CleanupEnds DEF RunsInv
  <2> QED
    BY <1>3, <2>1, <2>2 DEF RunStep, InventoryElsewhere, Age
<1>4. CASE UNCHANGED vars \/ UserStep \/ Restart
  <2>1. Quiet({"cleanup"}) /\ records' = records
    BY <1>4, UserFrame, RestartFrame DEF Quiet, vars, requestVars, inventoryVars
  <2> QED
    BY <2>1, CleanupQuiet
<1>5. ASSUME NEW s \in Session, RollbackStep(s)
      PROVE  CleanupInv'
  <2>1. Quiet({"cleanup"}) /\ records' = records
    BY <1>5, RollbackFrame, IdleOp DEF Quiet, Touches, inventoryVars
  <2> QED
    BY <2>1, CleanupQuiet
<1>6. ASSUME NEW s \in Session, \/ GroupStep(s) \/ DeviceStep(s) \/ CredentialStep(s) \/ ScheduleStep(s)
                                \/ RoleStep(s) \/ RoutingStep(s)
      PROVE  CleanupInv'
  <2>1. CASE GroupStep(s)
    BY <2>1, CleanupQuiet, GroupFrame, OthersQuiet DEF GroupOps
  <2>2. CASE DeviceStep(s)
    BY <2>2, CleanupQuiet, DeviceFrame, OthersQuiet DEF DeviceOps
  <2>3. CASE CredentialStep(s)
    BY <2>3, CleanupQuiet, CredentialFrame, OthersQuiet
  <2>4. CASE ScheduleStep(s)
    BY <2>4, CleanupQuiet, ScheduleFrame, OthersQuiet DEF ScheduleOps
  <2>5. CASE RoleStep(s)
    BY <2>5, CleanupQuiet, RoleFrame, OthersQuiet DEF RoleOps, inventoryVars
  <2>6. CASE RoutingStep(s)
    BY <2>6, CleanupQuiet, RoutingFrame, OthersQuiet DEF RoutingOps, inventoryVars
  <2> QED
    BY <1>6, <2>1, <2>2, <2>3, <2>4, <2>5, <2>6
<1> QED
  BY <1>1, <1>2, <1>3, <1>4, <1>5, <1>6, StepKinds

\* What the deletions keep together with everything else.
DeletionInv ==
    /\ AdministrationInv
    /\ RemovalRows /\ TargetsInv /\ NumbersInv /\ RecordsInv /\ CleanupInv

LEMMA DeletionStarts ==
    ASSUME Init
    PROVE  DeletionInv
<1>1. AdministrationInv
  BY StartsSound
<1>2. RemovalRows /\ TargetsInv /\ CleanupInv /\ RecordsInv
  BY StartsIdle DEF RemovalRows, TargetsInv, CleanupInv, RecordsInv
<1>3. begun = [part \in Parts |-> 0]
  BY DEF Init, RequestsInit
<1>4. Numbers = {}
  BY StartsIdle DEF Numbers
<1>5. NumbersInv
  BY <1>3, <1>4, StartsIdle DEF NumbersInv
<1> QED
  BY <1>1, <1>2, <1>5 DEF DeletionInv

LEMMA DeletionStep ==
    ASSUME DeletionInv, [Next]_vars
    PROVE  DeletionInv'
<1>1. /\ AdministrationInv /\ RemovalRows /\ TargetsInv /\ NumbersInv /\ RecordsInv /\ CleanupInv
      /\ SessionsInv /\ RunsInv /\ ScheduleRows
  BY DEF DeletionInv, AdministrationInv, SchedulerInv
<1>2. AdministrationInv' /\ SessionsInv'
  BY <1>1, StaysSound, SessionsKept
<1>3. RemovalRows' /\ TargetsInv'
  BY <1>1, RemovalRowsKept, TargetsKept
<1>4. NumbersInv' /\ RecordsInv' /\ CleanupInv'
  BY <1>1, <1>2, NumbersKept, CleanupKept
<1> QED
  BY <1>2, <1>3, <1>4 DEF DeletionInv

\* A deletion of devices takes them out of what every schedule backs up and changes
\* nothing else of it, and a cleanup leaves every device that has a successful backup
\* its latest one, in whatever order requests are served: only a schedule saved or
\* devices deleted, records deleted by hand or ended meanwhile, can make it otherwise.
\* (delete_device, bulk_delete_devices, cleanup_old_backups)
THEOREM DeletionsNarrow == Spec => DeletionNarrows
<1>1. Init => DeletionInv
  BY DeletionStarts
<1>2. DeletionInv /\ [Next]_vars => DeletionInv'
  BY DeletionStep
<1> DEFINE Narrows ==
      \A s \in Session :
          /\ CommitDeleteDevices(s) /\ "targets" \notin overlap =>
                \A x \in DOMAIN schedules :
                    Resolve(schedules[x].targets)' = Resolve(schedules[x].targets) \ tx[s].devices
          /\ Ready(s, "cleanup") /\ CommitRecords(s) /\ "records" \notin overlap =>
                \A d \in Device : Succeeded(d) # {} => Succeeded(d)' # {}
<1>3. ASSUME DeletionInv
      PROVE  Narrows
  <2>1. ASSUME NEW s \in Session, CommitDeleteDevices(s), "targets" \notin overlap, NEW x \in DOMAIN schedules
        PROVE  Resolve(schedules[x].targets)' = Resolve(schedules[x].targets) \ tx[s].devices
    BY <1>3, <2>1, RemovalNarrows DEF DeletionInv, AdministrationInv, SchedulerInv
  <2>2. ASSUME NEW s \in Session, Ready(s, "cleanup"), CommitRecords(s), "records" \notin overlap,
               NEW d \in Device, Succeeded(d) # {}
        PROVE  Succeeded(d)' # {}
    <3>1. PICK r : r \in Kept(d)
      BY <1>3, <2>2, LatestExists DEF DeletionInv
    <3>2. r \in records /\ r.device = d /\ r.status = "succeeded"
      BY <3>1 DEF Kept, Succeeded
    <3>3. <<r.run, r.device>> \notin tx[s].doomed
      BY <1>3, <2>2, <3>1, <3>2 DEF DeletionInv, CleanupInv, Ready
    <3>4. r \in records'
      BY <2>2, <3>2, <3>3 DEF CommitRecords
    <3> QED
      BY <3>2, <3>4 DEF Succeeded
  <2> QED
    BY <2>1, <2>2
<1>4. DeletionInv /\ [Next]_vars => [Narrows]_<<inventoryVars, requestVars>>
  BY <1>3
<1>5. Spec => [][Narrows]_<<inventoryVars, requestVars>>
  <2> HIDE DEF Narrows
  <2> QED
    BY <1>1, <1>2, <1>4, PTL DEF Spec
<1> QED
  BY <1>5 DEF DeletionNarrows

-----------------------------------------------------------------------------
(* Induction. *)

\* Induction, with the set of the numbers for which the claim holds.
LEMMA StepByStep ==
    ASSUME NEW n \in Nat, NEW G \in SUBSET (0..n), 0 \in G,
           \A i \in 1..n : i - 1 \in G => i \in G
    PROVE  \A i \in 0..n : i \in G
<1> DEFINE Bad == (0..n) \ G
<1>1. SUFFICES ASSUME Bad # {} PROVE FALSE
  OBVIOUS
<1>2. PICK m \in Bad : \A k \in Bad : m <= k
  <2>1. Bad \subseteq Nat
    OBVIOUS
  <2> HIDE DEF Bad
  <2> QED
    BY <1>1, <2>1, LeastNumber
<1>3. m \in 1..n /\ m \notin G
  BY <1>2
<1>4. m - 1 \in Bad
  BY <1>3
<1> QED
  BY <1>2, <1>3, <1>4

-----------------------------------------------------------------------------
(* Numbers. *)

LEMMA Products ==
    ASSUME NEW a \in Nat, NEW b \in Nat, NEW c \in Nat, a <= b
    PROVE  a * c <= b * c
<1>1. PICK d \in Nat : b = a + d
  <2>1. b - a \in Nat /\ b = a + (b - a)
    OBVIOUS
  <2> QED
    BY <2>1
<1>2. b * c = a * c + d * c
  BY <1>1
<1>3. d * c \in Nat /\ a * c \in Nat
  OBVIOUS
<1> QED
  BY <1>2, <1>3

LEMMA Division ==
    ASSUME NEW a \in Nat, NEW b \in Nat \ {0}
    PROVE  a \div b \in Nat /\ (a \div b) * b <= a /\ a < (a \div b) * b + b
OBVIOUS

\* The numbers of page p.
Offsets(p, limit) == (p - 1) * limit .. p * limit - 1

\* A number is on one page.
LEMMA OnePage ==
    ASSUME NEW limit \in Nat \ {0}, NEW p \in Nat \ {0}, NEW q \in Nat \ {0}, p < q
    PROVE  Offsets(p, limit) \cap Offsets(q, limit) = {}
<1>1. p <= q - 1 /\ q - 1 \in Nat
  OBVIOUS
<1>2. p * limit <= (q - 1) * limit
  BY <1>1, Products
<1>3. p * limit \in Nat /\ (q - 1) * limit \in Nat /\ (p - 1) * limit \in Int /\ q * limit \in Nat
  BY <1>1
<1>4. PICK a \in Int, b \in Nat, c \in Nat, d \in Nat :
          a = (p - 1) * limit /\ b = p * limit /\ c = (q - 1) * limit /\ d = q * limit
  BY <1>3
<1>5. b <= c
  BY <1>2, <1>4
<1>6. (a .. b - 1) \cap (c .. d - 1) = {}
  BY <1>5
<1> QED
  BY <1>4, <1>6 DEF Offsets

\* Each number is on one of the pages, and the last page begins with one.
LEMMA PagesCover ==
    ASSUME NEW limit \in Nat \ {0}, NEW n \in Nat, n # 0
    PROVE  /\ TotalPages(n, limit) \in Nat \ {0}
           /\ \A r \in 0 .. n - 1 : \E p \in 1 .. TotalPages(n, limit) : r \in Offsets(p, limit)
           /\ \E r \in 0 .. n - 1 : r \in Offsets(TotalPages(n, limit), limit)
<1>1. n + limit - 1 \in Nat
  OBVIOUS
<1>2. PICK last \in Nat : last = (n + limit - 1) \div limit
  BY <1>1, Division
<1>3. PICK whole \in Nat : whole = last * limit
  OBVIOUS
<1>4. whole <= n + limit - 1 /\ n + limit - 1 < whole + limit
  BY <1>1, <1>2, <1>3, Division
<1>5. last # 0
  BY <1>3, <1>4
<1>6. (last - 1) * limit = whole - limit
  BY <1>3
<1>7. \A r \in 0 .. n - 1 : \E p \in 1 .. last : r \in Offsets(p, limit)
  <2> SUFFICES ASSUME NEW r \in 0 .. n - 1
               PROVE  \E p \in 1 .. last : r \in Offsets(p, limit)
    OBVIOUS
  <2>1. PICK k \in Nat : k = r \div limit
    BY Division
  <2>2. k * limit <= r /\ r < k * limit + limit
    BY <2>1, Division
  <2>3. (k + 1) * limit = k * limit + limit /\ (k + 1 - 1) * limit = k * limit /\ k * limit \in Nat
    OBVIOUS
  <2>4. PICK m \in Nat : m = k * limit
    BY <2>3
  <2>5. r \in m .. m + limit - 1
    BY <2>2, <2>4
  <2>6. r \in Offsets(k + 1, limit)
    BY <2>3, <2>4, <2>5 DEF Offsets
  <2>7. k + 1 <= last
    <3> SUFFICES ASSUME last <= k
                 PROVE  FALSE
      OBVIOUS
    <3>1. whole <= m
      BY <1>3, <2>4, Products
    <3> QED
      BY <1>4, <2>5, <3>1
  <2> QED
    BY <2>6, <2>7
<1>8. whole - limit \in 0 .. n - 1 /\ whole - limit \in Offsets(last, limit)
  <2>1. whole >= limit
    <3>1. 1 * limit <= last * limit
      BY <1>5, Products
    <3> QED
      BY <1>3, <3>1
  <2>2. whole - limit \in 0 .. n - 1 /\ whole - limit \in whole - limit .. whole - 1
    BY <1>4, <2>1
  <2> QED
    BY <1>3, <1>6, <2>2 DEF Offsets
<1>9. TotalPages(n, limit) = last
  BY <1>2 DEF TotalPages
<1> QED
  BY <1>5, <1>7, <1>8, <1>9

-----------------------------------------------------------------------------
(* Orders. *)

Ahead(S, R, x) == {y \in S : <<y, x>> \in R}

\* R is a strict order of all of S.
Strict(S, R) ==
    /\ \A x \in S : <<x, x>> \notin R
    /\ \A x, y, z \in S : <<x, y>> \in R /\ <<y, z>> \in R => <<x, z>> \in R
    /\ \A x, y \in S : x # y => <<x, y>> \in R \/ <<y, x>> \in R

Rank(S, R) == [x \in S |-> Cardinality(Ahead(S, R, x))]

\* The ranks number the elements of a finite set without a gap.
LEMMA Ranks ==
    ASSUME NEW S, IsFiniteSet(S), NEW R, Strict(S, R)
    PROVE  /\ Rank(S, R) \in [S -> 0 .. Cardinality(S) - 1]
           /\ \A r \in 0 .. Cardinality(S) - 1 : \E x \in S : Rank(S, R)[x] = r
<1>1. Cardinality(S) \in Nat
  BY FS_CardinalityType
<1>2. \A x \in S : IsFiniteSet(Ahead(S, R, x)) /\ Cardinality(Ahead(S, R, x)) \in Nat
  BY FS_Subset, FS_CardinalityType DEF Ahead
<1>3. ASSUME NEW x \in S
      PROVE  Cardinality(Ahead(S, R, x)) \in 0 .. Cardinality(S) - 1
  <2>1. Ahead(S, R, x) \subseteq S \ {x}
    BY DEF Ahead, Strict
  <2>2. IsFiniteSet(S \ {x}) /\ Cardinality(S \ {x}) = Cardinality(S) - 1
    BY FS_RemoveElement
  <2>3. Cardinality(Ahead(S, R, x)) <= Cardinality(S) - 1
    BY <2>1, <2>2, FS_Subset
  <2> QED
    BY <1>1, <1>2, <2>3
<1>4. ASSUME NEW x \in S, NEW y \in S, <<x, y>> \in R
      PROVE  Cardinality(Ahead(S, R, x)) # Cardinality(Ahead(S, R, y))
  <2>1. Ahead(S, R, x) \cup {x} \subseteq Ahead(S, R, y)
    BY <1>4 DEF Ahead, Strict
  <2>2. x \notin Ahead(S, R, x)
    BY DEF Ahead, Strict
  <2>3. Cardinality(Ahead(S, R, x) \cup {x}) = Cardinality(Ahead(S, R, x)) + 1
    BY <1>2, <2>2, FS_AddElement
  <2>4. Cardinality(Ahead(S, R, x) \cup {x}) <= Cardinality(Ahead(S, R, y))
    BY <1>2, <2>1, FS_Subset
  <2> QED
    BY <1>2, <2>3, <2>4
<1> DEFINE f == Rank(S, R)
           T == 0 .. Cardinality(S) - 1
<1>5. f \in [S -> T]
  BY <1>3 DEF Rank
<1>6. f \in Injection(S, T)
  <2>1. \A x, y \in S : f[x] = f[y] => x = y
    BY <1>4 DEF Rank, Strict
  <2> QED
    BY <1>5, <2>1 DEF Injection, IsInjective
<1>7. IsFiniteSet(T) /\ Cardinality(T) = Cardinality(S)
  <2>1. PICK n \in Nat : n = Cardinality(S)
    BY <1>1
  <2>2. IsFiniteSet(0 .. n - 1) /\ Cardinality(0 .. n - 1) = IF 0 > n - 1 THEN 0 ELSE n - 1 - 0 + 1
    BY FS_Interval
  <2> QED
    BY <2>1, <2>2
<1>8. f \in Surjection(S, T)
  BY <1>6, <1>7, FS_Injection
<1> QED
  BY <1>5, <1>8 DEF Surjection

-----------------------------------------------------------------------------
(* Sums. *)

\* What the fold of a sum is.
AddsUp(I, v, f) ==
    f = [T \in SUBSET I |->
          IF T = {} THEN 0 ELSE v[CHOOSE x \in T : TRUE] + f[T \ {CHOOSE x \in T : TRUE}]]

Sums(I, v) == CHOOSE f : AddsUp(I, v, f)

LEMMA SumIs ==
    ASSUME NEW I, NEW v, DOMAIN v = I
    PROVE  SumOf(v) = Sums(I, v)[I]
BY Zenon DEF SumOf, MapThenSumSet, MapThenFoldSet, Sums, AddsUp

\* The sizes of parts that share nothing add up to the size of the whole.
LEMMA SumOfParts ==
    ASSUME NEW I, IsFiniteSet(I), NEW S, IsFiniteSet(S), NEW V \in [I -> SUBSET S],
           \A i, j \in I : i # j => V[i] \cap V[j] = {},
           NEW v, DOMAIN v = I, \A i \in I : v[i] = Cardinality(V[i])
    PROVE  SumOf(v) = Cardinality(UNION {V[i] : i \in I})
<1> DEFINE all(T) == UNION {V[i] : i \in T}
           g == [T \in SUBSET I |-> Cardinality(all(T))]
           one(T) == CHOOSE x \in T : TRUE
<1>1. ASSUME NEW T \in SUBSET I, T # {}
      PROVE  /\ one(T) \in T /\ T \ {one(T)} \in SUBSET I
             /\ g[T] = v[one(T)] + g[T \ {one(T)}] /\ v[one(T)] \in Nat
  <2>1. one(T) \in T
    BY <1>1
  <2> HIDE DEF one
  <2>2. all(T) = V[one(T)] \cup all(T \ {one(T)})
    BY <2>1
  <2>3. V[one(T)] \cap all(T \ {one(T)}) = {}
    BY <2>1
  <2>4. IsFiniteSet(V[one(T)]) /\ IsFiniteSet(all(T \ {one(T)}))
    <3>1. V[one(T)] \in SUBSET S /\ all(T \ {one(T)}) \in SUBSET S
      BY <2>1
    <3> QED
      BY <3>1, FS_Subset
  <2>5. Cardinality(all(T)) = Cardinality(V[one(T)]) + Cardinality(all(T \ {one(T)})) - Cardinality({})
    <3>1. PICK A, B, C : A = V[one(T)] /\ B = all(T \ {one(T)}) /\ C = all(T)
      OBVIOUS
    <3> HIDE DEF all
    <3>2. IsFiniteSet(A) /\ IsFiniteSet(B) /\ C = A \cup B /\ A \cap B = {}
      BY <2>2, <2>3, <2>4, <3>1
    <3>3. Cardinality(C) = Cardinality(A) + Cardinality(B) - Cardinality({})
      BY <3>2, FS_Union
    <3> QED
      BY <3>1, <3>3
  <2>6. Cardinality({}) = 0 /\ Cardinality(V[one(T)]) \in Nat /\ Cardinality(all(T \ {one(T)})) \in Nat
    BY <2>4, FS_EmptySet, FS_CardinalityType
  <2>7. v[one(T)] = Cardinality(V[one(T)])
    BY <2>1
  <2> HIDE DEF all
  <2> QED
    BY <2>1, <2>5, <2>6, <2>7
<1>2. g[{}] = 0
  <2>1. all({}) = {}
    OBVIOUS
  <2> QED
    BY <2>1, FS_EmptySet
<1> HIDE DEF g
<1>3. g = [T \in SUBSET I |-> IF T = {} THEN 0 ELSE v[one(T)] + g[T \ {one(T)}]]
  <2>1. g = [T \in SUBSET I |-> g[T]]
    BY DEF g
  <2>2. \A T \in SUBSET I : g[T] = IF T = {} THEN 0 ELSE v[one(T)] + g[T \ {one(T)}]
    BY <1>1, <1>2
  <2> QED
    BY <2>1, <2>2
<1>4. PICK f : f = Sums(I, v) /\ AddsUp(I, v, f)
  <2>1. AddsUp(I, v, g)
    BY <1>3 DEF AddsUp
  <2> QED
    BY <2>1 DEF Sums
<1>5. ASSUME NEW n \in Nat
      PROVE  \A T \in SUBSET I : Cardinality(T) = n => f[T] = g[T]
  <2> DEFINE G == {m \in 0..n : \A T \in SUBSET I : Cardinality(T) = m => f[T] = g[T]}
  <2>1. 0 \in G
    <3>1. ASSUME NEW T \in SUBSET I, Cardinality(T) = 0
          PROVE  f[T] = g[T]
      <4>1. T = {}
        BY <3>1, FS_Subset, FS_EmptySet
      <4>2. f[T] = 0
        BY <1>4, <4>1 DEF AddsUp
      <4> QED
        BY <1>2, <4>1, <4>2
    <3> QED
      BY <3>1
  <2>2. \A m \in 1..n : m - 1 \in G => m \in G
    <3>1. ASSUME NEW m \in 1..n, m - 1 \in G, NEW T \in SUBSET I, Cardinality(T) = m
          PROVE  f[T] = g[T]
      <4>1. IsFiniteSet(T) /\ T # {}
        BY <3>1, FS_Subset, FS_EmptySet
      <4>2. one(T) \in T /\ T \ {one(T)} \in SUBSET I
        BY <1>1, <4>1
      <4>3. Cardinality(T \ {one(T)}) = m - 1
        BY <3>1, <4>1, <4>2, FS_RemoveElement
      <4>4. f[T \ {one(T)}] = g[T \ {one(T)}]
        BY <3>1, <4>2, <4>3
      <4>5. f[T] = v[one(T)] + f[T \ {one(T)}]
        BY <1>4, <4>1 DEF AddsUp
      <4> QED
        BY <1>1, <4>1, <4>4, <4>5
    <3> QED
      BY <3>1
  <2>3. \A i \in 0..n : i \in G
    <3> HIDE DEF G
    <3>1. G \in SUBSET (0..n)
      BY DEF G
    <3> QED
      BY <2>1, <2>2, <3>1, StepByStep
  <2> QED
    BY <2>3
<1>6. f[I] = g[I]
  BY <1>5, FS_CardinalityType
<1>7. SumOf(v) = Sums(I, v)[I]
  BY SumIs
<1> QED
  BY <1>4, <1>6, <1>7 DEF g

-----------------------------------------------------------------------------
(* Pages. *)

\* The page of some rows in some order.
PageOf(S, R, page, limit) == {x \in S : Rank(S, R)[x] \in Offsets(page, limit)}

Pages(S, R, last, limit) == [page \in 1..last |-> PageOf(S, R, page, limit)]
Sizes(shown, last) == [page \in 1..last |-> Cardinality(shown[page])]

\* The pages cut the rows without a gap, a repetition or an empty page.
LEMMA PagesCut ==
    ASSUME NEW S, IsFiniteSet(S), NEW R, Strict(S, R), NEW limit \in PageSizes,
           NEW last, last = TotalPages(Cardinality(S), limit),
           NEW shown, shown = Pages(S, R, last, limit)
    PROVE  /\ UNION Range(shown) = S
           /\ SumOf(Sizes(shown, last)) = Cardinality(S)
           /\ S # {} => shown[last] # {}
<1>a. shown = [page \in 1..last |-> PageOf(S, R, page, limit)]
  BY DEF Pages
<1>b. PICK sizes : sizes = Sizes(shown, last) /\ sizes = [page \in 1..last |-> Cardinality(shown[page])]
  BY DEF Sizes
<1>1. limit \in Nat \ {0}
  BY ListingsAssumption
<1>2. PICK n \in Nat : n = Cardinality(S)
  BY FS_CardinalityType
<1>3. n = 0 <=> S = {}
  BY <1>2, FS_EmptySet
<1>4. last \in Nat \ {0}
  <2>1. CASE n = 0
    BY <1>2, <2>1 DEF TotalPages
  <2>2. CASE n # 0
    BY <1>1, <1>2, <2>2, PagesCover
  <2> QED
    BY <2>1, <2>2
<1>5. \A x \in S : \E p \in 1..last : x \in shown[p]
  <2> SUFFICES ASSUME NEW x \in S
               PROVE  \E p \in 1..last : x \in shown[p]
    OBVIOUS
  <2>1. Rank(S, R)[x] \in 0 .. n - 1
    BY <1>2, Ranks
  <2>2. PICK p \in 1..last : Rank(S, R)[x] \in Offsets(p, limit)
    BY <1>1, <1>2, <1>3, <2>1, PagesCover
  <2> QED
    BY <1>a, <2>2 DEF PageOf
<1>6. \A p \in 1..last : shown[p] \in SUBSET S
  BY <1>a DEF PageOf
<1>7. UNION Range(shown) = S
  BY <1>5, <1>6, <1>a DEF Range
<1>8. \A p, q \in 1..last : p # q => shown[p] \cap shown[q] = {}
  <2>1. \A p, q \in 1..last : p < q => Offsets(p, limit) \cap Offsets(q, limit) = {}
    BY <1>1, <1>4, OnePage
  <2>2. \A p, q \in 1..last : p # q => Offsets(p, limit) \cap Offsets(q, limit) = {}
    BY <1>4, <2>1
  <2> QED
    BY <1>a, <2>2 DEF PageOf
<1>9. S # {} => shown[last] # {}
  <2> SUFFICES ASSUME S # {}
               PROVE  shown[last] # {}
    OBVIOUS
  <2>1. PICK r \in 0 .. n - 1 : r \in Offsets(last, limit)
    BY <1>1, <1>2, <1>3, PagesCover
  <2>2. PICK x \in S : Rank(S, R)[x] = r
    BY <1>2, Ranks
  <2>3. last \in 1..last
    BY <1>4
  <2>4. shown[last] = {y \in S : Rank(S, R)[y] \in Offsets(last, limit)}
    BY <1>a, <2>3 DEF PageOf
  <2> QED
    BY <2>1, <2>2, <2>4
<1>10. SumOf(sizes) = Cardinality(S)
  <2>1. IsFiniteSet(1..last)
    BY <1>4, FS_Interval
  <2>2. UNION {shown[p] : p \in 1..last} = S
    BY <1>5, <1>6, <1>a
  <2>3. PICK I, V, v : I = 1..last /\ V = shown /\ v = sizes
    OBVIOUS
  <2>4. V = [page \in I |-> PageOf(S, R, page, limit)] /\ v = [page \in I |-> Cardinality(V[page])]
    BY <1>a, <1>b, <2>3
  <2>5. /\ IsFiniteSet(I) /\ V \in [I -> SUBSET S]
        /\ \A i, j \in I : i # j => V[i] \cap V[j] = {}
        /\ DOMAIN v = I /\ \A i \in I : v[i] = Cardinality(V[i])
    BY <1>6, <1>8, <1>a, <1>b, <2>1, <2>3, <2>4
  <2>6. SumOf(v) = Cardinality(UNION {V[i] : i \in I})
    BY ONLY <2>5, IsFiniteSet(S), SumOfParts
  <2> QED
    BY <2>2, <2>3, <2>6
<1> QED
  BY <1>b, <1>7, <1>9, <1>10

-----------------------------------------------------------------------------
(* What the rows hold. *)

Statuses == {"active", "succeeded", "failed"}
ListedOps == DeviceOps \cup {"plan"}

\* Devices are devices, in a group or none; a record is of a device, is active or
\* has ended, and was made before now.
ListedRows ==
    /\ aged \in Nat
    /\ DOMAIN devices \subseteq Device
    /\ \A d \in DOMAIN devices : devices[d].group \in Group \cup {None}
    /\ \A r \in records : r.device \in Device /\ r.status \in Statuses /\ r.at \in 0..aged

\* And so it is with the rows session t holds.
ListedHeld(t) ==
    /\ tx[t].op \in DeviceOps =>
          /\ DOMAIN tx[t].set \subseteq Device
          /\ \A d \in DOMAIN tx[t].set : tx[t].set[d].row.group \in Group \cup {None}
    /\ tx[t].op = "plan" => tx[t].devices \subseteq Device

ListedInv == ListedRows /\ \A t \in Session : ListedHeld(t)

LEMMA ListedOpsOf == DeviceOps = {"saveDevices", "import"} /\ ListedOps = {"saveDevices", "import", "plan"}
BY DEF ListedOps, DeviceOps

\* Fewer devices and records.
LEMMA ListedQuiet ==
    ASSUME ListedInv, Quiet(ListedOps), aged' = aged, records' \subseteq records,
           DOMAIN devices' \subseteq DOMAIN devices, \A d \in DOMAIN devices' : devices'[d] = devices[d]
    PROVE  ListedInv'
<1>1. ListedRows'
  BY DEF ListedInv, ListedRows
<1>2. \A t \in Session : ListedHeld(t)'
  BY ListedOpsOf DEF ListedInv, ListedHeld, Quiet
<1> QED
  BY <1>1, <1>2 DEF ListedInv

LEMMA ListedRequest ==
    ASSUME ListedInv, NEW s \in Session, NEW ops, Touches(s, ops), UNCHANGED inventoryVars, ListedHeld(s)'
    PROVE  ListedInv'
<1>1. ListedRows'
  BY DEF ListedInv, ListedRows, inventoryVars
<1>2. ASSUME NEW t \in Session
      PROVE  ListedHeld(t)'
  <2>1. CASE t = s
    BY <2>1
  <2>2. CASE t # s
    BY <2>2 DEF ListedInv, ListedHeld, Touches
  <2> QED
    BY <2>1, <2>2
<1> QED
  BY <1>1, <1>2 DEF ListedInv

LEMMA ListedDevices ==
    ASSUME SessionsInv, DeviceRows, ListedInv, NEW s \in Session, CommitDevices(s)
    PROVE  ListedInv'
<1> DEFINE set == tx[s].set
<1>1. /\ tx[s].op \in DeviceOps /\ UNCHANGED <<records, aged>>
      /\ DOMAIN devices' = DOMAIN devices \cup DOMAIN set
      /\ \A d \in DOMAIN devices' :
            devices'[d] = IF d \in tx[s].new THEN set[d].row
                          ELSE IF d \in DOMAIN set THEN Updated(devices[d], set[d].columns, set[d].row)
                          ELSE devices[d]
      /\ DOMAIN set \cap DOMAIN devices = DOMAIN set \ tx[s].new
  BY DEF CommitDevices, Ready, DeviceOps
<1>2. Touches(s, DeviceOps) /\ tx'[s].op = "none"
  BY <1>1, Closing, IdleOp DEF CommitDevices, SessionsInv
<1>3. /\ DOMAIN set \subseteq Device /\ tx[s].new \subseteq DOMAIN set
      /\ \A d \in DOMAIN set : set[d].row.group \in Group \cup {None}
  BY <1>1 DEF ListedInv, ListedHeld, DeviceRows
<1> HIDE DEF set
<1>4. ASSUME NEW d \in DOMAIN devices'
      PROVE  d \in Device /\ devices'[d].group \in Group \cup {None}
  <2>1. CASE d \in tx[s].new
    BY <1>1, <1>3, <2>1
  <2>2. CASE d \notin tx[s].new /\ d \in DOMAIN set
    <3>1. d \in DOMAIN devices /\ devices'[d] = Updated(devices[d], set[d].columns, set[d].row)
      BY <1>1, <2>2
    <3>2. DOMAIN devices[d] = DeviceColumns /\ "group" \in DeviceColumns
      BY <3>1 DEF DeviceRows, DeviceColumns
    <3>3. devices'[d].group \in {set[d].row.group, devices[d].group}
      BY <3>1, <3>2 DEF Updated
    <3> QED
      BY <1>3, <2>2, <3>1, <3>3 DEF ListedInv, ListedRows
  <2>3. CASE d \notin tx[s].new /\ d \notin DOMAIN set
    BY <1>1, <2>3 DEF ListedInv, ListedRows
  <2> QED
    BY <2>1, <2>2, <2>3
<1>5. ListedRows'
  BY <1>1, <1>4 DEF ListedInv, ListedRows
<1>6. \A t \in Session : ListedHeld(t)'
  BY <1>2, ListedOpsOf DEF ListedInv, ListedHeld, Touches
<1> QED
  BY <1>5, <1>6 DEF ListedInv

LEMMA ListedDeviceStep ==
    ASSUME SessionsInv, DeviceRows, GroupIds, ListedInv, NEW s \in Session, DeviceStep(s)
    PROVE  ListedInv'
<1>1. Touches(s, DeviceOps)
  BY DeviceFrame
<1>2. ASSUME UNCHANGED inventoryVars, tx'[s].op \in DeviceOps, DOMAIN tx'[s].set \subseteq Device,
             \A d \in DOMAIN tx'[s].set : tx'[s].set[d].row.group \in Group \cup {None}
      PROVE  ListedInv'
  <2>1. ListedHeld(s)'
    BY <1>2, ListedOpsOf DEF ListedHeld
  <2> QED
    BY <1>1, <1>2, <2>1, ListedRequest
<1>3. ASSUME NEW d \in Device, NEW row \in Forms, SaveDevice(s, d, row)
      PROVE  ListedInv'
  <2>1. /\ tx'[s].set = Only(d, Written(d, row)) /\ tx'[s].op = "saveDevices"
        /\ UNCHANGED inventoryVars
    BY <1>3, Opened DEF SaveDevice, Opens, SessionsInv
  <2>2. row.group \in Group \cup {None}
    BY InventoryAssumption
  <2>3. DOMAIN tx'[s].set = {d} /\ tx'[s].set[d].row = row
    BY <2>1 DEF Only, Written
  <2> QED
    BY <1>2, <2>1, <2>2, <2>3, ListedOpsOf
<1>4. ASSUME NEW ds, NEW column \in {"group", "credential"}, NEW row \in Forms, BulkUpdate(s, ds, column, row)
      PROVE  ListedInv'
  <2> DEFINE set == [d \in ds \cap DOMAIN devices |->
                       Written(d, [devices[d] EXCEPT ![column] = row[column]])]
             request == [op |-> "saveDevices", stage |-> "open", new |-> {}, set |-> set]
  <2>a. OpensTaking(s, request, {}) /\ UNCHANGED inventoryVars
    BY <1>4 DEF BulkUpdate, Opens
  <2>b. request.set = set /\ request.op = "saveDevices"
    OBVIOUS
  <2>c. \A d \in DOMAIN set : /\ d \in DOMAIN devices
                              /\ set[d].row = [devices[d] EXCEPT ![column] = row[column]]
    BY DEF Written
  <2> HIDE DEF set, request
  <2>1. /\ tx'[s].set = set /\ tx'[s].op = "saveDevices"
    BY <2>a, <2>b, Opened DEF SessionsInv
  <2>2. ASSUME NEW d \in DOMAIN set
        PROVE  d \in Device /\ set[d].row.group \in Group \cup {None}
    <3>1. d \in DOMAIN devices /\ set[d].row = [devices[d] EXCEPT ![column] = row[column]]
      BY <2>c
    <3>2. DOMAIN devices[d] = DeviceColumns /\ "group" \in DeviceColumns
      BY <3>1 DEF DeviceRows, DeviceColumns
    <3>3. devices[d].group \in Group \cup {None} /\ row.group \in Group \cup {None} /\ d \in Device
      BY <3>1, InventoryAssumption DEF ListedInv, ListedRows
    <3>4. CASE column = "group"
      BY <3>1, <3>2, <3>3, <3>4
    <3>5. CASE column = "credential"
      BY <3>1, <3>2, <3>3, <3>5
    <3> QED
      BY <3>3, <3>4, <3>5
  <2> QED
    BY <1>2, <2>a, <2>1, <2>2, ListedOpsOf
<1>5. ASSUME NEW file \in Files, Import(s, file)
      PROVE  ListedInv'
  <2> DEFINE rows == IF file.mode = "insert" THEN file.devices \ DOMAIN devices ELSE file.devices
             row == [group |-> file.group, credential |-> file.credential]
  <2>1. /\ tx'[s].set = [d \in rows |-> Written(d, row)] /\ tx'[s].op = "import"
        /\ UNCHANGED inventoryVars /\ file.group \in {None} \cup DOMAIN tree \cup (Group \ ids)
    BY <1>5, Opened DEF Import, SessionsInv
  <2>2. row.group \in Group \cup {None}
    BY <2>1 DEF GroupIds
  <2>3. rows \subseteq Device
    BY InventoryAssumption
  <2>4. \A d \in DOMAIN tx'[s].set : d \in rows /\ tx'[s].set[d].row = row
    BY <2>1 DEF Written
  <2> HIDE DEF rows, row
  <2> QED
    BY <1>2, <2>1, <2>2, <2>3, <2>4, ListedOpsOf
<1> QED
  BY <1>3, <1>4, <1>5, ListedDevices DEF DeviceStep

LEMMA ListedPlan ==
    ASSUME SessionsInv, ListedInv, NEW s \in Session, NEW x, NEW ds, NEW alone, Plans(s, x, ds, alone),
           ds \subseteq DOMAIN devices
    PROVE  ListedInv'
<1>1. /\ tx'[s].op = "plan" /\ tx'[s].devices = ds
      /\ UNCHANGED inventoryVars
  BY Opened DEF Plans, Opens, SessionsInv
<1>2. Touches(s, BackupOps)
  BY Starting DEF SessionsInv, Plans, Opens, BackupOps
<1>3. ListedHeld(s)'
  BY <1>1, ListedOpsOf DEF ListedHeld, ListedInv, ListedRows
<1> QED
  BY <1>1, <1>2, <1>3, ListedRequest

LEMMA ListedBackups ==
    ASSUME SessionsInv, ListedInv, NEW s \in Session, BackupStep(s)
    PROVE  ListedInv'
<1>1. Touches(s, BackupOps) /\ UNCHANGED <<devices, aged>>
  BY BackupFrame
<1>2. ASSUME NEW x, NEW ds, NEW alone, Plans(s, x, ds, alone), ds \subseteq DOMAIN devices
      PROVE  ListedInv'
  BY <1>2, ListedPlan
<1>3. ASSUME NEW x, Plan(s, x)
      PROVE  ListedInv'
  <2>1. Resolve(schedules[x].targets) \subseteq DOMAIN devices
    BY DEF Resolve
  <2> QED
    BY <1>2, <1>3, <2>1 DEF Plan
<1>4. ASSUME NEW ds, PlanBulk(s, ds)
      PROVE  ListedInv'
  BY <1>2, <1>4 DEF PlanBulk
<1>5. ASSUME NEW d, PlanSingle(s, d)
      PROVE  ListedInv'
  BY <1>2, <1>5 DEF PlanSingle
<1>6. ASSUME NEW i, NEW selected, Retry(s, i, selected)
      PROVE  ListedInv'
  BY <1>2, <1>6 DEF Retry
<1>7. ASSUME NEW op \in {"cleanup", "deleteRecords"}, NEW r, Opens(s, r), r.op = op, UNCHANGED inventoryVars
      PROVE  ListedInv'
  <2>1. Touches(s, {op})
    BY <1>7, Starting DEF Opens, SessionsInv
  <2>2. Quiet(ListedOps)
    BY <2>1, OthersQuiet, ListedOpsOf
  <2> QED
    BY <1>7, <2>2, ListedQuiet DEF inventoryVars
<1>8. CASE Cleanup(s)
  BY <1>7, <1>8 DEF Cleanup
<1>9. ASSUME NEW rs, DeleteRecords(s, rs)
      PROVE  ListedInv'
  BY <1>7, <1>9 DEF DeleteRecords
<1>10. CASE CommitRecords(s)
  <2>1. Touches(s, {"cleanup", "deleteRecords"})
    BY <1>10, Closing DEF CommitRecords, Ready, SessionsInv
  <2>2. Quiet(ListedOps)
    BY <2>1, OthersQuiet, ListedOpsOf
  <2>3. records' \subseteq records
    BY <1>10 DEF CommitRecords
  <2> QED
    BY <1>1, <2>2, <2>3, ListedQuiet
<1>11. CASE CommitRun(s)
  <2> DEFINE new == [run : {tx[s].run}, device : tx[s].devices, status : {"active"}, at : {aged}]
  <2>1. records' = records \cup new /\ tx[s].op = "plan"
    BY <1>11 DEF CommitRun, Ready
  <2>2. \A r \in new : r.device \in tx[s].devices /\ r.status = "active" /\ r.at = aged
    OBVIOUS
  <2>3. tx[s].devices \subseteq Device /\ aged \in 0..aged
    BY <2>1 DEF ListedInv, ListedHeld, ListedRows
  <2> HIDE DEF new
  <2>4. \A r \in records' : r.device \in Device /\ r.status \in Statuses /\ r.at \in 0..aged
    BY <2>1, <2>2, <2>3 DEF ListedInv, ListedRows, Statuses
  <2>5. ListedRows'
    BY <1>1, <2>4 DEF ListedInv, ListedRows
  <2>6. Touches(s, {"plan"}) /\ tx'[s].op = "none"
    BY <1>11, Closing, IdleOp DEF CommitRun, Ready, SessionsInv
  <2>7. \A t \in Session : ListedHeld(t)'
    BY <2>6, ListedOpsOf DEF ListedInv, ListedHeld, Touches
  <2> QED
    BY <2>5, <2>7 DEF ListedInv
<1> QED
  BY <1>3, <1>4, <1>5, <1>6, <1>8, <1>9, <1>10, <1>11 DEF BackupStep, BackupRequest

LEMMA ListedRun ==
    ASSUME ListedInv, RecordRows, RunStep
    PROVE  ListedInv'
<1>1. tx' = tx /\ devices' = devices
  BY RunFrame
<1>2. \A t \in Session : ListedHeld(t)'
  BY <1>1 DEF ListedInv, ListedHeld
<1>3. CASE Age
  <2>1. aged' = aged + 1 /\ records' = records
    BY <1>3 DEF Age
  <2>2. 0..aged \subseteq 0..aged + 1 /\ aged + 1 \in Nat
    BY DEF ListedInv, ListedRows
  <2>3. ListedRows'
    BY <1>1, <2>1, <2>2 DEF ListedInv, ListedRows
  <2> QED
    BY <1>2, <2>3 DEF ListedInv
<1>4. ASSUME NEW i, NEW good, EndRun(i, good)
      PROVE  ListedInv'
  <2>1. aged' = aged
    BY <1>4 DEF EndRun
  <2>2. ASSUME NEW q \in records'
        PROVE  q.device \in Device /\ q.status \in Statuses /\ q.at \in 0..aged
    <3>1. PICK r \in records : q = IF r.run # i THEN r
                     ELSE [r EXCEPT !.status = IF r.device \in good THEN "succeeded" ELSE "failed"]
      BY <1>4 DEF EndRun
    <3>2. DOMAIN r = {"run", "device", "status", "at"}
      BY DEF RecordRows
    <3>3. q.device = r.device /\ q.at = r.at /\ q.status \in {r.status, "succeeded", "failed"}
      BY <3>1, <3>2
    <3> QED
      BY <3>3 DEF ListedInv, ListedRows, Statuses
  <2>3. ListedRows'
    BY <1>1, <2>1, <2>2 DEF ListedInv, ListedRows
  <2> QED
    BY <1>2, <2>3 DEF ListedInv
<1> QED
  BY <1>3, <1>4 DEF RunStep, InventoryElsewhere

LEMMA ListedKept ==
    ASSUME SessionsInv, DeviceRows, GroupIds, RecordRows, [Next]_vars, ListedInv
    PROVE  ListedInv'
<1>1. ASSUME Quiet(ListedOps), UNCHANGED <<devices, records, aged>>
      PROVE  ListedInv'
  BY <1>1, ListedQuiet
<1>2. ASSUME NEW s \in Session, NEW ops, Touches(s, ops), ops \cap ListedOps = {},
             UNCHANGED <<devices, records, aged>>
      PROVE  ListedInv'
  BY <1>1, <1>2, OthersQuiet, ListedOpsOf
<1>3. ASSUME NEW s \in Session, RemovalStep(s)
      PROVE  ListedInv'
  <2>1. Touches(s, {"deleteDevices"}) /\ aged' = aged
    BY <1>3, RemovalFrame
  <2>2. Quiet(ListedOps)
    BY <2>1, OthersQuiet, ListedOpsOf
  <2>3. CASE CommitDeleteDevices(s)
    <3>1. /\ DOMAIN devices' \subseteq DOMAIN devices /\ \A d \in DOMAIN devices' : devices'[d] = devices[d]
          /\ records' \subseteq records
      BY <2>3 DEF CommitDeleteDevices, Restrict
    <3> QED
      BY <2>1, <2>2, <3>1, ListedQuiet
  <2>4. ASSUME NEW ds, DeleteDevices(s, ds)
        PROVE  ListedInv'
    BY <1>1, <2>2, <2>4 DEF DeleteDevices, inventoryVars
  <2> QED
    BY <1>3, <2>3, <2>4 DEF RemovalStep
<1>4. CASE UNCHANGED vars \/ UserStep \/ Restart
  <2>1. Quiet(ListedOps) /\ UNCHANGED <<devices, records, aged>>
    BY <1>4, UserFrame, RestartFrame, ListedOpsOf DEF Quiet, vars, requestVars, inventoryVars
  <2> QED
    BY <1>1, <2>1
<1>5. ASSUME NEW s \in Session, RollbackStep(s)
      PROVE  ListedInv'
  <2>1. Quiet(ListedOps) /\ UNCHANGED <<devices, records, aged>>
    BY <1>5, RollbackFrame, IdleOp, ListedOpsOf DEF Quiet, Touches, inventoryVars
  <2> QED
    BY <1>1, <2>1
<1>6. ASSUME NEW s \in Session, GroupStep(s) \/ CredentialStep(s) \/ ScheduleStep(s) \/ RoleStep(s) \/ RoutingStep(s)
      PROVE  ListedInv'
  <2>1. CASE GroupStep(s)
    BY <1>2, <2>1, GroupFrame, ListedOpsOf DEF GroupOps
  <2>2. CASE CredentialStep(s)
    BY <1>2, <2>2, CredentialFrame, ListedOpsOf
  <2>3. CASE ScheduleStep(s)
    BY <1>2, <2>3, ScheduleFrame, ListedOpsOf DEF ScheduleOps
  <2>4. CASE RoleStep(s)
    BY <1>2, <2>4, RoleFrame, ListedOpsOf DEF RoleOps, inventoryVars
  <2>5. CASE RoutingStep(s)
    BY <1>2, <2>5, RoutingFrame, ListedOpsOf DEF RoutingOps, inventoryVars
  <2> QED
    BY <1>6, <2>1, <2>2, <2>3, <2>4, <2>5
<1> QED
  BY <1>3, <1>4, <1>5, <1>6, StepKinds, ListedDeviceStep, ListedBackups, ListedRun

LEMMA ListedStarts ==
    ASSUME Init
    PROVE  ListedInv
<1>1. PICK db \in Start : devices = db.devices
  BY DEF Init
<1>2. /\ DOMAIN devices \subseteq Device
      /\ \A d \in DOMAIN devices : devices[d] \in [group : Group \cup {None}, credential : Credential]
  BY <1>1, AdministrationAssumption
<1>3. aged = 0
  BY DEF Init
<1>4. ListedRows
  BY <1>2, <1>3, StartsIdle DEF ListedRows
<1>5. \A t \in Session : ListedHeld(t)
  BY StartsIdle, ListedOpsOf DEF ListedHeld
<1> QED
  BY <1>4, <1>5 DEF ListedInv

-----------------------------------------------------------------------------
(* The tables and their orders. *)

\* What the pages take for granted of the rows.
RowsSound ==
    /\ ListedRows /\ NumbersInv
    /\ \A r, q \in records : r.run = q.run /\ r.device = q.device => r = q

LEMMA RunNumbers ==
    ASSUME RowsSound
    PROVE  \E n \in Nat : Numbers \subseteq 1..n
<1>1. "backups" \in Parts
  BY DEF Parts
<1> QED
  BY <1>1 DEF RowsSound, NumbersInv

\* There are finitely many records, and devices.
LEMMA FiniteRows ==
    ASSUME RowsSound
    PROVE  IsFiniteSet(records) /\ IsFiniteSet(DOMAIN devices)
<1>1. PICK n \in Nat : Numbers \subseteq 1..n
  BY RunNumbers
<1> DEFINE T == (1..n) \X Device
           f == [r \in records |-> <<r.run, r.device>>]
<1>2. IsFiniteSet(T)
  <2>1. IsFiniteSet(1..n)
    BY FS_Interval
  <2> QED
    BY <2>1, FS_Product, RowsAssumption
<1>3. f \in [records -> T]
  BY <1>1 DEF RowsSound, ListedRows, Numbers
<1>4. f \in Injection(records, T)
  BY <1>3 DEF RowsSound, Injection, IsInjective
<1> HIDE DEF f, T
<1>5. IsFiniteSet(records)
  BY <1>2, <1>4, FS_Injection
<1>6. IsFiniteSet(DOMAIN devices)
  BY FS_Subset, RowsAssumption DEF RowsSound, ListedRows
<1> QED
  BY <1>5, <1>6

LEMMA IdsOfDevices ==
    /\ \A d \in Device : IdOf[d] \in Nat
    /\ \A d, e \in Device : IdOf[d] = IdOf[e] => d = e
<1> DEFINE T == 1..Cardinality(Device)
<1>1. Cardinality(Device) \in Nat /\ ExistsBijection(T, Device)
  BY FS_CardinalityType, RowsAssumption
<1>2. PICK b \in Bijection(T, Device) : TRUE
  BY <1>1 DEF ExistsBijection
<1> DEFINE f == [d \in Device |-> CHOOSE i \in T : b[i] = d]
<1>3. \A d \in Device : f[d] \in T /\ b[f[d]] = d
  BY <1>2 DEF Bijection, Surjection
<1>4. f \in [Device -> T]
  BY <1>3
<1>5. \A d, e \in Device : f[d] = f[e] => d = e
  BY <1>3
<1> HIDE DEF f
<1>6. DOMAIN f = Device
  BY <1>4
<1>7. IsInjective(f)
  BY <1>5, <1>6 DEF IsInjective
<1>8. IdOf \in [Device -> T] /\ IsInjective(IdOf)
  BY <1>4, <1>7, Zenon DEF IdOf
<1>9. DOMAIN IdOf = Device
  BY <1>8
<1>10. \A d, e \in Device : IdOf[d] = IdOf[e] => d = e
  BY <1>8, <1>9 DEF IsInjective
<1>11. \A d \in Device : IdOf[d] \in Nat
  BY <1>1, <1>8
<1> QED
  BY <1>10, <1>11

\* The orders of the pages, as relations.
NewerPairs(S) == {p \in S \X S : NewerFirst(p[1], p[2])}
ByIdPairs(S) == {p \in S \X S : ById(p[1], p[2])}

LEMMA DevicesOrdered ==
    ASSUME NEW S, S \subseteq Device
    PROVE  Strict(S, ByIdPairs(S))
<1>1. \A d \in S : IdOf[d] \in Nat
  BY IdsOfDevices
<1>2. \A d, e \in S : <<d, e>> \in ByIdPairs(S) <=> IdOf[d] < IdOf[e]
  BY DEF ByIdPairs, ById
<1>3. \A d, e \in S : d # e => IdOf[d] # IdOf[e]
  BY IdsOfDevices
<1> QED
  BY <1>1, <1>2, <1>3 DEF Strict

LEMMA NewerApart ==
    ASSUME RowsSound
    PROVE  /\ \A r \in records : r.run \in Nat /\ IdOf[r.device] \in Nat
           /\ \A r, q \in records : r # q => r.run # q.run \/ IdOf[r.device] # IdOf[q.device]
<1>1. PICK n \in Nat : Numbers \subseteq 1..n
  BY RunNumbers
<1>2. \A r \in records : r.run \in Nat /\ r.device \in Device
  <2>1. \A r \in records : r.run \in Numbers
    BY DEF Numbers
  <2>2. \A i \in Numbers : i \in Nat
    BY <1>1
  <2> QED
    BY <2>1, <2>2 DEF RowsSound, ListedRows
<1> QED
  BY <1>2, IdsOfDevices DEF RowsSound

LEMMA RecordsOrdered ==
    ASSUME RowsSound, NEW S, S \subseteq records
    PROVE  Strict(S, NewerPairs(S))
<1>1. \A r \in S : r.run \in Nat /\ IdOf[r.device] \in Nat
  BY NewerApart
<1>2. \A r, q \in S : r # q => r.run # q.run \/ IdOf[r.device] # IdOf[q.device]
  BY NewerApart
<1>3. \A q, r \in S : <<q, r>> \in NewerPairs(S)
         <=> q.run > r.run \/ (q.run = r.run /\ IdOf[q.device] > IdOf[r.device])
  BY DEF NewerPairs, NewerFirst
<1>4. \A x \in S : <<x, x>> \notin NewerPairs(S)
  BY <1>1, <1>3
<1>5. \A x, y \in S : x # y => <<x, y>> \in NewerPairs(S) \/ <<y, x>> \in NewerPairs(S)
  BY <1>1, <1>2, <1>3
<1>6. ASSUME NEW x \in S, NEW y \in S, NEW z \in S, <<x, y>> \in NewerPairs(S), <<y, z>> \in NewerPairs(S)
      PROVE  <<x, z>> \in NewerPairs(S)
  BY <1>1, <1>3, <1>6
<1> QED
  BY <1>4, <1>5, <1>6 DEF Strict

-----------------------------------------------------------------------------
(* Pages. *)

\* The window of a page is the page of the order.
LEMMA DeviceWindow ==
    ASSUME NEW S, NEW page, NEW limit
    PROVE  Window(S, ById, page, limit) = PageOf(S, ByIdPairs(S), page, limit)
<1>1. \A x \in S : Ahead(S, ByIdPairs(S), x) = {y \in S : ById(y, x)}
  BY DEF Ahead, ByIdPairs
<1>2. \A x \in S : Rank(S, ByIdPairs(S))[x] = Cardinality({y \in S : ById(y, x)})
  BY <1>1 DEF Rank
<1> QED
  BY <1>2 DEF Window, PageOf, Offsets

LEMMA RecordWindow ==
    ASSUME NEW S, NEW page, NEW limit
    PROVE  Window(S, NewerFirst, page, limit) = PageOf(S, NewerPairs(S), page, limit)
<1>1. \A x \in S : Ahead(S, NewerPairs(S), x) = {y \in S : NewerFirst(y, x)}
  BY DEF Ahead, NewerPairs
<1>2. \A x \in S : Rank(S, NewerPairs(S))[x] = Cardinality({y \in S : NewerFirst(y, x)})
  BY <1>1 DEF Rank
<1> QED
  BY <1>2 DEF Window, PageOf, Offsets

\* What the pages of a list show.
Shows(S, total, limit, shown) ==
    LET last == TotalPages(total, limit) IN
    /\ UNION Range(shown) = S
    /\ SumOf([page \in 1..last |-> Cardinality(shown[page])]) = Cardinality(S)
    /\ S # {} => shown[last] # {}

LEMMA DevicePages ==
    ASSUME RowsSound, NEW S, S \subseteq DOMAIN devices, NEW limit \in PageSizes,
           NEW last, last = TotalPages(Cardinality(S), limit)
    PROVE  Shows(S, Cardinality(S), limit, [page \in 1..last |-> Window(S, ById, page, limit)])
<1>1. IsFiniteSet(S) /\ Strict(S, ByIdPairs(S))
  BY FiniteRows, FS_Subset, DevicesOrdered DEF RowsSound, ListedRows
<1>2. [page \in 1..last |-> Window(S, ById, page, limit)] = Pages(S, ByIdPairs(S), last, limit)
  BY DeviceWindow DEF Pages
<1>3. PICK R, shown : R = ByIdPairs(S) /\ shown = Pages(S, ByIdPairs(S), last, limit)
  OBVIOUS
<1>4. Strict(S, R) /\ shown = Pages(S, R, last, limit)
  BY <1>1, <1>3
<1>5. /\ UNION Range(shown) = S
      /\ SumOf(Sizes(shown, last)) = Cardinality(S)
      /\ S # {} => shown[last] # {}
  BY ONLY <1>1, <1>4, limit \in PageSizes, last = TotalPages(Cardinality(S), limit), PagesCut
<1>6. Shows(S, Cardinality(S), limit, shown)
  BY <1>5 DEF Shows, Sizes
<1> QED
  BY <1>2, <1>3, <1>6

LEMMA RecordPages ==
    ASSUME RowsSound, NEW S, S \subseteq records, NEW limit \in PageSizes,
           NEW last, last = TotalPages(Cardinality(S), limit)
    PROVE  Shows(S, Cardinality(S), limit, [page \in 1..last |-> Window(S, NewerFirst, page, limit)])
<1>1. IsFiniteSet(S) /\ Strict(S, NewerPairs(S))
  BY FiniteRows, FS_Subset, RecordsOrdered
<1>2. [page \in 1..last |-> Window(S, NewerFirst, page, limit)] = Pages(S, NewerPairs(S), last, limit)
  BY RecordWindow DEF Pages
<1>3. PICK R, shown : R = NewerPairs(S) /\ shown = Pages(S, NewerPairs(S), last, limit)
  OBVIOUS
<1>4. Strict(S, R) /\ shown = Pages(S, R, last, limit)
  BY <1>1, <1>3
<1>5. /\ UNION Range(shown) = S
      /\ SumOf(Sizes(shown, last)) = Cardinality(S)
      /\ S # {} => shown[last] # {}
  BY ONLY <1>1, <1>4, limit \in PageSizes, last = TotalPages(Cardinality(S), limit), PagesCut
<1>6. Shows(S, Cardinality(S), limit, shown)
  BY <1>5 DEF Shows, Sizes
<1> QED
  BY <1>2, <1>3, <1>6

-----------------------------------------------------------------------------
(* What a user may see. *)

LEMMA AccessOf ==
    ASSUME GroupIds, NEW allowed \in Accesses
    PROVE  allowed = Unlimited \/ (allowed \subseteq Group \cup {Ungrouped} /\ \E list : allowed = Expand(tree, list \cap Group) \cup (list \cap {Ungrouped}))
<1>1. PICK list : allowed = AllowedGroups(list)
  BY DEF Accesses
<1>2. Expand(tree, list \cap Group) \subseteq Group
  BY DEF Expand, Below, GroupIds
<1> QED
  BY <1>1, <1>2 DEF AllowedGroups

\* The condition of the queries lets pass what the check of each device does.
LEMMA ConditionIsCheck ==
    ASSUME ListedRows, GroupIds, NEW allowed \in Accesses
    PROVE  AllowedCondition(allowed) = {d \in DOMAIN devices : MayAccess(d, allowed)}
<1>1. CASE allowed = Unlimited
  BY <1>1 DEF AllowedCondition, MayAccess
<1>2. CASE allowed # Unlimited
  <2>1. allowed \subseteq Group \cup {Ungrouped}
    BY <1>2, AccessOf
  <2>2. ASSUME NEW d \in DOMAIN devices
        PROVE  MayAccess(d, allowed) <=> \/ devices[d].group \in allowed \cap Group
                                         \/ Ungrouped \in allowed /\ devices[d].group = None
    <3>1. devices[d].group \in Group \cup {None} /\ None \notin Group
      BY GroupAssumption DEF ListedRows
    <3> QED
      BY <1>2, <2>1, <3>1 DEF MayAccess
  <2> QED
    BY <1>2, <2>2 DEF AllowedCondition
<1> QED
  BY <1>1, <1>2

LEMMA ResolveGroup ==
    ASSUME ListedRows, GroupIds, NEW g \in DOMAIN tree
    PROVE  Resolve({g}) = {d \in DOMAIN devices : devices[d].group \in Expand(tree, {g})}
<1>1. g \in Group /\ {g} \cap Group = {g} /\ g # All /\ g \notin Device
  BY TargetsAssumption DEF GroupIds
<1>2. All \notin {g} /\ \A d \in DOMAIN devices : d \notin {g}
  BY <1>1 DEF ListedRows
<1> QED
  BY <1>1, <1>2 DEF Resolve

\* The devices of a page: the ones that may be seen, in the group that is asked for.
LEMMA DevicesShown ==
    ASSUME ListedRows, GroupIds, NEW allowed \in Accesses, NEW g \in DOMAIN tree \cup {None}, NEW visible,
           visible = {d \in DOMAIN devices : MayAccess(d, allowed)}
    PROVE  DevicesOf(allowed, g) = IF g = None THEN visible ELSE visible \cap Resolve({g})
<1>1. AllowedCondition(allowed) = visible
  BY ConditionIsCheck
<1>2. CASE g = None
  BY <1>1, <1>2 DEF DevicesOf
<1>3. CASE g # None
  <2>1. DevicesOf(allowed, g) = {d \in visible : devices[d].group \in Expand(tree, {g})}
    BY <1>1, <1>3 DEF DevicesOf
  <2>2. Resolve({g}) = {d \in DOMAIN devices : devices[d].group \in Expand(tree, {g})}
    BY <1>3, ResolveGroup
  <2> QED
    BY <1>3, <2>1, <2>2
<1> QED
  BY <1>2, <1>3

\* The configurations of a page: the successes of the devices that may be seen, or
\* the latest of each.
LEMMA ConfigsShown ==
    ASSUME RowsSound, GroupIds, NEW allowed \in Accesses, NEW latestOnly \in BOOLEAN, NEW visible,
           visible = {d \in DOMAIN devices : MayAccess(d, allowed)}
    PROVE  ConfigsOf(allowed, latestOnly) = IF latestOnly THEN UNION {Kept(d) : d \in visible}
                                                          ELSE UNION {Succeeded(d) : d \in visible}
<1>1. AllowedCondition(allowed) = visible
  BY ConditionIsCheck DEF RowsSound
<1> DEFINE found == {r \in records : r.status = "succeeded"}
<1>2. \A r, q \in found : q.device = r.device => (~NewerFirst(q, r) <=> q.run <= r.run)
  BY NewerApart DEF NewerFirst
<1>3. ASSUME NEW r
      PROVE  /\ r \in UNION {Succeeded(d) : d \in visible} <=> r \in found /\ r.device \in visible
             /\ r \in UNION {Kept(d) : d \in visible} <=>
                   r \in found /\ r.device \in visible /\ \A q \in found : q.device = r.device => q.run <= r.run
  BY DEF Kept, Succeeded
<1>4. ConfigsOf(allowed, latestOnly)
        = {r \in found : r.device \in visible
                         /\ (latestOnly => \A q \in found : q.device = r.device => ~NewerFirst(q, r))}
  BY <1>1 DEF ConfigsOf
<1> HIDE DEF found
<1>5. CASE latestOnly
  BY <1>2, <1>3, <1>4, <1>5
<1>6. CASE ~latestOnly
  BY <1>3, <1>4, <1>6
<1> QED
  BY <1>5, <1>6

\* Each page and its count, and the query and the check of a user's access, agree.
LEMMA PagesStayWhole ==
    ASSUME RowsSound, GroupIds
    PROVE  PagesAgree
<1>1. ListedRows
  BY DEF RowsSound
<1>2. ASSUME NEW d \in DOMAIN devices, NEW limit \in PageSizes
      PROVE  LET total == BackupPageRows(Unlimited)[d]
                 last == TotalPages(total, limit) IN
             Shows({r \in records : r.device = d}, total, limit,
                   [page \in 1..last |-> DeviceBackups(d, page, limit)])
  <2>1. PICK S : S = {r \in records : r.device = d}
    OBVIOUS
  <2>2. BackupPageRows(Unlimited)[d] = Cardinality(S)
    BY <2>1 DEF BackupPageRows, MayAccess
  <2>3. PICK last : last = TotalPages(Cardinality(S), limit)
    OBVIOUS
  <2>4. Shows(S, Cardinality(S), limit, [page \in 1..last |-> Window(S, NewerFirst, page, limit)])
    BY <2>1, <2>3, RecordPages
  <2>5. [page \in 1..last |-> DeviceBackups(d, page, limit)] = [page \in 1..last |-> Window(S, NewerFirst, page, limit)]
    BY <2>1 DEF DeviceBackups
  <2> QED
    BY <2>1, <2>2, <2>3, <2>4, <2>5
<1>3. ASSUME NEW allowed \in Accesses, NEW g \in DOMAIN tree \cup {None}, NEW limit \in PageSizes,
             NEW named, named = DevicesOf(allowed, g)
      PROVE  LET total == CountDevices(allowed, g)
                 last == TotalPages(total, limit) IN
             Shows(named, total, limit, [page \in 1..last |-> SearchDevices(allowed, g, page, limit)])
  <2>1. named \subseteq DOMAIN devices /\ CountDevices(allowed, g) = Cardinality(named)
    BY <1>3 DEF DevicesOf, AllowedCondition, CountDevices
  <2>2. PICK last : last = TotalPages(Cardinality(named), limit)
    OBVIOUS
  <2>3. Shows(named, Cardinality(named), limit, [page \in 1..last |-> Window(named, ById, page, limit)])
    BY <2>1, <2>2, DevicePages
  <2>4. [page \in 1..last |-> SearchDevices(allowed, g, page, limit)] = [page \in 1..last |-> Window(named, ById, page, limit)]
    BY <1>3 DEF SearchDevices
  <2> QED
    BY <2>1, <2>2, <2>3, <2>4
<1>4. ASSUME NEW allowed \in Accesses, NEW latestOnly \in BOOLEAN, NEW limit \in PageSizes,
             NEW configs, configs = ConfigsOf(allowed, latestOnly)
      PROVE  LET total == CountConfigs(allowed, latestOnly)
                 last == TotalPages(total, limit) IN
             Shows(configs, total, limit, [page \in 1..last |-> SearchConfig(allowed, latestOnly, page, limit)])
  <2>1. configs \subseteq records /\ CountConfigs(allowed, latestOnly) = Cardinality(configs)
    BY <1>4 DEF ConfigsOf, CountConfigs
  <2>2. PICK last : last = TotalPages(Cardinality(configs), limit)
    OBVIOUS
  <2>3. Shows(configs, Cardinality(configs), limit, [page \in 1..last |-> Window(configs, NewerFirst, page, limit)])
    BY <2>1, <2>2, RecordPages
  <2>4. [page \in 1..last |-> SearchConfig(allowed, latestOnly, page, limit)]
          = [page \in 1..last |-> Window(configs, NewerFirst, page, limit)]
    BY <1>4 DEF SearchConfig
  <2> QED
    BY <2>1, <2>2, <2>3, <2>4
<1>5. ASSUME NEW d \in DOMAIN devices
      PROVE  LET Page(page, limit) == DeviceBackups(d, page, limit) IN
             Paged({r \in records : r.device = d}, BackupPageRows(Unlimited)[d], Page)
  BY <1>2 DEF Paged, Shows
<1>6. ASSUME NEW allowed \in Accesses, NEW visible, visible = {d \in DOMAIN devices : MayAccess(d, allowed)}
      PROVE  /\ \A g \in DOMAIN tree \cup {None} :
                  LET named == IF g = None THEN visible ELSE visible \cap Resolve({g})
                      Page(page, limit) == SearchDevices(allowed, g, page, limit) IN
                  /\ Paged(named, CountDevices(allowed, g), Page)
                  /\ ReachabilityTargets({}, allowed, g) = named
             /\ \A latestOnly \in BOOLEAN :
                  LET Page(page, limit) == SearchConfig(allowed, latestOnly, page, limit) IN
                  Paged(IF latestOnly THEN UNION {Kept(d) : d \in visible}
                                      ELSE UNION {Succeeded(d) : d \in visible},
                        CountConfigs(allowed, latestOnly), Page)
             /\ DOMAIN BackupPageRows(allowed) = visible
  <2>1. ASSUME NEW g \in DOMAIN tree \cup {None}
        PROVE  LET named == IF g = None THEN visible ELSE visible \cap Resolve({g})
                   Page(page, limit) == SearchDevices(allowed, g, page, limit) IN
               /\ Paged(named, CountDevices(allowed, g), Page)
               /\ ReachabilityTargets({}, allowed, g) = named
    <3>1. PICK named : named = IF g = None THEN visible ELSE visible \cap Resolve({g})
      OBVIOUS
    <3>2. named = DevicesOf(allowed, g)
      BY <1>1, <1>6, <3>1, DevicesShown
    <3>3. LET Page(page, limit) == SearchDevices(allowed, g, page, limit) IN
          Paged(named, CountDevices(allowed, g), Page)
      <4>1. \A limit \in PageSizes :
               Shows(named, CountDevices(allowed, g), limit,
                     [page \in 1..TotalPages(CountDevices(allowed, g), limit) |-> SearchDevices(allowed, g, page, limit)])
        BY <1>3, <3>2
      <4> QED
        BY <4>1 DEF Paged, Shows
    <3>4. ReachabilityTargets({}, allowed, g) = named
      <4>1. \A d \in named : MayAccess(d, allowed)
        BY <1>6, <3>1
      <4> QED
        BY <3>2, <4>1 DEF ReachabilityTargets
    <3> QED
      BY <3>1, <3>3, <3>4
  <2>2. ASSUME NEW latestOnly \in BOOLEAN
        PROVE  LET Page(page, limit) == SearchConfig(allowed, latestOnly, page, limit) IN
               Paged(IF latestOnly THEN UNION {Kept(d) : d \in visible}
                                   ELSE UNION {Succeeded(d) : d \in visible},
                     CountConfigs(allowed, latestOnly), Page)
    <3>1. PICK configs : configs = IF latestOnly THEN UNION {Kept(d) : d \in visible}
                                   ELSE UNION {Succeeded(d) : d \in visible}
      OBVIOUS
    <3>2. configs = ConfigsOf(allowed, latestOnly)
      BY <1>6, <3>1, ConfigsShown
    <3>3. LET Page(page, limit) == SearchConfig(allowed, latestOnly, page, limit) IN
          Paged(configs, CountConfigs(allowed, latestOnly), Page)
      <4>1. \A limit \in PageSizes :
               Shows(configs, CountConfigs(allowed, latestOnly), limit,
                     [page \in 1..TotalPages(CountConfigs(allowed, latestOnly), limit) |->
                        SearchConfig(allowed, latestOnly, page, limit)])
        BY <1>4, <3>2
      <4> QED
        BY <4>1 DEF Paged, Shows
    <3> QED
      BY <3>1, <3>3
  <2>3. DOMAIN BackupPageRows(allowed) = visible
    BY <1>6 DEF BackupPageRows
  <2> QED
    BY <2>1, <2>2, <2>3
<1> QED
  BY <1>5, <1>6 DEF PagesAgree

-----------------------------------------------------------------------------
(* The tree by its parents and by its paths. *)

\* The paths of a tree without races: every parent is there.
TreeSound ==
    /\ DOMAIN tree \subseteq Group /\ PathsSound(tree)
    /\ \A g \in DOMAIN tree : tree[g].parent \in DOMAIN tree \cup {None}

Depth(g) == Len(tree[g].path)

LEMMA PathSteps ==
    ASSUME TreeSound, NEW g \in DOMAIN tree
    PROVE  /\ tree[g].path \in Seq(Group) /\ Depth(g) \in Nat \ {0} /\ tree[g].path[Depth(g)] = g
           /\ tree[g].parent \in DOMAIN tree \cup {None} /\ None \notin DOMAIN tree
           /\ tree[g].parent = None <=> Depth(g) = 1
           /\ tree[g].parent \in DOMAIN tree =>
                 /\ Depth(g) = Depth(tree[g].parent) + 1
                 /\ \A j \in 1..Depth(tree[g].parent) : tree[g].path[j] = tree[tree[g].parent].path[j]
<1>1. /\ Ends(tree[g].path, g) /\ tree[g].path = PathUnder(tree, g, tree[g].parent)
      /\ tree[g].parent \in DOMAIN tree \cup {None} /\ None \notin DOMAIN tree /\ g \in Group
  BY GroupAssumption DEF TreeSound, PathsSound
<1>2. CASE tree[g].parent = None
  <2>1. tree[g].path = <<g>>
    BY <1>1, <1>2 DEF PathUnder
  <2>2. <<g>> \in Seq(Group) /\ Len(<<g>>) = 1 /\ <<g>>[1] = g
    BY <1>1
  <2>3. tree[g].path \in Seq(Group) /\ Depth(g) = 1 /\ tree[g].path[1] = g
    BY <2>1, <2>2 DEF Depth
  <2> QED
    BY <1>1, <1>2, <2>3
<1>3. CASE tree[g].parent \in DOMAIN tree
  <2>1. PICK p, up : p = tree[g].parent /\ up = tree[p].path
    OBVIOUS
  <2>2. p \in DOMAIN tree /\ p # None
    BY <1>1, <1>3, <2>1
  <2>3. Ends(up, p)
    BY <2>1, <2>2 DEF TreeSound, PathsSound
  <2>4. tree[g].path = Append(up, g)
    BY <1>1, <2>1, <2>2 DEF PathUnder
  <2>5. up \in Seq(Group) /\ Len(up) \in Nat /\ Len(up) > 0
    BY <2>3 DEF Ends
  <2>6. /\ Len(Append(up, g)) = Len(up) + 1
        /\ \A j \in 1..Len(up) : Append(up, g)[j] = up[j]
    BY <1>1, <2>5
  <2>7. Depth(g) = Len(up) + 1 /\ Depth(p) = Len(up)
    BY <2>1, <2>4, <2>6 DEF Depth
  <2>8. tree[g].path \in Seq(Group) /\ tree[g].path[Depth(g)] = g
    BY <1>1 DEF Ends, Depth
  <2> QED
    BY <1>1, <2>1, <2>2, <2>4, <2>5, <2>6, <2>7, <2>8
<1> QED
  BY <1>1, <1>2, <1>3

\* The groups on a path are there, each at its depth, under the one before.
LEMMA Ancestors ==
    ASSUME TreeSound, NEW g \in DOMAIN tree, NEW i \in 1..Depth(g)
    PROVE  LET a == tree[g].path[i] IN
           /\ a \in DOMAIN tree /\ Depth(a) = i
           /\ tree[a].parent = IF i = 1 THEN None ELSE tree[g].path[i - 1]
<1>1. PICK L \in Nat \ {0}, path \in Seq(Group) : L = Depth(g) /\ path = tree[g].path /\ path[L] = g
  BY PathSteps
<1> DEFINE There(k) == /\ path[k] \in DOMAIN tree /\ Depth(path[k]) = k
                       /\ \A j \in 1..k : tree[path[k]].path[j] = path[j]
           G == {n \in 0..(L - 1) : There(L - n)}
<1>2. 0 \in G
  <2>1. There(L)
    BY <1>1
  <2> QED
    BY <2>1
<1>3. ASSUME NEW n \in 1..(L - 1), n - 1 \in G
      PROVE  n \in G
  <2>1. PICK k, a : k = L - n + 1 /\ k \in 2..L /\ a = path[k]
    OBVIOUS
  <2>2. a \in DOMAIN tree /\ Depth(a) = k /\ \A j \in 1..k : tree[a].path[j] = path[j]
    <3>1. There(L - (n - 1)) /\ L - (n - 1) = k
      BY <1>3, <2>1
    <3> QED
      BY <2>1, <3>1
  <2>3. PICK p : p = tree[a].parent
    OBVIOUS
  <2>4. p \in DOMAIN tree
    BY <2>1, <2>2, <2>3, PathSteps
  <2>5. Depth(p) \in Nat \ {0} /\ Depth(a) = Depth(p) + 1 /\ \A j \in 1..Depth(p) : tree[a].path[j] = tree[p].path[j]
    BY <2>2, <2>3, <2>4, PathSteps
  <2>6. Depth(p) = k - 1 /\ k - 1 \in 1..k /\ 1..(k - 1) \subseteq 1..k
    BY <2>1, <2>2, <2>5
  <2>7. tree[p].path[k - 1] = p
    BY <2>4, <2>6, PathSteps
  <2>8. \A j \in 1..(k - 1) : tree[p].path[j] = path[j]
    BY <2>2, <2>5, <2>6
  <2>9. path[k - 1] = p
    BY <2>1, <2>7, <2>8
  <2>10. There(k - 1)
    BY <2>4, <2>6, <2>8, <2>9
  <2> QED
    BY <2>1, <2>10
<1>4. ASSUME NEW k \in 1..L
      PROVE  There(k)
  <2>1. \A n \in 0..(L - 1) : n \in G
    <3> HIDE DEF G
    <3>1. L - 1 \in Nat /\ G \in SUBSET (0..(L - 1))
      BY DEF G
    <3> QED
      BY <1>2, <1>3, <3>1, StepByStep
  <2>2. L - k \in 0..(L - 1) /\ L - (L - k) = k
    OBVIOUS
  <2> QED
    BY <2>1, <2>2
<1>5. i \in 1..L /\ There(i)
  BY <1>1, <1>4
<1>6. PICK a, p : a = path[i] /\ p = tree[a].parent
  OBVIOUS
<1>7. CASE i = 1
  BY <1>1, <1>5, <1>6, <1>7, PathSteps
<1>8. CASE i # 1
  <2>1. a \in DOMAIN tree /\ Depth(a) = i /\ p \in DOMAIN tree
    BY <1>5, <1>6, <1>8, PathSteps
  <2>2. Depth(p) \in Nat /\ i = Depth(p) + 1 /\ \A j \in 1..Depth(p) : tree[a].path[j] = tree[p].path[j]
    <3>1. Depth(p) \in Nat
      BY <2>1, PathSteps
    <3>2. Depth(a) = Depth(p) + 1 /\ \A j \in 1..Depth(p) : tree[a].path[j] = tree[p].path[j]
      <4>1. Depth(a) = Depth(tree[a].parent) + 1
            /\ \A j \in 1..Depth(tree[a].parent) : tree[a].path[j] = tree[tree[a].parent].path[j]
        <5>1. a \in DOMAIN tree /\ tree[a].parent \in DOMAIN tree
          BY <1>6, <2>1
        <5> QED
          BY ONLY TreeSound, <5>1, PathSteps
      <4> QED
        BY <1>6, <4>1, Zenon
    <3> QED
      BY <2>1, <3>1, <3>2, Zenon
  <2>3. Depth(p) = i - 1 /\ i - 1 \in 1..i
    BY <1>5, <1>8, <2>2
  <2>4. tree[p].path[i - 1] = p
    BY <2>1, <2>3, PathSteps
  <2>5. tree[a].path[i - 1] = path[i - 1]
    BY <1>5, <1>6, <2>3
  <2>6. p = path[i - 1]
    BY <1>8, <2>2, <2>3, <2>4, <2>5, <1>5
  <2> QED
    BY <1>1, <1>5, <1>6, <1>8, <2>6
<1> QED
  BY <1>7, <1>8

\* No group is on a path twice, so no path is longer than there are groups.
LEMMA PathsFit ==
    ASSUME TreeSound, NEW g \in DOMAIN tree
    PROVE  /\ Cardinality(Group) \in Nat /\ Depth(g) <= Cardinality(Group)
           /\ \A i, j \in 1..Depth(g) : tree[g].path[i] = tree[g].path[j] => i = j
<1>1. PICK L \in Nat \ {0}, path \in Seq(Group) : L = Depth(g) /\ path = tree[g].path
  BY PathSteps
<1>2. \A i \in 1..L : Depth(path[i]) = i
  BY <1>1, Ancestors
<1>3. \A i, j \in 1..L : path[i] = path[j] => i = j
  BY <1>2
<1>4. L = Len(path)
  BY <1>1 DEF Depth
<1>5. DOMAIN path = 1..L /\ path \in [1..L -> Group]
  BY <1>4
<1>6. path \in Injection(1..L, Group)
  BY <1>3, <1>5 DEF Injection, IsInjective
<1>7. Cardinality(1..L) <= Cardinality(Group)
  BY <1>6, FS_Injection, RowsAssumption
<1>8. Cardinality(1..L) = L
  <2>1. Cardinality(1..L) = IF 1 > L THEN 0 ELSE L - 1 + 1
    BY FS_Interval
  <2> QED
    BY <2>1
<1> QED
  BY <1>1, <1>3, <1>7, <1>8, FS_CardinalityType, RowsAssumption

Under(gs) == {g \in DOMAIN tree : tree[g].parent \in gs}

\* What the recursion of FlatTree is.
Levels(f) == f = [n \in 0..Cardinality(Group) |-> IF n = 0 THEN Roots ELSE Under(f[n - 1])]

\* The tree from its roots down has every group.
LEMMA TreeFromRoots ==
    ASSUME TreeSound
    PROVE  FlatTree = DOMAIN tree
<1>1. PICK C \in Nat : C = Cardinality(Group)
  BY FS_CardinalityType, RowsAssumption
<1>2. PICK w : w = [n \in 0..C |-> {g \in DOMAIN tree : Depth(g) = n + 1}]
  OBVIOUS
<1>3. Roots = w[0]
  <2>1. \A g \in DOMAIN tree : tree[g].parent \notin DOMAIN tree <=> Depth(g) = 1
    BY PathSteps
  <2> QED
    BY <1>1, <1>2, <2>1 DEF Roots
<1>4. ASSUME NEW n \in 1..C
      PROVE  w[n] = Under(w[n - 1])
  <2>1. w[n] = {g \in DOMAIN tree : Depth(g) = n + 1} /\ w[n - 1] = {g \in DOMAIN tree : Depth(g) = n}
    BY <1>2
  <2>2. ASSUME NEW g \in DOMAIN tree
        PROVE  Depth(g) = n + 1 <=> tree[g].parent \in DOMAIN tree /\ Depth(tree[g].parent) = n
    <3>1. CASE tree[g].parent = None
      BY <3>1, PathSteps
    <3>2. CASE tree[g].parent \in DOMAIN tree
      <4>1. Depth(tree[g].parent) \in Nat /\ Depth(g) = Depth(tree[g].parent) + 1
        BY <3>2, PathSteps
      <4> QED
        BY <3>2, <4>1
    <3> QED
      BY <3>1, <3>2, PathSteps
  <2> QED
    BY <2>1, <2>2 DEF Under
<1>5. Levels(w)
  <2>1. w = [n \in 0..C |-> w[n]]
    BY <1>2
  <2>2. \A n \in 0..C : w[n] = IF n = 0 THEN Roots ELSE Under(w[n - 1])
    BY <1>3, <1>4
  <2> QED
    BY <1>1, <2>1, <2>2 DEF Levels
<1>6. PICK f : f = (CHOOSE x : Levels(x)) /\ Levels(f)
  BY <1>5
<1>7. \A n \in 0..C : f[n] = IF n = 0 THEN Roots ELSE Under(f[n - 1])
  BY <1>1, <1>6 DEF Levels
<1>8. \A n \in 0..C : f[n] = w[n]
  <2> DEFINE G == {n \in 0..C : f[n] = w[n]}
  <2>1. 0 \in G
    BY <1>1, <1>3, <1>7
  <2>2. ASSUME NEW n \in 1..C, n - 1 \in G
        PROVE  n \in G
    BY <1>4, <1>7, <2>2
  <2>3. \A n \in 0..C : n \in G
    <3> HIDE DEF G
    <3>1. G \in SUBSET (0..C)
      BY DEF G
    <3> QED
      BY <2>1, <2>2, <3>1, StepByStep
  <2> QED
    BY <2>3
<1>9. FlatTree = UNION {f[n] : n \in 0..C}
  BY <1>1, <1>6, Zenon DEF FlatTree, Levels, Under
<1>10. \A g \in DOMAIN tree : Depth(g) - 1 \in 0..C /\ g \in w[Depth(g) - 1]
  BY <1>1, <1>2, PathSteps, PathsFit
<1>11. \A n \in 0..C : w[n] \subseteq DOMAIN tree
  BY <1>2
<1> QED
  BY <1>8, <1>9, <1>10, <1>11

-----------------------------------------------------------------------------
(* The chain of parents. *)

\* A parent before a chain, if it is there and not met yet.
Longer(chain) ==
    LET p == tree[chain[1]].parent IN
    IF p \in DOMAIN tree \ Range(chain) THEN <<p>> \o chain ELSE chain

\* What the recursion of ParentChain is.
Chains(g, f) == f = [n \in 0..Cardinality(Group) |-> IF n = 0 THEN <<g>> ELSE Longer(f[n - 1])]

\* The last n groups of a path.
Ending(path, n) == SubSeq(path, Len(path) - n + 1, Len(path))

LEMMA EndingOf ==
    ASSUME NEW path \in Seq(Group), NEW n \in 1..Len(path)
    PROVE  /\ Ending(path, n) \in Seq(Group) /\ Len(Ending(path, n)) = n
           /\ \A i \in 1..n : Ending(path, n)[i] = path[Len(path) - n + i]
           /\ Ending(path, Len(path)) = path
           /\ Ending(path, 1) = <<path[Len(path)]>>
<1>1. PICK L \in Nat : L = Len(path) /\ n \in 1..L
  OBVIOUS
<1>2. ASSUME NEW m \in 1..L
      PROVE  /\ Ending(path, m) \in Seq(Group) /\ Len(Ending(path, m)) = m
             /\ \A i \in 1..m : Ending(path, m)[i] = path[L - m + i]
  <2>1. L - m + 1 \in 1..L /\ L - (L - m + 1) + 1 = m
    OBVIOUS
  <2>2. PICK k \in 1..L : k = L - m + 1
    BY <2>1
  <2>3. SubSeq(path, k, L) \in Seq(Group)
    BY <1>1
  <2>4. Len(SubSeq(path, k, L)) = L - k + 1
    BY <1>1
  <2>5. \A i \in 1..(L - k + 1) : SubSeq(path, k, L)[i] = path[k + i - 1]
    BY <1>1
  <2>6. L - k + 1 = m /\ \A i \in 1..m : k + i - 1 = L - m + i
    BY <2>2
  <2> QED
    BY <1>1, <2>2, <2>3, <2>4, <2>5, <2>6 DEF Ending
<1>3. L \in 1..L /\ 1 \in 1..L
  BY <1>1
<1>4. Ending(path, L) = path
  <2>1. Ending(path, L) \in Seq(Group) /\ Len(Ending(path, L)) = L /\ \A i \in 1..L : Ending(path, L)[i] = path[i]
    <3>1. PICK e : e = Ending(path, L)
      OBVIOUS
    <3>2. e \in Seq(Group) /\ Len(e) = L /\ \A i \in 1..L : e[i] = path[L - L + i]
      BY ONLY <1>2, <1>3, <3>1
    <3>3. \A i \in 1..L : L - L + i = i
      BY <1>1
    <3> QED
      BY <3>1, <3>2, <3>3, Zenon
  <2> QED
    BY <1>1, <2>1
<1>5. Ending(path, 1) = <<path[L]>>
  <2>1. Ending(path, 1) \in Seq(Group) /\ Len(Ending(path, 1)) = 1 /\ Ending(path, 1)[1] = path[L]
    <3>1. L - 1 + 1 = L /\ 1 \in 1..1
      OBVIOUS
    <3>2. Ending(path, 1)[1] = path[L - 1 + 1]
      BY <1>2, <1>3, <3>1
    <3> QED
      BY <1>2, <1>3, <3>1, <3>2
  <2> QED
    BY <2>1
<1> QED
  BY <1>1, <1>2, <1>4, <1>5

\* One group more of a path.
LEMMA LongerEnding ==
    ASSUME TreeSound, NEW g \in DOMAIN tree, NEW path, path = tree[g].path, NEW n \in 1..Len(path)
    PROVE  Longer(Ending(path, n)) = IF n < Len(path) THEN Ending(path, n + 1) ELSE Ending(path, n)
<1>1. PICK L \in Nat : L = Len(path) /\ n \in 1..L /\ L = Depth(g)
  BY PathSteps DEF Depth
<1>2. path \in Seq(Group)
  BY PathSteps
<1>3. PICK chain : chain = Ending(path, n)
  OBVIOUS
<1>4. chain \in Seq(Group) /\ Len(chain) = n /\ \A i \in 1..n : chain[i] = path[L - n + i]
  BY <1>1, <1>2, <1>3, EndingOf
<1>5. PICK k \in 1..L : k = L - n + 1
  BY <1>1
<1>6. chain[1] = path[k]
  BY <1>1, <1>4, <1>5
<1>7. PICK p : p = tree[chain[1]].parent
  OBVIOUS
<1>8. p = IF k = 1 THEN None ELSE path[k - 1]
  BY <1>1, <1>5, <1>6, <1>7, Ancestors
<1>9. CASE n < L
  <2>1. k - 1 \in 1..L /\ k # 1 /\ k - 1 = L - n
    BY <1>1, <1>5, <1>9
  <2>2. p = path[k - 1] /\ p \in DOMAIN tree /\ p \in Group
    BY <1>1, <1>8, <2>1, Ancestors DEF TreeSound
  <2>3. \A i \in 1..n : chain[i] # p
    <3> SUFFICES ASSUME NEW i \in 1..n, chain[i] = p
                 PROVE  FALSE
      OBVIOUS
    <3>1. L - n + i \in 1..L /\ L - n + i # k - 1
      BY <1>1, <2>1
    <3>2. path[L - n + i] = path[k - 1]
      BY <1>4, <2>2
    <3> QED
      BY <1>1, <2>1, <3>1, <3>2, PathsFit
  <2>4. p \notin Range(chain)
    BY <1>4, <2>3 DEF Range
  <2>5. Longer(chain) = <<p>> \o chain
    BY <1>7, <2>2, <2>4 DEF Longer
  <2>6. /\ <<p>> \o chain \in Seq(Group) /\ Len(<<p>> \o chain) = n + 1
        /\ \A i \in 1..(n + 1) : (<<p>> \o chain)[i] = IF i <= 1 THEN p ELSE chain[i - 1]
    <3>1. <<p>> \in Seq(Group) /\ Len(<<p>>) = 1 /\ <<p>>[1] = p
      BY <2>2
    <3> QED
      BY <1>4, <2>2, <3>1, ConcatProperties
  <2>7. n + 1 \in 1..L /\ L - (n + 1) + 1 = k - 1
    BY <1>1, <1>9, <2>1
  <2>8. PICK longer : longer = Ending(path, n + 1)
    OBVIOUS
  <2>9. longer \in Seq(Group) /\ Len(longer) = n + 1 /\ \A i \in 1..(n + 1) : longer[i] = path[L - (n + 1) + i]
    <3>1. PICK m \in 1..L : m = n + 1
      BY <2>7
    <3>2. m \in 1..Len(path) /\ longer = Ending(path, m)
      BY <1>1, <2>8, <3>1
    <3>3. longer \in Seq(Group) /\ Len(longer) = m /\ \A i \in 1..m : longer[i] = path[Len(path) - m + i]
      BY <1>2, <3>2, EndingOf
    <3> QED
      BY <1>1, <3>1, <3>3
  <2>a. PICK both : both = <<p>> \o chain
    OBVIOUS
  <2>b. /\ both \in Seq(Group) /\ Len(both) = n + 1
        /\ \A i \in 1..(n + 1) : both[i] = IF i <= 1 THEN p ELSE chain[i - 1]
    BY <2>6, <2>a
  <2>10. ASSUME NEW i \in 1..(n + 1)
         PROVE  longer[i] = both[i]
    <3>1. CASE i = 1
      BY <2>2, <2>b, <2>7, <2>9, <3>1
    <3>2. CASE i # 1
      <4>1. i - 1 \in 1..n /\ L - (n + 1) + i = L - n + (i - 1) /\ ~(i <= 1)
        BY <1>1, <3>2
      <4>2. both[i] = chain[i - 1] /\ chain[i - 1] = path[L - n + (i - 1)]
        BY <1>4, <2>b, <4>1
      <4> QED
        BY <2>9, <4>1, <4>2
    <3> QED
      BY <3>1, <3>2
  <2>11. longer = both
    BY <2>b, <2>9, <2>10
  <2> QED
    BY <1>1, <1>3, <1>9, <2>5, <2>8, <2>a, <2>11
<1>10. CASE ~(n < L)
  <2>1. k = 1
    BY <1>1, <1>5, <1>10
  <2>2. p \notin DOMAIN tree
    BY <1>8, <2>1, PathSteps
  <2> QED
    BY <1>1, <1>3, <1>7, <1>10, <2>2 DEF Longer
<1> QED
  BY <1>9, <1>10

\* The parents, one by one, make the path.
LEMMA ParentsMakeThePath ==
    ASSUME TreeSound, NEW g \in DOMAIN tree
    PROVE  ParentChain(g) = tree[g].path
<1>1. PICK C \in Nat : C = Cardinality(Group)
  BY FS_CardinalityType, RowsAssumption
<1>2. PICK path \in Seq(Group) : path = tree[g].path
  BY PathSteps
<1>3. PICK L \in Nat \ {0} : L = Len(path) /\ L <= C /\ path[L] = g
  BY <1>1, <1>2, PathSteps, PathsFit DEF Depth
<1> DEFINE Part(n) == IF n < L THEN Ending(path, n + 1) ELSE path
<1>4. PICK w : w = [n \in 0..C |-> Part(n)]
  OBVIOUS
<1>5. w[0] = <<g>>
  <2>1. w[0] = Ending(path, 1)
    BY <1>1, <1>3, <1>4
  <2> QED
    BY <1>2, <1>3, <2>1, EndingOf
<1>6. ASSUME NEW n \in 1..C
      PROVE  w[n] = Longer(w[n - 1])
  <2>1. w[n] = Part(n) /\ w[n - 1] = Part(n - 1)
    BY <1>4
  <2>2. path = Ending(path, L)
    BY <1>2, <1>3, EndingOf
  <2>3. CASE n <= L
    <3>1. n \in 1..L /\ w[n - 1] = Ending(path, n)
      BY <2>1, <2>3
    <3>2. Longer(Ending(path, n)) = IF n < L THEN Ending(path, n + 1) ELSE Ending(path, n)
      BY <1>2, <1>3, <3>1, LongerEnding
    <3>3. n < L \/ n = L
      BY <2>3
    <3> QED
      BY <2>1, <2>2, <3>1, <3>2, <3>3
  <2>4. CASE ~(n <= L)
    <3>1. ~(n - 1 < L) /\ ~(n < L) /\ L \in 1..L /\ ~(L < L)
      BY <2>4
    <3>2. Longer(Ending(path, L)) = Ending(path, L)
      BY <1>2, <1>3, <3>1, LongerEnding
    <3> QED
      BY <2>1, <2>2, <3>1, <3>2
  <2> QED
    BY <2>3, <2>4
<1> HIDE DEF Part
<1>7. Chains(g, w)
  <2>1. w = [n \in 0..C |-> w[n]]
    BY <1>4
  <2>2. \A n \in 0..C : w[n] = IF n = 0 THEN <<g>> ELSE Longer(w[n - 1])
    BY <1>5, <1>6
  <2> QED
    BY <1>1, <2>1, <2>2 DEF Chains
<1>8. PICK f : f = (CHOOSE x : Chains(g, x)) /\ Chains(g, f)
  BY <1>7
<1>9. \A n \in 0..C : f[n] = IF n = 0 THEN <<g>> ELSE Longer(f[n - 1])
  BY <1>1, <1>8 DEF Chains
<1>10. \A n \in 0..C : f[n] = w[n]
  <2> DEFINE G == {n \in 0..C : f[n] = w[n]}
  <2>1. 0 \in G
    BY <1>1, <1>5, <1>9
  <2>2. ASSUME NEW n \in 1..C, n - 1 \in G
        PROVE  n \in G
    <3>1. f[n - 1] = w[n - 1] /\ n \in 0..C /\ n # 0
      BY <2>2
    <3>2. f[n] = Longer(f[n - 1])
      BY <1>9, <3>1
    <3> QED
      BY <1>6, <3>1, <3>2
  <2>3. \A n \in 0..C : n \in G
    <3> HIDE DEF G
    <3>1. G \in SUBSET (0..C)
      BY DEF G
    <3> QED
      BY <2>1, <2>2, <3>1, StepByStep
  <2> QED
    BY <2>3
<1>11. ParentChain(g) = f[C]
  BY <1>1, <1>8, Zenon DEF ParentChain, Chains, Longer
<1>12. w[C] = path
  BY <1>3, <1>4 DEF Part
<1>13. C \in 0..C
  OBVIOUS
<1> QED
  BY <1>2, <1>10, <1>11, <1>12, <1>13

-----------------------------------------------------------------------------
(* Groups. *)

\* A group below one that a user may see is one he may see.
LEMMA BelowAllowed ==
    ASSUME TreeSound, NEW list, NEW g \in Expand(tree, list \cap Group) \cap DOMAIN tree, NEW h \in Expand(tree, {g})
    PROVE  h \in Expand(tree, list \cap Group)
<1>1. PICK k \in list \cap Group \cap DOMAIN tree : IsPrefix(tree[k].path, tree[g].path)
  BY DEF Expand, Below
<1>2. h \in DOMAIN tree /\ IsPrefix(tree[g].path, tree[h].path)
  BY DEF Expand, Below
<1>3. PICK a \in Seq(Group), b \in Seq(Group), c \in Seq(Group) : a = tree[k].path /\ b = tree[g].path /\ c = tree[h].path
  BY <1>1, <1>2, PathSteps
<1>4. Len(a) <= Len(b) /\ \A i \in 1..Len(a) : a[i] = b[i]
  BY <1>1, <1>3, PrefixByIndex
<1>5. Len(b) <= Len(c) /\ \A i \in 1..Len(b) : b[i] = c[i]
  BY <1>2, <1>3, PrefixByIndex
<1>6. Len(a) <= Len(c) /\ \A i \in 1..Len(a) : a[i] = c[i]
  BY <1>4, <1>5
<1>7. IsPrefix(a, c)
  BY <1>6, PrefixByIndex
<1> QED
  BY <1>1, <1>2, <1>3, <1>7 DEF Expand, Below

LEMMA GroupsStayAgreed ==
    ASSUME ListedRows, TreeInv
    PROVE  GroupsAgree
<1> SUFFICES ASSUME "tree" \notin overlap, ForeignKey
             PROVE  /\ FlatTree = DOMAIN tree
                    /\ \A g \in DOMAIN tree : DisplayPath(g) = tree[g].path /\ ParentChain(g) = tree[g].path
                    /\ TargetGroups(Unlimited) = [g \in DOMAIN tree |-> Cardinality(Resolve({g}))]
                    /\ \A allowed \in Accesses \ {Unlimited} : \A g \in allowed \cap DOMAIN tree :
                         Cardinality(Preview({g}, allowed)) = TargetGroups(allowed)[g]
  BY DEF GroupsAgree
<1>1. GroupIds /\ TreeSound
  BY DEF TreeInv, GroupIds, ParentInv, PathInv, TreeSound
<1>2. FlatTree = DOMAIN tree
  BY <1>1, TreeFromRoots
<1>3. \A g \in DOMAIN tree : DisplayPath(g) = tree[g].path /\ ParentChain(g) = tree[g].path
  BY <1>1, ParentsMakeThePath DEF DisplayPath
<1>4. \A g \in DOMAIN tree : Resolve({g}) = {d \in DOMAIN devices : devices[d].group \in Expand(tree, {g})}
  BY <1>1, ResolveGroup
<1>5. TargetGroups(Unlimited) = [g \in DOMAIN tree |-> Cardinality(Resolve({g}))]
  BY <1>2, <1>4 DEF TargetGroups
<1>6. ASSUME NEW allowed \in Accesses \ {Unlimited}, NEW g \in allowed \cap DOMAIN tree
      PROVE  Cardinality(Preview({g}, allowed)) = TargetGroups(allowed)[g]
  <2>1. PICK list : allowed = Expand(tree, list \cap Group) \cup (list \cap {Ungrouped})
    BY <1>1, AccessOf
  <2>2. g \in Expand(tree, list \cap Group)
    BY <1>1, <2>1, RowsAssumption DEF GroupIds
  <2>3. \A h \in Expand(tree, {g}) : h \in allowed
    BY <1>1, <2>1, <2>2, BelowAllowed
  <2>4. Preview({g}, allowed) = {d \in DOMAIN devices : devices[d].group \in Expand(tree, {g})}
    BY <1>4, <2>3 DEF Preview, MayAccess
  <2>5. TargetGroups(allowed)[g] = Cardinality({d \in DOMAIN devices : devices[d].group \in Expand(tree, {g})})
    BY <1>2, <1>6 DEF TargetGroups
  <2> QED
    BY <2>4, <2>5
<1> QED
  BY <1>2, <1>3, <1>5, <1>6

-----------------------------------------------------------------------------
(* Tasks and the dashboard. *)

\* Of some records one is the newest.
LEMMA NewestOne ==
    ASSUME RowsSound, NEW S, S \subseteq records, S # {}
    PROVE  Newest(S, 1) # {}
<1> DEFINE R == NewerPairs(S)
<1>1. IsFiniteSet(S)
  BY FiniteRows, FS_Subset
<1>2. Strict(S, R)
  BY RecordsOrdered
<1>3. Cardinality(S) \in Nat /\ Cardinality(S) # 0
  BY <1>1, FS_CardinalityType, FS_EmptySet
<1>4. 0 \in 0 .. Cardinality(S) - 1
  BY <1>3
<1> HIDE DEF R
<1>5. PICK x \in S : Rank(S, R)[x] = 0
  BY <1>1, <1>2, <1>4, Ranks
<1>6. Ahead(S, R, x) = {q \in S : NewerFirst(q, x)}
  BY <1>5 DEF Ahead, R, NewerPairs
<1>7. Cardinality({q \in S : NewerFirst(q, x)}) = 0
  BY <1>5, <1>6 DEF Rank
<1> QED
  BY <1>5, <1>7 DEF Newest

\* The records of devices a user may see.
Own(allowed) == {r \in records : r.device \in DOMAIN devices /\ MayAccess(r.device, allowed)}

LEMMA SeenIsOwn ==
    ASSUME NEW allowed, NEW S, S \subseteq records
    PROVE  Seen(S, allowed) = S \cap Own(allowed)
BY DEF Seen, Own

\* The panel shows a user's own active records, and nothing of another's.
LEMMA PanelIsOwn ==
    ASSUME NEW allowed
    PROVE  /\ {r \in Own(allowed) : r.status = "active"} \subseteq TaskBackups(allowed)
           /\ TaskBackups(allowed) \subseteq Own(allowed)
BY DEF TaskBackups, Seen, Own, Newest

RecentRuns(allowed) ==
    {i \in DOMAIN runs : Cardinality({k \in DOMAIN runs : k > i}) < RecentTasks /\ RunBackups(i, allowed) # {}}

LatestOf(allowed) == CHOOSE i \in RecentRuns(allowed) : \A k \in RecentRuns(allowed) : k <= i

\* What is tracked is a user's own, and there is something as long as one of the
\* newest records is.
LEMMA TrackedIsOwn ==
    ASSUME RowsSound, NEW allowed
    PROVE  /\ RecentTracking(allowed) \subseteq Own(allowed)
           /\ RecentTracking(allowed) = {} =>
                \A r \in Own(allowed) : Cardinality({q \in records : NewerFirst(q, r)}) >= RecentTasks
<1> DEFINE alone == Seen(Newest(records, RecentTasks), allowed)
<1>1. RecentTracking(allowed) = IF RecentRuns(allowed) # {} THEN RunBackups(LatestOf(allowed), allowed)
                                ELSE Newest(alone, 1)
  BY DEF RecentTracking, RecentRuns, LatestOf
<1>2. alone \subseteq records /\ alone \subseteq Own(allowed)
  BY DEF Seen, Own, Newest
<1>3. \A i : RunBackups(i, allowed) \subseteq Own(allowed)
  BY DEF RunBackups, RecordsOf, Seen, Own
<1>4. Newest(alone, 1) \subseteq alone
  BY DEF Newest
<1>5. RecentTracking(allowed) \subseteq Own(allowed)
  BY <1>1, <1>2, <1>3, <1>4
<1>6. ASSUME RecentRuns(allowed) # {}
      PROVE  RunBackups(LatestOf(allowed), allowed) # {}
  <2>1. PICK n \in Nat : Numbers \subseteq 1..n
    BY RunNumbers
  <2>2. RecentRuns(allowed) \subseteq 1..n
    BY <2>1 DEF RecentRuns, Numbers
  <2>3. \E i \in RecentRuns(allowed) : \A k \in RecentRuns(allowed) : k <= i
    BY <2>2, <1>6, GreatestNumber
  <2>4. LatestOf(allowed) \in RecentRuns(allowed)
    BY <2>3 DEF LatestOf
  <2> QED
    BY <2>4 DEF RecentRuns
<1>7. ASSUME RecentTracking(allowed) = {}, NEW r \in Own(allowed)
      PROVE  Cardinality({q \in records : NewerFirst(q, r)}) >= RecentTasks
  <2>1. alone = {}
    BY <1>1, <1>2, <1>6, <1>7, NewestOne
  <2>2. r \in records /\ r \notin Newest(records, RecentTasks)
    BY <1>7, <2>1 DEF Seen, Own
  <2>3. ~(Cardinality({q \in records : NewerFirst(q, r)}) < RecentTasks)
    BY <2>2 DEF Newest
  <2>4. Cardinality({q \in records : NewerFirst(q, r)}) \in Nat
    <3>1. {q \in records : NewerFirst(q, r)} \in SUBSET records
      OBVIOUS
    <3>2. IsFiniteSet({q \in records : NewerFirst(q, r)})
      BY <3>1, FiniteRows, FS_Subset
    <3> QED
      BY <3>2, FS_CardinalityType
  <2>5. RecentTasks \in Nat
    BY ListingsAssumption
  <2> HIDE DEF alone
  <2> QED
    BY <2>3, <2>4, <2>5
<1> QED
  BY <1>5, <1>7

Labels(ended) == {GroupLabel(r.device) : r \in ended}
OfLabel(ended, p) == {r \in ended : GroupLabel(r.device) = p}

\* The counts of the groups add up.
LEMMA TotalsAddUp ==
    ASSUME RowsSound, NEW x
    PROVE  SumOf(TotalByGroup(x)) = Cardinality(StatsRecords(x))
<1> DEFINE S == StatsRecords(x)
           I == Labels(S)
           V == [p \in I |-> OfLabel(S, p)]
           v == TotalByGroup(x)
<1>1. IsFiniteSet(S)
  <2>1. S \in SUBSET records
    BY DEF StatsRecords
  <2> HIDE DEF S
  <2> QED
    BY <2>1, FiniteRows, FS_Subset
<1>2. IsFiniteSet(I)
  <2>1. IsFiniteSet({GroupLabel(r.device) : r \in S})
    <3> HIDE DEF S
    <3> DEFINE f == [r \in S |-> GroupLabel(r.device)]
    <3>1. f \in Surjection(S, {GroupLabel(r.device) : r \in S})
      BY DEF Surjection
    <3> HIDE DEF f
    <3> QED
      BY <3>1, <1>1, FS_Surjection
  <2> QED
    BY <2>1 DEF Labels
<1>3. V \in [I -> SUBSET S]
  BY DEF OfLabel
<1>4. \A p, q \in I : p # q => V[p] \cap V[q] = {}
  BY DEF OfLabel
<1>5. DOMAIN v = I /\ \A p \in I : v[p] = Cardinality(V[p])
  BY DEF TotalByGroup, Labels, OfLabel
<1>6. UNION {V[p] : p \in I} = S
  <2>1. \A r \in S : GroupLabel(r.device) \in I /\ r \in V[GroupLabel(r.device)]
    BY DEF Labels, OfLabel
  <2> HIDE DEF S, I, V
  <2> QED
    BY <1>3, <2>1
<1> HIDE DEF S, I, V, v
<1>7. SumOf(v) = Cardinality(UNION {V[p] : p \in I})
  BY <1>1, <1>2, <1>3, <1>4, <1>5, SumOfParts
<1> QED
  BY <1>6, <1>7 DEF S, v

\* A record that has ended failed or succeeded.
LEMMA EndedOrFailed ==
    ASSUME ListedRows, NEW x
    PROVE  LET ended == StatsRecords(x) IN
           DOMAIN FailByDevice(x) \cup {r.device : r \in {r \in ended : r.status = "succeeded"}}
             = {r.device : r \in ended}
<1>1. \A r \in StatsRecords(x) : r.status \in {"succeeded", "failed"}
  BY DEF ListedRows, Statuses, StatsRecords
<1>2. DOMAIN FailByDevice(x) = {r.device : r \in {r \in StatsRecords(x) : r.status = "failed"}}
  BY DEF FailByDevice
<1> QED
  BY <1>1, <1>2

Today(status) == {r \in records : r.at = aged /\ r.status = status}

\* What is not a success has failed or is active.
LEMMA DashboardAddsUp ==
    ASSUME RowsSound
    PROVE  /\ DashboardSummary.success = BackupTrend[aged].success
           /\ DashboardSummary.fail
                = BackupTrend[aged].fail + Cardinality({r \in records : r.at = aged /\ r.status = "active"})
<1> DEFINE total == {r \in records : r.at >= aged}
           good  == {r \in total : r.status = "succeeded"}
<1>1. aged \in Nat /\ \A r \in records : r.status \in Statuses /\ r.at \in 0..aged
  BY DEF RowsSound, ListedRows
<1>2. \A r \in records : r.at >= aged <=> r.at = aged
  BY <1>1
<1>3. good = Today("succeeded")
  BY <1>2 DEF Today
<1>4. total = Today("succeeded") \cup (Today("failed") \cup Today("active"))
  BY <1>1, <1>2 DEF Today, Statuses
<1>5. \A status : IsFiniteSet(Today(status)) /\ Cardinality(Today(status)) \in Nat
  <2> TAKE status
  <2>1. Today(status) \in SUBSET records
    BY DEF Today
  <2>2. IsFiniteSet(Today(status))
    BY <2>1, FiniteRows, FS_Subset
  <2> QED
    BY <2>2, FS_CardinalityType
<1>6. /\ Today("failed") \cap Today("active") = {}
      /\ Today("succeeded") \cap (Today("failed") \cup Today("active")) = {}
  BY DEF Today
<1>7. DashboardSummary = [total |-> Cardinality(total), success |-> Cardinality(good),
                          fail |-> Cardinality(total) - Cardinality(good)]
  BY DEF DashboardSummary
<1>8. BackupTrend[aged] = [success |-> Cardinality(Today("succeeded")), fail |-> Cardinality(Today("failed"))]
  <2>1. aged \in 0..aged
    BY <1>1
  <2> QED
    BY <2>1 DEF BackupTrend, Today
<1> HIDE DEF total, good
<1>9. Cardinality(Today("failed") \cup Today("active"))
        = Cardinality(Today("failed")) + Cardinality(Today("active"))
  <2>1. Cardinality(Today("failed") \cup Today("active"))
          = Cardinality(Today("failed")) + Cardinality(Today("active"))
              - Cardinality(Today("failed") \cap Today("active"))
    BY <1>5, FS_Union
  <2>2. Cardinality(Today("failed") \cap Today("active")) = 0
    BY <1>6, FS_EmptySet
  <2> QED
    BY <2>1, <2>2, <1>5
<1>10. Cardinality(total) = Cardinality(Today("succeeded")) + Cardinality(Today("failed") \cup Today("active"))
  <2>1. IsFiniteSet(Today("failed") \cup Today("active"))
    BY <1>5, FS_Union
  <2>2. Cardinality(total) = Cardinality(Today("succeeded")) + Cardinality(Today("failed") \cup Today("active"))
              - Cardinality(Today("succeeded") \cap (Today("failed") \cup Today("active")))
    BY <1>4, <1>5, <2>1, FS_Union
  <2>3. Cardinality(Today("succeeded") \cap (Today("failed") \cup Today("active"))) = 0
    BY <1>6, FS_EmptySet
  <2>4. Cardinality(Today("failed") \cup Today("active")) \in Nat
    BY <2>1, FS_CardinalityType
  <2> QED
    BY <2>2, <2>3, <2>4, <1>5
<1>11. DashboardSummary.success = BackupTrend[aged].success
  BY <1>3, <1>7, <1>8
<1>12. DashboardSummary.fail = Cardinality(Today("failed")) + Cardinality(Today("active"))
  BY <1>3, <1>5, <1>7, <1>9, <1>10
<1>13. BackupTrend[aged].fail = Cardinality(Today("failed"))
  BY <1>8
<1>14. Today("active") = {r \in records : r.at = aged /\ r.status = "active"}
  BY DEF Today
<1> QED
  BY <1>11, <1>12, <1>13, <1>14

OfGroup(g) == {r \in records : r.device \in DOMAIN devices /\ devices[r.device].group = g}

\* A group has no more successes than records.
LEMMA HealthFits ==
    ASSUME RowsSound
    PROVE  \A row \in Range(GroupHealth) : row.success <= row.total
<1>1. SUFFICES ASSUME NEW g \in DOMAIN GroupHealth
               PROVE  GroupHealth[g].success <= GroupHealth[g].total
  BY DEF Range
<1> DEFINE good == {r \in OfGroup(g) : r.status = "succeeded"}
<1>2. GroupHealth[g] = [total |-> Cardinality(OfGroup(g)), success |-> Cardinality(good)]
  BY <1>1 DEF GroupHealth, OfGroup
<1>3. OfGroup(g) \in SUBSET records /\ good \in SUBSET OfGroup(g)
  BY DEF OfGroup
<1> HIDE DEF good
<1>4. IsFiniteSet(OfGroup(g))
  BY <1>3, FiniteRows, FS_Subset
<1>5. Cardinality(good) <= Cardinality(OfGroup(g))
  BY <1>3, <1>4, FS_Subset
<1> QED
  BY <1>2, <1>5

\* The panel and the counts agree with the records.
LEMMA RecordsStayAgreed ==
    ASSUME RowsSound
    PROVE  RecordsAgree
<1>1. \A allowed \in Accesses :
         /\ {r \in Own(allowed) : r.status = "active"} \subseteq TaskBackups(allowed)
         /\ TaskBackups(allowed) \cup RecentTracking(allowed) \subseteq Own(allowed)
         /\ RecentTracking(allowed) = {} =>
               \A r \in Own(allowed) : Cardinality({q \in records : NewerFirst(q, r)}) >= RecentTasks
  <2> TAKE allowed \in Accesses
  <2>1. TaskBackups(allowed) \cup RecentTracking(allowed) \subseteq Own(allowed)
    BY PanelIsOwn, TrackedIsOwn
  <2> QED
    BY <2>1, PanelIsOwn, TrackedIsOwn
<1>2. \A x \in DOMAIN schedules : SumOf(TotalByGroup(x)) = Cardinality(StatsRecords(x))
  BY TotalsAddUp
<1>3. ListedRows
  BY DEF RowsSound
<1>4. \A x \in DOMAIN schedules :
         LET ended == StatsRecords(x) IN
         DOMAIN FailByDevice(x) \cup {r.device : r \in {r \in ended : r.status = "succeeded"}}
           = {r.device : r \in ended}
  BY <1>3, EndedOrFailed
<1> QED
  BY <1>1, <1>2, <1>4, DashboardAddsUp, HealthFits DEF RecordsAgree, Own

-----------------------------------------------------------------------------
(* The views. *)

ViewsInv == DeletionInv /\ ListedInv

LEMMA ViewsStep ==
    ASSUME ViewsInv, [Next]_vars
    PROVE  ViewsInv'
<1>1. DeletionInv /\ ListedInv
  BY DEF ViewsInv
<1>2. SessionsInv /\ DeviceRows /\ GroupIds /\ RecordRows
  BY <1>1 DEF DeletionInv, AdministrationInv, RunsInv, TreeInv
<1> QED
  BY <1>1, <1>2, DeletionStep, ListedKept DEF ViewsInv

LEMMA ViewsSound ==
    ASSUME ViewsInv
    PROVE  ViewsAgree
<1>1. ListedRows /\ NumbersInv /\ RecordsInv /\ TreeInv /\ GroupIds
  BY DEF ViewsInv, ListedInv, DeletionInv, AdministrationInv, TreeInv
<1>2. RowsSound
  BY <1>1 DEF RowsSound, RecordsInv
<1> QED
  BY <1>1, <1>2, PagesStayWhole, GroupsStayAgreed, RecordsStayAgreed DEF ViewsAgree

\* What is computed twice comes out the same, whatever the requests and however
\* they interleave: the pages of a list hold each of its rows once and as many as
\* its count says, a query filters what the check of each device would let pass,
\* the tree by parents is the tree by paths, a schedule's targets are counted as
\* they would be backed up, the task panel shows a limited user his own records and
\* nothing of another's, and the counts of the dashboard add up.
\* (crud.py, device_service, schedule_service, backup_service, pagination_service)
THEOREM ViewsAlwaysAgree == Spec => []ViewsAgree
<1>1. Init => ViewsInv
  BY DeletionStarts, ListedStarts DEF ViewsInv
<1>2. ViewsInv /\ [Next]_vars => ViewsInv'
  BY ViewsStep
<1>3. ViewsInv => ViewsAgree
  BY ViewsSound
<1> QED
  BY <1>1, <1>2, <1>3, PTL DEF Spec
===============================================================================

--------------------------- MODULE Administration ---------------------------
(***************************************************************************)
(* The web process: the handlers of the inventory, of users and roles and  *)
(* of the settings of notifications, sharing its sessions, and the crash   *)
(* that takes what it keeps in memory.                                     *)
(***************************************************************************)
EXTENDS Listings, Identity, RoutingSettings

CONSTANT Start   \* the databases a behaviour may start from

\* They are sound themselves: the handlers wrote them.
ASSUME AdministrationAssumption ==
    \A db \in Start :
        /\ DOMAIN db.tree \subseteq Group
        /\ \A g \in DOMAIN db.tree : /\ db.tree[g].parent \in DOMAIN db.tree \cup {None}
                                     /\ db.tree[g] = Row(db.tree, g, db.tree[g].parent)
                                     /\ db.tree[g].path \in Seq(Group)
        /\ DOMAIN db.devices \subseteq Device
        /\ \A d \in DOMAIN db.devices :
              /\ db.devices[d] \in [group : Group \cup {None}, credential : Credential]
              /\ db.devices[d].credential \in db.credentials
        /\ \A x \in DOMAIN db.schedules :
              db.schedules[x] \in [on : BOOLEAN, targets : SUBSET (Group \cup Device \cup {All})]
        /\ {db.users[u] : u \in DOMAIN db.users} \subseteq Codes(db.roles)
        /\ \A p \in DOMAIN db.policies :
              db.policies[p] \in [channels : SUBSET db.channels, template : Template \cup {NoTemplate}]

vars == <<requestVars, inventoryVars, identityVars, routingVars>>

Init ==
    /\ aged = 0
    /\ \E db \in Start :
         /\ RequestsInit(DOMAIN db.tree \cup DOMAIN db.roles)
         /\ tree = db.tree /\ devices = db.devices /\ credentials = db.credentials
         /\ schedules = db.schedules /\ roles = db.roles /\ users = db.users
         /\ channels = db.channels /\ templates = db.templates
         /\ policies = db.policies /\ deliveries = {}
    /\ jobs = Enabled /\ runs = <<>> /\ records = {}
    /\ cache = Refreshed(roles)

Restart ==
    /\ tx' = [s \in Session |-> Idle]
    /\ RestartInventory /\ RestartIdentity
    /\ UNCHANGED <<begun, overlap, routingVars>>

Next ==
    \/ /\ \/ \E s \in Session : \/ Open(s, "inventory") /\ InventoryRequest(s)
                                \/ Open(s, "backups") /\ BackupRequest(s)
                                \/ InventoryCommit(s)
          \/ InventoryElsewhere
       /\ UNCHANGED <<identityVars, routingVars>>
    \/ /\ \/ \E s \in Session : \/ Open(s, "identity") /\ IdentityRequest(s)
                                \/ IdentityCommit(s)
          \/ \E u \in User : DeleteUser(u)
       /\ UNCHANGED <<inventoryVars, routingVars>>
    \/ /\ \E s \in Session : \/ Open(s, "routing") /\ RoutingRequest(s)
                             \/ RoutingCommit(s)
       /\ UNCHANGED <<inventoryVars, identityVars>>
    \/ Restart

Spec == Init /\ [][Next]_vars

\* What one row says of another is true of it, as far as the handlers check:
\* see ReferencesResolve, UsersHaveRoles and RoutesResolve.  (crud.py, the services)
ReferencesHold == ReferencesResolve /\ UsersHaveRoles /\ RoutesResolve

\* What the process keeps in memory agrees with the tables when nothing is being
\* changed: the scheduler's jobs and the role cache, with their exceptions.
\* (sync_scheduler_from_db, refresh_role_cache)
CachesAreCurrent == JobsAreCurrent /\ RoleCacheIsCurrent
=============================================================================

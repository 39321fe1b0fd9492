------------------------------ MODULE Identity ------------------------------
(***************************************************************************)
(* Users, roles, and the role cache: module variables of crud.py that the  *)
(* web process fills from the role table and answers every permission      *)
(* check from.  The cache is assigned inside the transaction that changes  *)
(* the roles, before it commits, and by every page that lists them.        *)
(*                                                                         *)
(* The administrator's role, which no handler may change, is left out;     *)
(* Readonly stands for the built-in roles that are put back when missing.  *)
(* Of a role only its code is told apart: its permissions travel with it.  *)
(***************************************************************************)
EXTENDS Requests, Functions

CONSTANTS RoleId,          \* bound: the ids the table of roles may give
          Code, Readonly, User

VARIABLES roles,     \* role rows: id to code
          users,     \* user rows: name to role code
          cache      \* the codes in ROLE_DEFAULT_PERMISSIONS

identityVars == <<roles, users, cache>>

Codes(rs) == {rs[i] : i \in DOMAIN rs}

NewRole(taken) == CHOOSE i \in RoleId \ (ids \cup taken) : TRUE

\* ensure_default_roles: the missing built-in roles, under ids of their own.
Seeds == IF Readonly \in Codes(roles) THEN <<>> ELSE Only(NewRole({}), Readonly)

\* refresh_role_cache: the roles of the table and the built-in ones.
Refreshed(rs) == Codes(rs) \cup {Readonly}

\* The roles a handler works on, once it has put back the built-in ones.
Seeded == Over(Seeds, roles)

\* Each handler first puts them back and refreshes the cache.
OpensRoles(s, op, request, new) ==
    /\ DOMAIN Seeds \cup new \subseteq RoleId \ ids
    /\ OpensTaking(s, [op |-> op, stage |-> "checked", seeds |-> Seeds, request |-> request],
                   DOMAIN Seeds \cup new)
    /\ cache' = Refreshed(Seeded)
    /\ UNCHANGED <<roles, users>>

ViewRoles(s) == OpensRoles(s, "viewRoles", <<>>, {})

CreateRole(s, code) ==
    LET i == NewRole(DOMAIN Seeds) IN
    /\ code \notin Codes(Seeded) /\ i \notin DOMAIN Seeds
    /\ OpensRoles(s, "createRole", [role |-> i, code |-> code], {i})

RenameRole(s, i, code) ==
    /\ i \in DOMAIN roles /\ code \notin Codes(Seeded)
    /\ OpensRoles(s, "renameRole", [role |-> i, code |-> code, old |-> roles[i]], {})

DeleteRole(s, i) ==
    /\ i \in DOMAIN roles
    /\ roles[i] \notin {users[u] : u \in DOMAIN users}
    /\ OpensRoles(s, "deleteRole", [role |-> i], {})

\* create_user falls back to the read-only role; update_user keeps the old one.
SaveUser(s, u, code) ==
    LET role == IF code \in Codes(Seeded) THEN code
                ELSE IF u \in DOMAIN users THEN users[u] ELSE Readonly IN
    OpensRoles(s, "saveUser",
        [new |-> u \notin DOMAIN users,
         users |-> IF u \in DOMAIN users /\ users[u] = role THEN <<>> ELSE Only(u, role)], {})

DeleteUser(u) ==
    /\ u \in DOMAIN users
    /\ users' = Restrict(users, DOMAIN users \ {u})
    /\ Alone("identity")
    /\ UNCHANGED <<roles, cache>>

\* The roles as the session sees them once its change is flushed.
Flushed(s) ==
    LET seen == Over(tx[s].seeds, roles) IN
    CASE tx[s].op \in {"createRole", "renameRole"} -> Over(Only(tx[s].request.role, tx[s].request.code), seen)
      [] tx[s].op = "deleteRole" -> Restrict(seen, DOMAIN seen \ {tx[s].request.role})
      [] OTHER -> seen

\* A role row updated in another open session is locked.
RoleLocked(s) == {tx[t].request.role : t \in {t \in Session \ {s} :
                    tx[t].op \in {"renameRole", "deleteRole"} /\ tx[t].stage = "open"}}

\* The change is flushed; a rename then reads the users who bear the old code;
\* the cache is filled from what the session sees.
FlushRole(s) ==
    /\ tx[s].op \in {"createRole", "renameRole", "deleteRole"} /\ tx[s].stage = "checked"
    /\ tx[s].request.role \notin RoleLocked(s)
    /\ tx[s].op = "renameRole" => tx[s].request.role \in DOMAIN roles
    /\ Continues(s, [op |-> tx[s].op, stage |-> "open", seeds |-> tx[s].seeds, request |-> tx[s].request,
                     users |-> IF tx[s].op = "renameRole"
                               THEN [u \in {u \in DOMAIN users : users[u] = tx[s].request.old} |->
                                       tx[s].request.code]
                               ELSE <<>>])
    /\ cache' = Refreshed(Flushed(s))
    /\ UNCHANGED <<roles, users>>

Unique(rs) == \A i, j \in DOMAIN rs : rs[i] = rs[j] => i = j

\* role.code is unique; a row that has gone cannot be updated.
CommitRoles(s) ==
    /\ tx[s].op \in RoleOps \ {"saveUser"}
    /\ IF tx[s].op = "viewRoles" THEN tx[s].stage = "checked" ELSE tx[s].stage = "open"
    /\ tx[s].op = "renameRole" => /\ tx[s].request.role \in DOMAIN roles
                                  /\ DOMAIN tx[s].users \subseteq DOMAIN users
    /\ Unique(Flushed(s))
    /\ roles' = Flushed(s)
    /\ users' = IF tx[s].op = "renameRole" THEN Over(tx[s].users, users) ELSE users
    /\ Closes(s)
    /\ UNCHANGED cache

CommitUser(s) ==
    /\ tx[s].op = "saveUser"
    /\ LET request == tx[s].request IN
         /\ request.new = (DOMAIN request.users \cap DOMAIN users = {} /\ request.users # <<>>)
         /\ users' = Over(request.users, users)
    /\ Unique(Flushed(s))
    /\ roles' = Flushed(s)
    /\ Closes(s)
    /\ UNCHANGED cache

\* The cache is not put back: it keeps what was never committed.
RollbackRoles(s) ==
    /\ tx[s].op \in RoleOps
    /\ tx' = [tx EXCEPT ![s] = Idle]
    /\ overlap' = overlap \cup {"cache"}
    /\ UNCHANGED <<ids, begun, identityVars>>

\* main.lifespan
RestartIdentity ==
    /\ DOMAIN Seeds \subseteq RoleId \ ids
    /\ roles' = Seeded
    /\ cache' = Refreshed(Seeded)
    /\ ids' = ids \cup DOMAIN Seeds
    /\ UNCHANGED users

IdentityRequest(s) ==
    \/ ViewRoles(s)
    \/ \E code \in Code : CreateRole(s, code) \/ \E i \in RoleId : RenameRole(s, i, code)
    \/ \E i \in RoleId : DeleteRole(s, i)
    \/ \E u \in User, code \in Code : SaveUser(s, u, code)

IdentityCommit(s) ==
    \/ FlushRole(s) \/ CommitRoles(s) \/ CommitUser(s) \/ RollbackRoles(s)

-----------------------------------------------------------------------------
\* Every user has a role that exists; unless a role was renamed or deleted
\* while a user was saved or another role renamed.  (delete_role counts the
\* users, update_role renames their roles, create_user and update_user look
\* the role up: each in its own session)
UsersHaveRoles == "role" \notin overlap => {users[u] : u \in DOMAIN users} \subseteq Codes(roles)

\* When no role is being changed the cache names the roles of the table, and
\* the built-in ones; unless two sessions refreshed it at once, or one was
\* rolled back after it had.  (refresh_role_cache)
RoleCacheIsCurrent ==
    (\A s \in Session : tx[s].op \notin RoleOps) /\ "cache" \notin overlap => cache = Refreshed(roles)
=============================================================================

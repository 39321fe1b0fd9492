------------------------------ MODULE Requests ------------------------------
(***************************************************************************)
(* The database sessions of the web process.  FastAPI runs the handlers in *)
(* a thread pool and gives each request a session that is committed when   *)
(* the handler returns and rolled back when it raises (db.get_session);    *)
(* the jobs of the scheduler open sessions of their own.  PostgreSQL runs  *)
(* them READ COMMITTED and the code takes no lock before it checks: what a *)
(* handler decides from may be gone when its writes commit.                *)
(*                                                                         *)
(* A handler is therefore two steps, or three: one that reads, checks and  *)
(* keeps what it will write, for some handlers one that flushes (and reads *)
(* again), and one that commits.                                           *)
(***************************************************************************)
EXTENDS Naturals

CONSTANTS Session,   \* the sessions that may be open at once
          Loads      \* bound: how many requests of each part a behaviour may have

Parts == {"inventory", "backups", "identity", "routing"}

ASSUME RequestsAssumption == Loads \subseteq [Parts -> Nat]

VARIABLES tx,        \* what each session is doing
          ids,       \* the ids the tables' sequences have given, never to be given again
          begun,     \* the requests of each part so far (bounded by Loads)
          overlap    \* history: the races two open requests were exposed to

requestVars == <<tx, ids, begun, overlap>>

Idle == [op |-> "none"]

\* A table of one row, and one with the rows of another where it has none.
Only(x, row) == [y \in {x} |-> row]
Over(new, rows) == [x \in DOMAIN new \cup DOMAIN rows |-> IF x \in DOMAIN new THEN new[x] ELSE rows[x]]

Pairs(A, B) == (A \X B) \cup (B \X A)

ScheduleOps == {"saveSchedule", "toggleSchedule", "deleteSchedule"}
RoleOps == {"createRole", "renameRole", "deleteRole", "viewRoles", "saveUser"}

\* The pairs of handlers that do not protect what they read from each other,
\* by what may go wrong (history only: no step depends on it).
Races ==
    [tree       |-> Pairs({"moveGroup"}, {"moveGroup", "createGroup"}),
     orphan     |-> Pairs({"deleteGroup"}, {"moveGroup", "createGroup"}),
     credential |-> Pairs({"deleteCredential"}, {"saveDevices", "import"}),
     device     |-> Pairs({"deleteDevices"}, {"plan"}),
     schedule   |-> Pairs({"deleteSchedule"}, {"plan"}),
     targets    |-> Pairs({"deleteDevices"}, {"saveSchedule", "deleteDevices"}),
     reload     |-> ScheduleOps \X ScheduleOps,
     records    |-> Pairs({"cleanup"}, {"deleteRecords"}),
     channel    |-> Pairs({"deleteChannel"}, {"savePolicy", "deleteChannel"}),
     role       |-> Pairs({"renameRole", "deleteRole"}, {"saveUser", "renameRole"}),
     cache      |-> RoleOps \X RoleOps]

Raced(a, b) == {r \in DOMAIN Races : <<a, b>> \in Races[r]}

RequestsInit(given) ==
    /\ tx = [s \in Session |-> Idle]
    /\ ids = given
    /\ begun = [part \in Parts |-> 0]
    /\ overlap = {}

BackupOps == {"plan", "cleanup", "deleteRecords"}
RoutingOps == {"savePolicy", "deleteChannel", "deleteTemplate", "deletePolicy", "dispatch"}

PartOf(op) == IF op \in RoleOps THEN "identity"
              ELSE IF op \in RoutingOps THEN "routing"
              ELSE IF op \in BackupOps THEN "backups" ELSE "inventory"

Admits(part) ==
    \E load \in Loads : \A p \in Parts : begun[p] + (IF p = part THEN 1 ELSE 0) <= load[p]

Begins(part) == Admits(part) /\ begun' = [begun EXCEPT ![part] = @ + 1]

\* Session s is free and the bound leaves a request of the part.
Open(s, part) == tx[s] = Idle /\ Admits(part)

\* A request has read and checked, has taken new ids, and keeps what it will write.
OpensTaking(s, request, new) ==
    /\ tx[s] = Idle
    /\ Begins(PartOf(request.op))
    /\ ids' = ids \cup new
    /\ tx' = [tx EXCEPT ![s] = request]
    /\ overlap' = overlap \cup UNION {Raced(request.op, tx[t].op) : t \in Session}

Opens(s, request) == OpensTaking(s, request, {})

\* A request that decides nothing from what it reads: one step.
Alone(part) == Begins(part) /\ UNCHANGED <<tx, ids, overlap>>

Continues(s, request) == /\ tx' = [tx EXCEPT ![s] = request]
                         /\ UNCHANGED <<ids, begun, overlap>>

Closes(s) == Continues(s, Idle)

\* The handler is past its last flush: what is left is the commit.
Ready(s, op) == tx[s].op = op /\ tx[s].stage = "open"
=============================================================================

--------------------------- MODULE BackupSemaphore ---------------------------
(***************************************************************************)
(* The Redis semaphore that bounds how many backups run at once            *)
(* (task_semaphore and its use in backup_record_task, celery_tasks.py).    *)
(* The semaphore is one Redis set of record ids with one time to live, so  *)
(* a record's deliveries share a member, and a slot nobody releases is     *)
(* given back only when the whole set expires.                             *)
(*                                                                         *)
(* BackupRun has the task's life around this: its WaitForSlot, GiveUpSlot, *)
(* Execute are what the attempts below decide.  Time is counted in ticks   *)
(* of the five seconds a task waits before it tries again.                 *)
(***************************************************************************)
EXTENDS Naturals, FiniteSets

CONSTANTS
    Records,        \* the records whose tasks compete
    Configs,        \* configurations: [slots, failOpen]
    FullRetries,    \* _SEMAPHORE_FULL_MAX_RETRIES
    ErrorRetries,   \* _SEMAPHORE_MAX_RETRIES
    TTL,            \* _SEMAPHORE_TTL_SECONDS
    HoldLimit,      \* the task's hard time limit
    FaultKinds,     \* the faults the environment may inject
    MaxFaults       \* bound: how many faults happen in a behaviour

AllFaultKinds == {"redis", "ambiguous", "release", "crash", "redeliver"}

\* The settings page caps the hard limit at the semaphore's time to live.
ASSUME SemaphoreAssumption ==
    /\ IsFiniteSet(Records)
    /\ Configs \subseteq [slots : Nat, failOpen : BOOLEAN]
    /\ FullRetries \in Nat /\ ErrorRetries \in Nat
    /\ TTL \in Nat \ {0} /\ HoldLimit \in Nat /\ HoldLimit <= TTL
    /\ FaultKinds \subseteq AllFaultKinds /\ MaxFaults \in Nat

VARIABLES
    config,       \* the configuration of this deployment
    slots,        \* the members of the Redis set
    age,          \* ticks since the set's time to live was last refreshed
    task,         \* the deliveries of each record's task
    finished,     \* records with a terminal status
    faults,       \* faults used so far (bound)
    history       \* records killed and deliveries that met a Redis error (history)

vars == <<config, slots, age, task, finished, faults, history>>

\* A record's task may be delivered a second time.
Deliveries == Records \X {"first", "second"}
Running    == {"holding", "bypassing"}
Task == [pc : {"none", "queued", "checked", "waiting", "holding", "bypassing", "releasing",
               "done", "failed"},
         retries : Nat, held : 0..HoldLimit]
NoTask == [pc |-> "none", retries |-> 0, held |-> 0]

Rec(a)     == a[1]
Holding    == {a \in Deliveries : task[a].pc \in {"holding", "releasing"}}
Duplicated == {r \in Records : task[<<r, "second">>].pc # "none"}
InProcess  == Running \cup {"releasing"}
Become(a, pc) ==
    task' = [task EXCEPT ![a].pc = pc, ![a].held = IF pc = "releasing" THEN @ ELSE 0]
At(a, pc)     == task[a].pc = pc /\ UNCHANGED config

UseFault(kind) == kind \in FaultKinds /\ faults < MaxFaults /\ faults' = faults + 1

-----------------------------------------------------------------------------
\* Mutant: one slot too many.
MayEnterOffByOne(r) == r \in slots \/ Cardinality(slots) <= config.slots

\* The acquire script: a member enters again, a new one when there is room.
MayEnter(r) == r \in slots \/ Cardinality(slots) < config.slots

\* Mutant: the time to live is set once, when the set is created.
EnterWithoutRefresh(r) == slots' = slots \cup {r} /\ UNCHANGED age

Enter(r) == slots' = slots \cup {r} /\ age' = 0

\* Mutant: the finally clause is missing.
LeaveNot(r) == UNCHANGED <<slots, age>>

\* SREM; Redis drops a set that has become empty, and its time to live with it.
Leave(r) == slots' = slots \ {r} /\ age' = (IF slots \subseteq {r} THEN 0 ELSE age)

\* self.retry(countdown, max_retries): the count is the task's own, whatever it
\* was retried for before; past the limit the task fails and its failure
\* handler finishes the record.
RetryOrFail(a, limit) ==
    IF task[a].retries < limit
    THEN /\ task' = [task EXCEPT ![a].pc = "waiting", ![a].retries = @ + 1]
         /\ UNCHANGED finished
    ELSE Become(a, "failed") /\ finished' = finished \cup {Rec(a)}

\* The check of the record's status at the start of the task.
Start(a) ==
    /\ At(a, "queued")
    /\ Become(a, IF Rec(a) \in finished THEN "done" ELSE "checked")
    /\ UNCHANGED <<slots, age, finished, faults, history>>

\* max_slots <= 0: no bound.
EnterUnbounded(a) ==
    /\ At(a, "checked") /\ config.slots = 0
    /\ Become(a, "bypassing")
    /\ UNCHANGED <<slots, age, finished, faults, history>>

Acquire(a) ==
    /\ At(a, "checked") /\ config.slots > 0 /\ MayEnter(Rec(a))
    /\ Enter(Rec(a))
    /\ Become(a, "holding")
    /\ UNCHANGED <<finished, faults, history>>

\* Mutant: a full semaphore is waited for as briefly as a broken one.
RefuseBriefly(a) ==
    /\ At(a, "checked") /\ config.slots > 0 /\ ~MayEnter(Rec(a))
    /\ RetryOrFail(a, ErrorRetries)
    /\ UNCHANGED <<slots, age, faults, history>>

Refuse(a) ==
    /\ At(a, "checked") /\ config.slots > 0 /\ ~MayEnter(Rec(a))
    /\ RetryOrFail(a, FullRetries)
    /\ UNCHANGED <<slots, age, faults, history>>

\* A Redis error while acquiring, or no client at all: run without a slot when
\* configured to fail open, else try again.
WithoutRedis(a) ==
    /\ IF config.failOpen
       THEN Become(a, "bypassing") /\ UNCHANGED finished
       ELSE RetryOrFail(a, ErrorRetries)
    /\ UNCHANGED config

RedisError(a) ==
    /\ task[a].pc = "checked" /\ config.slots > 0
    /\ UseFault("redis")
    /\ WithoutRedis(a)
    /\ history' = [history EXCEPT !.errors = @ \cup {a}]
    /\ UNCHANGED <<slots, age>>

\* The connection breaks after the script ran: the slot is taken, the task does
\* not know it and will not release it.
AcquireAmbiguous(a) ==
    /\ task[a].pc = "checked" /\ config.slots > 0 /\ MayEnter(Rec(a))
    /\ UseFault("ambiguous")
    /\ Enter(Rec(a))
    /\ WithoutRedis(a)
    /\ history' = [history EXCEPT !.errors = @ \cup {a}]

-----------------------------------------------------------------------------
\* The outcome of the backup is committed, whatever it is; a task without a slot
\* is done with that.
Finish(a) ==
    /\ task[a].pc \in Running /\ UNCHANGED config
    /\ Become(a, IF task[a].pc = "holding" THEN "releasing" ELSE "done")
    /\ finished' = finished \cup {Rec(a)}
    /\ UNCHANGED <<slots, age, faults, history>>

\* The finally clause of the with statement.
Release(a) ==
    /\ At(a, "releasing")
    /\ Leave(Rec(a))
    /\ Become(a, "done")
    /\ UNCHANGED <<finished, faults, history>>

\* SREM fails: logged, and the member stays.
ReleaseFails(a) ==
    /\ At(a, "releasing")
    /\ UseFault("release")
    /\ Become(a, "done")
    /\ UNCHANGED <<slots, age, finished, history>>

\* The pool kills the process at the hard limit; no finally clause runs and the
\* message is acknowledged.
HardLimit(a) ==
    /\ task[a].pc \in InProcess /\ task[a].held = HoldLimit
    /\ Become(a, "done")
    /\ history' = [history EXCEPT !.killed = @ \cup {Rec(a)}]
    /\ UNCHANGED <<config, slots, age, finished, faults>>

\* The worker process is lost; its message is delivered again.
Crash(a) ==
    /\ task[a].pc \in InProcess \cup {"checked"}
    /\ UseFault("crash")
    /\ Become(a, "queued")
    /\ UNCHANGED <<config, slots, age, finished, history>>

\* The broker delivers the unacknowledged message a second time.
Redeliver(r) ==
    /\ task[<<r, "first">>].pc \in InProcess \cup {"checked", "waiting"}
    /\ r \notin Duplicated
    /\ UseFault("redeliver")
    /\ task' = [task EXCEPT ![<<r, "second">>] =
                    [pc |-> "queued", retries |-> task[<<r, "first">>].retries, held |-> 0]]
    /\ UNCHANGED <<config, slots, age, finished, history>>

\* Mutant: the set never expires.
NeverExpire == UNCHANGED <<slots, age>>

\* EXPIRE is for the whole set and restarted by every acquisition.
Expire == IF slots = {} \/ age = TTL THEN slots' = {} /\ age' = 0
          ELSE age' = age + 1 /\ UNCHANGED slots

\* Five seconds pass: waiting tasks come back, nobody runs past the hard limit.
Tick ==
    /\ \A a \in Deliveries : task[a].pc \in InProcess => task[a].held < HoldLimit
    /\ task' = [a \in Deliveries |->
                  CASE task[a].pc = "waiting" -> [task[a] EXCEPT !.pc = "queued"]
                    [] task[a].pc \in InProcess -> [task[a] EXCEPT !.held = @ + 1]
                    [] OTHER -> task[a]]
    /\ Expire
    /\ UNCHANGED <<config, finished, faults, history>>

-----------------------------------------------------------------------------
Init ==
    /\ config \in Configs
    /\ slots = {} /\ age = 0
    /\ task = [a \in Deliveries |-> IF a[2] = "first" THEN [NoTask EXCEPT !.pc = "queued"]
                                    ELSE NoTask]
    /\ finished = {} /\ faults = 0
    /\ history = [killed |-> {}, errors |-> {}]

Work(a) == \/ Start(a) \/ EnterUnbounded(a) \/ Acquire(a) \/ Refuse(a)
           \/ Finish(a) \/ Release(a) \/ HardLimit(a)

Fault == \/ \E a \in Deliveries : RedisError(a) \/ AcquireAmbiguous(a) \/ ReleaseFails(a) \/ Crash(a)
         \/ \E r \in Records : Redeliver(r)

Next == \/ \E a \in Deliveries : Work(a)
        \/ Fault
        \/ Tick

Spec == Init /\ [][Next]_vars

\* Workers go on, device sessions end, and time passes.
FairSpec == Spec /\ WF_vars(Tick) /\ \A a \in Deliveries : WF_vars(Work(a))

-----------------------------------------------------------------------------
(* Properties. *)

TypeOK ==
    /\ config \in Configs
    /\ slots \subseteq Records /\ age \in 0..TTL
    /\ task \in [Deliveries -> Task]
    /\ finished \subseteq Records
    /\ faults \in 0..MaxFaults
    /\ history \in [killed : SUBSET Records, errors : SUBSET Deliveries]

\* A backup that was given a slot keeps it while it runs: neither the expiry of
\* the set nor the release of another record takes it away.  Only a duplicate
\* delivery of the same record, which shares the member, does.
HolderKeepsSlot == \A a \in Holding : Rec(a) \in slots \/ Rec(a) \in Duplicated

\* How far the bound on concurrent backups holds: duplicate deliveries of one
\* record count once, and the end of the first frees the slot of both, so each
\* duplicated record can exceed the bound by one, and nothing else can.
AdmissionBound == Cardinality(Holding) <= config.slots + Cardinality(Duplicated)

\* Each fault costs at most one slot: a member is left without a delivery that
\* will release it only by a hard kill, a failed release, a lost reply, or a crash
\* after which the redelivered task does not acquire it again.
LeftBehind == {r \in slots : \A a \in Deliveries :
                  Rec(a) = r => task[a].pc \notin {"queued", "checked", "waiting", "holding", "releasing"}}

FaultCostsOneSlot == Cardinality(LeftBehind) <= faults + Cardinality(history.killed)

\* A full semaphore never fails a record: its retries outlast every holder, and
\* the expiry of the slots that are left behind.
RefusalIsNotFinal == \A a \in Deliveries : task[a].pc = "failed" => a \in history.errors

\* Every slot is free again when the traffic ends, those left behind included.
SlotsDrain == <>[](slots = {})

\* "When false, Redis semaphore failures block backup execution and trigger task
\* retry" (settings.py): the first Redis error a task meets is retried.
RedisErrorIsRetried ==
    [][\A a \in history'.errors \ history.errors : task'[a].pc # "failed"]_vars
=============================================================================

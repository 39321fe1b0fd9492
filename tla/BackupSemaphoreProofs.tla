------------------------ MODULE BackupSemaphoreProofs ------------------------
(***************************************************************************)
(* What the semaphore keeps for every number of records and slots, every   *)
(* retry limit, every time to live not below the hard limit, and every     *)
(* number of faults.                                                       *)
(* At the end: that a refusal fails nobody as long as the retries outlast  *)
(* the set.                                                                *)
(***************************************************************************)
EXTENDS BackupSemaphore, FiniteSetTheorems, TLAPS

-----------------------------------------------------------------------------
(* Deliveries and their moves. *)

LEMMA DeliveryFacts ==
    /\ \A a \in Deliveries : /\ Rec(a) \in Records
                             /\ a = <<Rec(a), "first">> \/ a = <<Rec(a), "second">>
    /\ \A r \in Records : <<r, "first">> \in Deliveries /\ <<r, "second">> \in Deliveries
    /\ \A r : Rec(<<r, "first">>) = r /\ Rec(<<r, "second">>) = r
    /\ \A r : <<r, "first">> # <<r, "second">>
BY DEF Deliveries, Rec

LEMMA DeliveriesAreFinite == IsFiniteSet(Deliveries)
<1>1. IsFiniteSet({"first"} \cup {"second"})
  BY FS_Singleton, FS_Union
<1>2. {"first"} \cup {"second"} = {"first", "second"}
  OBVIOUS
<1> QED
  BY <1>1, <1>2, FS_Product, SemaphoreAssumption DEF Deliveries

PCs == {"checked", "waiting", "holding", "bypassing", "releasing", "done", "failed", "queued"}

\* One delivery moves to pc; one that starts to release has run no longer for it.
Moves(a, pc) ==
    /\ task' \in [Deliveries -> Task]
    /\ task'[a].pc = pc
    /\ pc = "releasing" => task'[a].held = task[a].held
    /\ \A b \in Deliveries : b # a => task'[b] = task[b]

LEMMA BecomeMoves ==
    ASSUME TypeOK, NEW a \in Deliveries, NEW pc \in PCs, Become(a, pc)
    PROVE  Moves(a, pc)
<1>1. 0 \in 0..HoldLimit
  BY SemaphoreAssumption
<1>2. task[a] \in Task /\ task[a].held \in 0..HoldLimit
  BY DEF TypeOK, Task
<1> DEFINE new == [task[a] EXCEPT !.pc = pc, !.held = IF pc = "releasing" THEN @ ELSE 0]
<1>3. new \in Task /\ new.pc = pc /\ new.held = IF pc = "releasing" THEN task[a].held ELSE 0
  BY <1>1, <1>2 DEF Task, PCs
<1>4. task' = [task EXCEPT ![a] = new]
  BY <1>2 DEF Become, TypeOK, Task
<1> QED
  BY <1>3, <1>4 DEF Moves, TypeOK

LEMMA RetryMoves ==
    ASSUME TypeOK, NEW a \in Deliveries, NEW limit \in Nat, RetryOrFail(a, limit)
    PROVE  /\ \E pc \in {"waiting", "failed"} : Moves(a, pc)
           /\ finished' \subseteq Records
<1>1. CASE task[a].retries < limit
  <2>1. task[a] \in Task /\ task[a].retries + 1 \in Nat
    BY DEF TypeOK, Task
  <2> DEFINE new == [task[a] EXCEPT !.pc = "waiting", !.retries = @ + 1]
  <2>2. new \in Task /\ new.pc = "waiting"
    BY <2>1 DEF Task
  <2>3. task' = [task EXCEPT ![a] = new] /\ finished' = finished
    BY <1>1, <2>1 DEF RetryOrFail, TypeOK, Task
  <2> QED
    BY <2>2, <2>3 DEF Moves, TypeOK
<1>2. CASE ~(task[a].retries < limit)
  BY <1>2, BecomeMoves, DeliveryFacts DEF RetryOrFail, PCs, TypeOK
<1> QED
  BY <1>1, <1>2

\* What a move does to the deliveries that hold a slot, and to the duplicates.
LEMMA HoldingMoves ==
    ASSUME TypeOK, NEW a \in Deliveries, NEW pc \in PCs, Moves(a, pc)
    PROVE  /\ pc \in {"holding", "releasing"} => Holding' = Holding \cup {a}
           /\ pc \notin {"holding", "releasing"} => Holding' = Holding \ {a}
           /\ Duplicated \subseteq Duplicated'
           /\ \A b \in Holding' : b # a \/ pc = "releasing" => task'[b].held = task[b].held
<1>1. \A b \in Deliveries : b # a => task'[b] = task[b]
  BY DEF Moves
<1>2. task'[a].pc = pc /\ pc # "none"
  BY DEF Moves, PCs
<1>3. pc \in {"holding", "releasing"} => Holding' = Holding \cup {a}
  BY <1>1, <1>2 DEF Holding
<1>4. pc \notin {"holding", "releasing"} => Holding' = Holding \ {a}
  BY <1>1, <1>2 DEF Holding
<1>5. \A r \in Records : <<r, "second">> \in Deliveries
  BY DeliveryFacts
<1>6. Duplicated \subseteq Duplicated'
  BY <1>1, <1>2, <1>5 DEF Duplicated
<1>7. \A b \in Holding' : b # a \/ pc = "releasing" => task'[b].held = task[b].held
  BY <1>1 DEF Holding, Moves
<1> QED
  BY <1>3, <1>4, <1>6, <1>7

\* A delivery that holds nothing moves on without taking anything.
LEMMA IdleMoves ==
    ASSUME TypeOK, NEW a \in Deliveries, NEW pc \in PCs, Moves(a, pc),
           a \notin Holding, pc \notin {"holding", "releasing"}
    PROVE  /\ Holding' = Holding
           /\ \A b \in Holding : task'[b].held = task[b].held
           /\ Duplicated \subseteq Duplicated'
<1>1. Holding' = Holding \ {a}
  BY HoldingMoves
<1>2. Holding \ {a} = Holding
  OBVIOUS
<1>3. \A b \in Holding : b \in Holding' /\ b # a
  BY <1>1, <1>2
<1> QED
  BY <1>1, <1>2, <1>3, HoldingMoves

-----------------------------------------------------------------------------
(* Type correctness.                                                       *)

LEMMA TypeStep == ASSUME TypeOK, [Next]_vars PROVE TypeOK'
<1>1. ASSUME NEW a \in Deliveries, Work(a) PROVE TypeOK'
  <2>0. Rec(a) \in Records
    BY DeliveryFacts
  <2>1. CASE Start(a)
    BY <2>1, BecomeMoves DEF Start, At, TypeOK, Moves, PCs
  <2>2. CASE EnterUnbounded(a)
    BY <2>2, BecomeMoves DEF EnterUnbounded, At, TypeOK, Moves, PCs
  <2>3. CASE Acquire(a)
    BY <2>0, <2>3, BecomeMoves, SemaphoreAssumption DEF Acquire, Enter, At, TypeOK, Moves, PCs
  <2>4. CASE Refuse(a)
    BY <2>4, RetryMoves, SemaphoreAssumption DEF Refuse, At, TypeOK, Moves
  <2>5. CASE Finish(a)
    BY <2>0, <2>5, BecomeMoves DEF Finish, TypeOK, Moves, PCs
  <2>6. CASE Release(a)
    BY <2>6, BecomeMoves, SemaphoreAssumption DEF Release, Leave, At, TypeOK, Moves, PCs
  <2>7. CASE HardLimit(a)
    <3>1. history' \in [killed : SUBSET Records, errors : SUBSET Deliveries]
      BY <2>0, <2>7 DEF HardLimit, TypeOK
    <3> QED
      BY <2>7, <3>1, BecomeMoves DEF HardLimit, TypeOK, Moves, PCs
  <2> QED
    BY <1>1, <2>1, <2>2, <2>3, <2>4, <2>5, <2>6, <2>7 DEF Work
<1>2. ASSUME Fault PROVE TypeOK'
  <2>1. ASSUME NEW kind, UseFault(kind) PROVE faults' \in 0..MaxFaults
    BY <2>1, SemaphoreAssumption DEF UseFault, TypeOK
  <2>2. ASSUME NEW a \in Deliveries, TypeOK, WithoutRedis(a)
        PROVE  task' \in [Deliveries -> Task] /\ finished' \subseteq Records /\ config' = config
    <3>1. CASE config.failOpen
      BY <2>2, <3>1, BecomeMoves DEF WithoutRedis, Moves, PCs, TypeOK
    <3>2. CASE ~config.failOpen
      BY <2>2, <3>2, RetryMoves, SemaphoreAssumption DEF WithoutRedis, Moves
    <3> QED
      BY <3>1, <3>2
  <2>3. ASSUME NEW a \in Deliveries, RedisError(a) PROVE TypeOK'
    <3>1. history' \in [killed : SUBSET Records, errors : SUBSET Deliveries]
      BY <2>3 DEF RedisError, TypeOK
    <3> QED
      BY <2>1, <2>2, <2>3, <3>1 DEF RedisError, TypeOK
  <2>4. ASSUME NEW a \in Deliveries, AcquireAmbiguous(a) PROVE TypeOK'
    <3>1. history' \in [killed : SUBSET Records, errors : SUBSET Deliveries]
      BY <2>4 DEF AcquireAmbiguous, TypeOK
    <3>2. slots' \subseteq Records /\ age' \in 0..TTL
      BY <2>4, DeliveryFacts, SemaphoreAssumption DEF AcquireAmbiguous, Enter, TypeOK
    <3> QED
      BY <2>1, <2>2, <2>4, <3>1, <3>2 DEF AcquireAmbiguous, TypeOK
  <2>5. ASSUME NEW a \in Deliveries, ReleaseFails(a) PROVE TypeOK'
    BY <2>1, <2>5, BecomeMoves DEF ReleaseFails, At, TypeOK, Moves, PCs
  <2>6. ASSUME NEW a \in Deliveries, Crash(a) PROVE TypeOK'
    BY <2>1, <2>6, BecomeMoves DEF Crash, TypeOK, Moves, PCs
  <2>7. ASSUME NEW r \in Records, Redeliver(r) PROVE TypeOK'
    <3>1. task[<<r, "first">>].retries \in Nat /\ 0 \in 0..HoldLimit
      <4>1. task[<<r, "first">>] \in Task
        BY DeliveryFacts DEF TypeOK
      <4> QED
        BY <4>1, SemaphoreAssumption DEF Task
    <3>2. [pc |-> "queued", retries |-> task[<<r, "first">>].retries, held |-> 0] \in Task
      BY <3>1 DEF Task
    <3> QED
      BY <2>1, <2>7, <3>2 DEF Redeliver, TypeOK
  <2> QED
    BY <1>2, <2>3, <2>4, <2>5, <2>6, <2>7 DEF Fault
<1>3. ASSUME Tick PROVE TypeOK'
  <2>1. ASSUME NEW a \in Deliveries PROVE task'[a] \in Task
    <3>0. task[a] \in Task /\ task'[a] = CASE task[a].pc = "waiting" -> [task[a] EXCEPT !.pc = "queued"]
                    [] task[a].pc \in InProcess -> [task[a] EXCEPT !.held = @ + 1]
                    [] OTHER -> task[a]
      BY <1>3 DEF Tick, TypeOK
    <3>1. CASE task[a].pc = "waiting"
      <4>1. task'[a] = [task[a] EXCEPT !.pc = "queued"]
        BY <3>0, <3>1 DEF InProcess, Running
      <4> QED
        BY <3>0, <4>1 DEF Task
    <3>2. CASE task[a].pc \in InProcess
      <4>1. task[a].held + 1 \in 0..HoldLimit
        BY <1>3, <3>0, <3>2, SemaphoreAssumption DEF Tick, Task
      <4>2. task'[a] = [task[a] EXCEPT !.held = @ + 1]
        BY <3>0, <3>2 DEF InProcess, Running
      <4> QED
        BY <3>0, <4>1, <4>2 DEF Task
    <3>3. CASE task[a].pc # "waiting" /\ task[a].pc \notin InProcess
      BY <3>0, <3>3
    <3> QED
      BY <3>1, <3>2, <3>3
  <2>2. task' \in [Deliveries -> Task]
    BY <1>3, <2>1 DEF Tick
  <2>3. slots' \subseteq Records /\ age' \in 0..TTL
    BY <1>3, SemaphoreAssumption DEF Tick, Expire, TypeOK
  <2> QED
    BY <1>3, <2>2, <2>3 DEF Tick, TypeOK
<1>4. CASE UNCHANGED vars
  BY <1>4 DEF vars, TypeOK
<1> QED
  BY <1>1, <1>2, <1>3, <1>4 DEF Next

-----------------------------------------------------------------------------
(* What a step does to the slots, whatever else it does.  Every step keeps  *)
(* the duplicates it finds and has one of six effects.                      *)

Same(b)   == task'[b].held = task[b].held
SameSet   == slots' = slots /\ age' = age
NoKill    == history'.killed = history.killed
AtNoCost  == faults' = faults /\ NoKill
ForAFault == faults' = faults + 1 /\ NoKill
Room(a)   == config.slots > 0 /\ MayEnter(Rec(a))

\* Who holds, and in which state, is as before.
Nothing == Holding' = Holding /\ (\A b \in Holding : Same(b)) /\ SameSet /\ (AtNoCost \/ ForAFault)

\* a holds a slot, and knows it.
Takes(a) == /\ Holding' = Holding \cup {a} /\ \A b \in Holding' : b # a => Same(b)
            /\ task'[a].held \in Nat
            /\ slots' = slots \cup {Rec(a)} /\ age' = 0 /\ Room(a) /\ AtNoCost

\* The slot is taken and nobody knows it.
TakesUnaware(a) == /\ Holding' = Holding /\ \A b \in Holding : Same(b)
                   /\ slots' = slots \cup {Rec(a)} /\ age' = 0 /\ Room(a) /\ ForAFault

\* a is gone and its slot stays.
Abandons(a) == /\ a \in Holding
               /\ Holding' = Holding \ {a} /\ \A b \in Holding' : Same(b)
               /\ SameSet
               /\ \/ ForAFault
                  \/ faults' = faults /\ history'.killed = history.killed \cup {Rec(a)}

\* One more record is noted as killed; it held no slot.
KillsBypassing == /\ Holding' = Holding /\ (\A b \in Holding : Same(b)) /\ SameSet
                  /\ faults' = faults /\ history.killed \subseteq history'.killed

Releases(a) == /\ a \in Holding
               /\ Holding' = Holding \ {a} /\ \A b \in Holding' : Same(b)
               /\ slots' = slots \ {Rec(a)}
               /\ age' = (IF slots \subseteq {Rec(a)} THEN 0 ELSE age)
               /\ AtNoCost

Passes == /\ Holding' = Holding
          /\ \A b \in Holding : /\ task[b].held < HoldLimit
                                /\ task'[b].held = task[b].held + 1
          /\ Expire /\ AtNoCost

Effect == \/ Nothing \/ KillsBypassing \/ Passes
          \/ \E a \in Deliveries : Takes(a) \/ TakesUnaware(a) \/ Abandons(a) \/ Releases(a)

LEMMA Effects ==
    ASSUME TypeOK, [Next]_vars
    PROVE  Effect /\ Duplicated \subseteq Duplicated' /\ config' = config
<1> USE DEF NoKill, AtNoCost, ForAFault, SameSet, Same
<1>0. ASSUME NEW a \in Deliveries
      PROVE  a \in Holding <=> task[a].pc \in {"holding", "releasing"}
  BY DEF Holding
<1>1. ASSUME NEW a \in Deliveries, Work(a)
      PROVE  Effect /\ Duplicated \subseteq Duplicated' /\ config' = config
  <2>1. CASE Start(a)
    <3>1. \E pc \in {"done", "checked"} : Moves(a, pc)
      BY <2>1, BecomeMoves DEF Start, PCs
    <3>2. Nothing /\ Duplicated \subseteq Duplicated'
      BY <1>0, <2>1, <3>1, IdleMoves DEF Start, At, Nothing, PCs
    <3> QED
      BY <2>1, <3>2 DEF Start, At, Effect
  <2>2. CASE EnterUnbounded(a)
    <3>1. Moves(a, "bypassing")
      BY <2>2, BecomeMoves DEF EnterUnbounded, PCs
    <3>2. Nothing /\ Duplicated \subseteq Duplicated'
      BY <1>0, <2>2, <3>1, IdleMoves DEF EnterUnbounded, At, Nothing, PCs
    <3> QED
      BY <2>2, <3>2 DEF EnterUnbounded, At, Effect
  <2>3. CASE Acquire(a)
    <3>1. Moves(a, "holding")
      BY <2>3, BecomeMoves DEF Acquire, PCs
    <3>2. task'[a].held \in Nat
      BY <3>1 DEF Moves, Task
    <3>3. Takes(a) /\ Duplicated \subseteq Duplicated'
      BY <2>3, <3>1, <3>2, HoldingMoves DEF Acquire, Enter, At, Takes, Room, PCs
    <3> QED
      BY <2>3, <3>3 DEF Acquire, At, Effect
  <2>4. CASE Refuse(a)
    <3>1. \E pc \in {"waiting", "failed"} : Moves(a, pc)
      BY <2>4, RetryMoves, SemaphoreAssumption DEF Refuse
    <3>2. Nothing /\ Duplicated \subseteq Duplicated'
      BY <1>0, <2>4, <3>1, IdleMoves DEF Refuse, At, Nothing, PCs
    <3> QED
      BY <2>4, <3>2 DEF Refuse, At, Effect
  <2>5. CASE Finish(a)
    <3>1. CASE task[a].pc = "holding"
      <4>1. Moves(a, "releasing")
        BY <2>5, <3>1, BecomeMoves DEF Finish, PCs
      <4>2. Nothing /\ Duplicated \subseteq Duplicated'
        BY <1>0, <2>5, <3>1, <4>1, HoldingMoves DEF Finish, Nothing, PCs
      <4> QED
        BY <2>5, <4>2 DEF Finish, Effect
    <3>2. CASE task[a].pc = "bypassing"
      <4>1. Moves(a, "done")
        BY <2>5, <3>2, BecomeMoves DEF Finish, PCs
      <4>2. Nothing /\ Duplicated \subseteq Duplicated'
        BY <1>0, <2>5, <3>2, <4>1, IdleMoves DEF Finish, Nothing, PCs
      <4> QED
        BY <2>5, <4>2 DEF Finish, Effect
    <3> QED
      BY <2>5, <3>1, <3>2 DEF Finish, Running
  <2>6. CASE Release(a)
    <3>1. Moves(a, "done")
      BY <2>6, BecomeMoves DEF Release, PCs
    <3>2. Releases(a) /\ Duplicated \subseteq Duplicated'
      BY <1>0, <2>6, <3>1, HoldingMoves DEF Release, Leave, At, Releases, PCs
    <3> QED
      BY <2>6, <3>2 DEF Release, At, Effect
  <2>7. CASE HardLimit(a)
    <3>1. Moves(a, "done")
      BY <2>7, BecomeMoves DEF HardLimit, PCs
    <3>2. history'.killed = history.killed \cup {Rec(a)}
      BY <2>7 DEF HardLimit, TypeOK
    <3>3. CASE a \in Holding
      BY <2>7, <3>1, <3>2, <3>3, HoldingMoves DEF HardLimit, Abandons, Effect, PCs
    <3>4. CASE a \notin Holding
      BY <2>7, <3>1, <3>2, <3>4, IdleMoves DEF HardLimit, KillsBypassing, Effect, PCs
    <3> QED
      BY <3>3, <3>4
  <2> QED
    BY <1>1, <2>1, <2>2, <2>3, <2>4, <2>5, <2>6, <2>7 DEF Work
<1>2. ASSUME Fault PROVE Effect /\ Duplicated \subseteq Duplicated' /\ config' = config
  <2>1. ASSUME NEW a \in Deliveries, task[a].pc = "checked", WithoutRedis(a)
        PROVE  /\ Holding' = Holding /\ \A b \in Holding : Same(b)
               /\ Duplicated \subseteq Duplicated' /\ config' = config
    <3>1. \E pc \in {"bypassing", "waiting", "failed"} : Moves(a, pc)
      BY <2>1, BecomeMoves, RetryMoves, SemaphoreAssumption DEF WithoutRedis, PCs
    <3> QED
      BY <1>0, <2>1, <3>1, IdleMoves DEF WithoutRedis, PCs
  <2>2. ASSUME NEW a \in Deliveries, RedisError(a)
        PROVE  Effect /\ Duplicated \subseteq Duplicated' /\ config' = config
    <3>1. history'.killed = history.killed
      BY <2>2 DEF RedisError, TypeOK
    <3> QED
      BY <2>1, <2>2, <3>1 DEF RedisError, UseFault, Nothing, Effect
  <2>3. ASSUME NEW a \in Deliveries, AcquireAmbiguous(a)
        PROVE  Effect /\ Duplicated \subseteq Duplicated' /\ config' = config
    <3>1. history'.killed = history.killed
      BY <2>3 DEF AcquireAmbiguous, TypeOK
    <3>2. TakesUnaware(a)
      BY <2>1, <2>3, <3>1 DEF AcquireAmbiguous, Enter, Room, UseFault, TakesUnaware
    <3> QED
      BY <2>1, <2>3, <3>2 DEF AcquireAmbiguous, Effect
  <2>4. ASSUME NEW a \in Deliveries, ReleaseFails(a)
        PROVE  Effect /\ Duplicated \subseteq Duplicated' /\ config' = config
    <3>1. Moves(a, "done")
      BY <2>4, BecomeMoves DEF ReleaseFails, PCs
    <3>2. Abandons(a) /\ Duplicated \subseteq Duplicated'
      BY <1>0, <2>4, <3>1, HoldingMoves DEF ReleaseFails, At, UseFault, Abandons, PCs
    <3> QED
      BY <2>4, <3>2 DEF ReleaseFails, At, Effect
  <2>5. ASSUME NEW a \in Deliveries, Crash(a)
        PROVE  Effect /\ Duplicated \subseteq Duplicated' /\ config' = config
    <3>1. Moves(a, "queued")
      BY <2>5, BecomeMoves DEF Crash, PCs
    <3>2. CASE a \in Holding
      BY <2>5, <3>1, <3>2, HoldingMoves DEF Crash, UseFault, Abandons, Effect, PCs
    <3>3. CASE a \notin Holding
      BY <2>5, <3>1, <3>3, IdleMoves DEF Crash, UseFault, Nothing, Effect, PCs
    <3> QED
      BY <3>2, <3>3
  <2>6. ASSUME NEW r \in Records, Redeliver(r)
        PROVE  Effect /\ Duplicated \subseteq Duplicated' /\ config' = config
    <3>1. Moves(<<r, "second">>, "queued") /\ <<r, "second">> \in Deliveries
      <4>1. TypeOK'
        BY <1>2, TypeStep DEF Next
      <4> QED
        BY <2>6, <4>1, DeliveryFacts DEF Redeliver, Moves, TypeOK
    <3>2. task[<<r, "second">>].pc = "none"
      BY <2>6 DEF Redeliver, Duplicated
    <3>3. Nothing /\ Duplicated \subseteq Duplicated'
      BY <1>0, <2>6, <3>1, <3>2, IdleMoves DEF Redeliver, UseFault, Nothing, PCs
    <3> QED
      BY <2>6, <3>3 DEF Redeliver, Effect
  <2> QED
    BY <1>2, <2>2, <2>3, <2>4, <2>5, <2>6 DEF Fault
<1>3. ASSUME Tick PROVE Effect /\ Duplicated \subseteq Duplicated' /\ config' = config
  <2>1. ASSUME NEW a \in Deliveries
        PROVE  /\ a \in Holding' <=> a \in Holding
               /\ a \in Holding => task[a].held < HoldLimit /\ task'[a].held = task[a].held + 1
               /\ task[a].pc # "none" => task'[a].pc # "none"
    <3>0. /\ task[a] \in Task
          /\ task'[a] = CASE task[a].pc = "waiting" -> [task[a] EXCEPT !.pc = "queued"]
                          [] task[a].pc \in InProcess -> [task[a] EXCEPT !.held = @ + 1]
                          [] OTHER -> task[a]
          /\ task[a].pc \in InProcess => task[a].held < HoldLimit
      BY <1>3 DEF Tick, TypeOK
    <3>1. CASE task[a].pc = "waiting"
      <4>0. task'[a] = [task[a] EXCEPT !.pc = "queued"]
        BY <3>0, <3>1 DEF InProcess, Running
      <4>1. task'[a].pc = "queued"
        BY <3>0, <4>0 DEF Task
      <4> QED
        BY <3>1, <4>1 DEF Holding
    <3>2. CASE task[a].pc \in InProcess
      <4>1. task'[a] = [task[a] EXCEPT !.held = @ + 1]
        BY <3>0, <3>2 DEF InProcess, Running
      <4>2. task'[a].held = task[a].held + 1 /\ task'[a].pc = task[a].pc
        BY <3>0, <4>1 DEF Task
      <4> QED
        BY <3>0, <3>2, <4>2 DEF Holding
    <3>3. CASE task[a].pc # "waiting" /\ task[a].pc \notin InProcess
      <4>1. task'[a] = task[a]
        BY <3>0, <3>3
      <4> QED
        BY <3>3, <4>1 DEF Holding, InProcess, Running
    <3> QED
      BY <3>1, <3>2, <3>3
  <2>2. Holding' = Holding
    BY <2>1 DEF Holding
  <2>3. Passes
    BY <1>3, <2>1, <2>2 DEF Tick, Passes, Holding
  <2>4. Duplicated \subseteq Duplicated'
    BY <2>1, DeliveryFacts DEF Duplicated
  <2> QED
    BY <1>3, <2>3, <2>4 DEF Tick, Effect
<1>4. CASE UNCHANGED vars
  BY <1>4 DEF vars, Effect, Nothing, Holding, Duplicated
<1> QED
  BY <1>1, <1>2, <1>3, <1>4 DEF Next

-----------------------------------------------------------------------------
(* The inductive invariant. *)

\* A holder's slot is at least as young as the holder: the set cannot expire
\* under it before it reaches the hard limit.
KeepsTime == \A a \in Holding : Rec(a) \in slots => age <= task[a].held

\* As long as both deliveries of a record hold, the member they share is there:
\* the one that leaves first takes it away.
SharedMember == \A r \in Records :
                   <<r, "first">> \in Holding /\ <<r, "second">> \in Holding => r \in slots

\* The set never has more members than slots.
WithinBound == Cardinality(slots) <= config.slots

\* The members without a holder that no hard kill explains are paid for by faults.
Suspects == {r \in slots : \A a \in Deliveries : Rec(a) = r => a \notin Holding}
PaidFor  == Cardinality(Suspects \ history.killed) <= faults

IInv == TypeOK /\ KeepsTime /\ SharedMember /\ HolderKeepsSlot /\ WithinBound /\ PaidFor

LEMMA Finiteness ==
    ASSUME TypeOK
    PROVE  /\ IsFiniteSet(slots) /\ IsFiniteSet(Suspects \ history.killed)
           /\ IsFiniteSet(history.killed) /\ IsFiniteSet(Duplicated) /\ IsFiniteSet(Holding)
           /\ config.slots \in Nat /\ faults \in Nat /\ age \in Nat
           /\ \A a \in Holding : a \in Deliveries /\ task[a].held \in Nat
<1>1. \A S \in SUBSET Records : IsFiniteSet(S)
  BY FS_Subset, SemaphoreAssumption
<1>2. Suspects \ history.killed \subseteq Records /\ Duplicated \subseteq Records
  BY DEF Suspects, Duplicated, TypeOK
<1>3. IsFiniteSet(Deliveries)
  BY DeliveriesAreFinite
<1>4. IsFiniteSet(Holding)
  BY <1>3, FS_Subset DEF Holding
<1>5. \A a \in Holding : a \in Deliveries /\ task[a].held \in Nat
  BY SemaphoreAssumption DEF Holding, TypeOK, Task
<1>6. config.slots \in Nat /\ faults \in Nat /\ age \in Nat
  BY SemaphoreAssumption DEF TypeOK
<1>7. slots \in SUBSET Records /\ history.killed \in SUBSET Records
  BY DEF TypeOK
<1> QED
  BY <1>1, <1>2, <1>4, <1>5, <1>6, <1>7

LEMMA InitInvariant == Init => IInv
<1> SUFFICES ASSUME Init PROVE IInv
  OBVIOUS
<1>1. config \in Configs /\ config.slots \in Nat
  BY SemaphoreAssumption DEF Init
<1>2. TypeOK
  <2>1. NoTask \in Task /\ [NoTask EXCEPT !.pc = "queued"] \in Task
    BY SemaphoreAssumption DEF NoTask, Task
  <2>2. task \in [Deliveries -> Task]
    BY <2>1 DEF Init
  <2> QED
    BY <1>1, <2>2, SemaphoreAssumption DEF Init, TypeOK
<1>3. Holding = {}
  BY DEF Init, Holding, NoTask
<1>4. Cardinality(slots) = 0 /\ Cardinality(Suspects \ history.killed) = 0
  <2>1. slots = {} /\ Suspects \ history.killed = {}
    BY DEF Init, Suspects
  <2> QED
    BY <2>1, FS_EmptySet
<1> QED
  BY <1>1, <1>2, <1>3, <1>4
  DEF Init, IInv, KeepsTime, SharedMember, HolderKeepsSlot, WithinBound, PaidFor

\* Ages: an acquisition restarts the clock of all, and all grow older together.
LEMMA TimeStep == ASSUME IInv, [Next]_vars PROVE KeepsTime'
<1> USE DEF Same, SameSet
<1>1. TypeOK /\ TypeOK' /\ Effect
  BY Effects, TypeStep DEF IInv
<1>2. \A a \in Holding : task[a].held \in Nat
  BY <1>1, Finiteness
<1>3. \A a \in Holding' : task'[a].held \in Nat
  BY <1>1, SemaphoreAssumption DEF Holding, TypeOK, Task
<1>4. age \in Nat
  BY <1>1, Finiteness
<1>5. CASE Nothing \/ KillsBypassing
  BY <1>5 DEF IInv, KeepsTime, Nothing, KillsBypassing
<1>6. CASE Passes
  BY <1>2, <1>4, <1>6 DEF IInv, KeepsTime, Passes, Expire
<1>7. ASSUME NEW a \in Deliveries, Takes(a) \/ TakesUnaware(a) PROVE KeepsTime'
  BY <1>3, <1>7 DEF KeepsTime, Takes, TakesUnaware
<1>8. ASSUME NEW a \in Deliveries, Abandons(a) PROVE KeepsTime'
  BY <1>8 DEF IInv, KeepsTime, Abandons
<1>9. ASSUME NEW a \in Deliveries, Releases(a) PROVE KeepsTime'
  BY <1>3, <1>9 DEF IInv, KeepsTime, Releases
<1> QED
  BY <1>1, <1>5, <1>6, <1>7, <1>8, <1>9 DEF Effect

\* Time does not take a member away from under a delivery that holds it.
LEMMA NoExpiryUnderHolder ==
    ASSUME IInv, Passes, NEW a \in Holding, Rec(a) \in slots
    PROVE  slots' = slots
<1>1. age <= task[a].held /\ task[a].held < HoldLimit
  BY DEF IInv, KeepsTime, Passes
<1>2. age \in Nat /\ task[a].held \in Nat
  BY Finiteness DEF IInv
<1>3. age # TTL
  BY <1>1, <1>2, SemaphoreAssumption
<1> QED
  BY <1>3 DEF Passes, Expire

LEMMA SlotStep == ASSUME IInv, [Next]_vars PROVE SharedMember' /\ HolderKeepsSlot'
<1> USE DEF SameSet
<1>1. Effect /\ Duplicated \subseteq Duplicated'
  BY Effects DEF IInv
<1>2. CASE Holding' \subseteq Holding /\ slots \subseteq slots'
  BY <1>1, <1>2 DEF IInv, SharedMember, HolderKeepsSlot
<1>3. CASE Passes
  <2>1. \A a \in Holding : Rec(a) \in slots => Rec(a) \in slots'
    BY <1>3, NoExpiryUnderHolder
  <2>2. \A r \in Records : <<r, "first">> \in Holding /\ r \in slots => r \in slots'
    BY <2>1, DeliveryFacts
  <2> QED
    BY <1>1, <1>3, <2>1, <2>2 DEF IInv, SharedMember, HolderKeepsSlot, Passes
<1>4. ASSUME NEW a \in Deliveries, Takes(a) PROVE SharedMember' /\ HolderKeepsSlot'
  <2>1. HolderKeepsSlot'
    BY <1>1, <1>4 DEF IInv, HolderKeepsSlot, Takes
  <2>2. ASSUME NEW r \in Records, <<r, "first">> \in Holding', <<r, "second">> \in Holding'
        PROVE  r \in slots'
    BY <1>4, <2>2, DeliveryFacts DEF IInv, SharedMember, Takes
  <2> QED
    BY <2>1, <2>2 DEF SharedMember
<1>5. ASSUME NEW a \in Deliveries, Releases(a) PROVE SharedMember' /\ HolderKeepsSlot'
  <2>1. \A b \in Holding' : b \in Holding /\ b # a /\ b \in Deliveries
    BY <1>5 DEF Releases, Holding
  <2>2. ASSUME NEW r \in Records, <<r, "first">> \in Holding', <<r, "second">> \in Holding'
        PROVE  r \in slots'
    <3>1. r # Rec(a)
      BY <2>1, <2>2, DeliveryFacts
    <3> QED
      BY <1>5, <2>1, <2>2, <3>1 DEF IInv, SharedMember, Releases
  <2>3. ASSUME NEW b \in Holding', Rec(b) = Rec(a) PROVE Rec(b) \in Duplicated
    <3>1. a \in Holding /\ b \in Holding /\ a \in Deliveries /\ b \in Deliveries /\ a # b
      BY <1>5, <2>1 DEF Releases
    <3>2. <<Rec(b), "second">> \in Holding
      BY <2>3, <3>1, DeliveryFacts
    <3> QED
      BY <3>1, <3>2, DeliveryFacts DEF Holding, Duplicated
  <2>4. HolderKeepsSlot'
    BY <1>1, <1>5, <2>1, <2>3 DEF IInv, HolderKeepsSlot, Releases
  <2> QED
    BY <2>2, <2>4 DEF SharedMember
<1> QED
  BY <1>1, <1>2, <1>3, <1>4, <1>5 DEF Effect, Nothing, KillsBypassing, TakesUnaware, Abandons

LEMMA BoundStep == ASSUME IInv, [Next]_vars PROVE WithinBound'
<1> USE DEF SameSet
<1>1. Effect /\ config' = config /\ IsFiniteSet(slots) /\ config.slots \in Nat
  BY Effects, Finiteness DEF IInv
<1>2. Cardinality(slots) \in Nat /\ Cardinality(slots) <= config.slots
  BY <1>1, FS_CardinalityType DEF IInv, WithinBound
<1>3. CASE slots' = slots
  BY <1>1, <1>3 DEF IInv, WithinBound
<1>4. CASE slots' = {}
  BY <1>1, <1>4, FS_EmptySet DEF WithinBound
<1>5. ASSUME NEW a, slots' = slots \cup {Rec(a)}, Room(a) PROVE WithinBound'
  <2>1. Cardinality(slots') = IF Rec(a) \in slots THEN Cardinality(slots) ELSE Cardinality(slots) + 1
    BY <1>1, <1>5, FS_AddElement
  <2> QED
    BY <1>1, <1>2, <1>5, <2>1 DEF WithinBound, Room, MayEnter
<1>6. ASSUME NEW a, slots' = slots \ {Rec(a)} PROVE WithinBound'
  <2>1. Cardinality(slots') <= Cardinality(slots)
    <3>1. slots \ {Rec(a)} \in SUBSET slots
      OBVIOUS
    <3> QED
      BY <1>1, <1>6, <3>1, FS_Subset
  <2>2. Cardinality(slots') \in Nat
    <3>1. IsFiniteSet(slots \ {Rec(a)})
      BY <1>1, FS_RemoveElement
    <3> QED
      BY <1>6, <3>1, FS_CardinalityType
  <2> QED
    BY <1>1, <1>2, <2>1, <2>2 DEF WithinBound
<1> QED
  BY <1>1, <1>3, <1>4, <1>5, <1>6
  DEF Effect, Nothing, KillsBypassing, Passes, Expire, Takes, TakesUnaware, Abandons, Releases

\* The suspects that are not killed grow by one record at most, at the cost of a fault.
LEMMA PaidStep == ASSUME IInv, [Next]_vars PROVE PaidFor'
<1> DEFINE Due == Suspects \ history.killed
<1> USE DEF SameSet, NoKill, AtNoCost, ForAFault
<1>1. TypeOK /\ TypeOK' /\ Effect
  BY Effects, TypeStep DEF IInv
<1>2. IsFiniteSet(Due) /\ IsFiniteSet(Due') /\ faults \in Nat
  <2>1. IsFiniteSet(Due) /\ faults \in Nat
    BY <1>1, Finiteness
  <2>2. Due' \subseteq Records
    BY <1>1 DEF Suspects, TypeOK
  <2> QED
    BY <2>1, <2>2, FS_Subset, SemaphoreAssumption
<1>3. Cardinality(Due) \in Nat /\ Cardinality(Due') \in Nat /\ Cardinality(Due) <= faults
  BY <1>2, FS_CardinalityType DEF IInv, PaidFor
<1>4. CASE Due' \subseteq Due /\ faults' \in {faults, faults + 1}
  <2>1. Cardinality(Due') <= Cardinality(Due)
    BY <1>2, <1>4, FS_Subset
  <2> QED
    BY <1>2, <1>3, <1>4, <2>1 DEF PaidFor
<1>5. ASSUME NEW r, Due' \subseteq Due \cup {r}, faults' = faults + 1 PROVE PaidFor'
  <2>1. IsFiniteSet(Due \cup {r}) /\ Cardinality(Due \cup {r}) <= Cardinality(Due) + 1
    <3>1. /\ IsFiniteSet(Due \cup {r})
          /\ Cardinality(Due \cup {r}) = IF r \in Due THEN Cardinality(Due) ELSE Cardinality(Due) + 1
      BY <1>2, FS_AddElement
    <3> HIDE DEF Due
    <3> QED
      BY <1>3, <3>1
  <2>2. Cardinality(Due') <= Cardinality(Due \cup {r})
    BY <1>5, <2>1, FS_Subset
  <2>3. Cardinality(Due \cup {r}) \in Nat
    BY <2>1, FS_CardinalityType
  <2> QED
    BY <1>2, <1>3, <1>5, <2>1, <2>2, <2>3 DEF PaidFor
<1>6. CASE Nothing \/ KillsBypassing
  <2>1. Due' \subseteq Due
    BY <1>6 DEF Nothing, KillsBypassing, Suspects
  <2> QED
    BY <1>4, <1>6, <2>1 DEF Nothing, KillsBypassing
<1>7. CASE Passes
  <2>1. Due' \subseteq Due
    BY <1>7 DEF Passes, Expire, Suspects
  <2> QED
    BY <1>4, <1>7, <2>1 DEF Passes
<1>8. ASSUME NEW a \in Deliveries, Takes(a) PROVE PaidFor'
  <2>1. Due' \subseteq Due
    BY <1>8 DEF Takes, Suspects
  <2> QED
    BY <1>4, <1>8, <2>1 DEF Takes
<1>9. ASSUME NEW a \in Deliveries, TakesUnaware(a) PROVE PaidFor'
  <2>1. Due' \subseteq Due \cup {Rec(a)}
    BY <1>9 DEF TakesUnaware, Suspects
  <2> QED
    BY <1>5, <1>9, <2>1 DEF TakesUnaware
<1>10. ASSUME NEW a \in Deliveries, Abandons(a) PROVE PaidFor'
  <2>1. Suspects' \subseteq Suspects \cup {Rec(a)}
    BY <1>10 DEF Abandons, Suspects
  <2>2. CASE ForAFault
    BY <1>5, <2>1, <2>2
  <2>3. CASE faults' = faults /\ history'.killed = history.killed \cup {Rec(a)}
    BY <1>4, <2>1, <2>3
  <2> QED
    BY <1>10, <2>2, <2>3 DEF Abandons
<1>11. ASSUME NEW a \in Deliveries, Releases(a) PROVE PaidFor'
  <2>1. Due' \subseteq Due
    BY <1>11 DEF Releases, Suspects
  <2> QED
    BY <1>4, <1>11, <2>1 DEF Releases
<1> QED
  BY <1>1, <1>6, <1>7, <1>8, <1>9, <1>10, <1>11 DEF Effect

LEMMA InvariantStep == IInv /\ [Next]_vars => IInv'
BY TypeStep, TimeStep, SlotStep, BoundStep, PaidStep DEF IInv

LEMMA InvariantHolds == Spec => []IInv
BY InitInvariant, InvariantStep, PTL DEF Spec

-----------------------------------------------------------------------------
(* The theorems. *)

\* Every variable keeps its type, ages and holding times their bounds.
THEOREM SemaphoreTypeCorrect == Spec => []TypeOK
<1>1. IInv => TypeOK
  BY DEF IInv
<1> QED
  BY <1>1, InvariantHolds, PTL

\* A running backup loses its slot only to a duplicate delivery of its own record.
THEOREM HoldersKeepTheirSlots == Spec => []HolderKeepsSlot
<1>1. IInv => HolderKeepsSlot
  BY DEF IInv
<1> QED
  BY <1>1, InvariantHolds, PTL

\* The holders that stand in the set are at most one per member, and the others
\* at most one per duplicated record.
LEMMA BoundFollows == IInv => AdmissionBound
<1> SUFFICES ASSUME IInv PROVE AdmissionBound
  OBVIOUS
<1> DEFINE F == {a \in Holding : Rec(a) \in slots /\ (a = <<Rec(a), "first">>
                                                        \/ <<Rec(a), "first">> \notin Holding)}
           G == Holding \ F
           f == [a \in F |-> Rec(a)]
           g == [a \in G |-> Rec(a)]
<1>1. TypeOK /\ HolderKeepsSlot /\ SharedMember /\ WithinBound
  BY DEF IInv
<1>2. IsFiniteSet(slots) /\ IsFiniteSet(Duplicated) /\ config.slots \in Nat
  BY <1>1, Finiteness
<1>3. \A a \in Holding : a \in Deliveries
  BY DEF Holding
<1>4. f \in Injection(F, slots)
  <2>1. ASSUME NEW a \in F, NEW b \in F, Rec(a) = Rec(b) PROVE a = b
    BY <1>3, <2>1, DeliveryFacts
  <2> QED
    BY <2>1 DEF Injection, IsInjective
<1>5. g \in Injection(G, Duplicated)
  <2>1. ASSUME NEW a \in G PROVE Rec(a) \in Duplicated
    <3>1. CASE Rec(a) \notin slots
      BY <1>1, <3>1 DEF HolderKeepsSlot
    <3>2. CASE Rec(a) \in slots
      BY <1>3, <3>2, DeliveryFacts DEF Duplicated, Holding
    <3> QED
      BY <3>1, <3>2
  <2>2. ASSUME NEW a \in G, NEW b \in G, Rec(a) = Rec(b) PROVE a = b
    BY <1>1, <1>3, <2>2, DeliveryFacts DEF SharedMember
  <2> QED
    BY <2>1, <2>2 DEF Injection, IsInjective
<1>6. IsFiniteSet(F) /\ Cardinality(F) <= Cardinality(slots)
  BY <1>2, <1>4, FS_Injection
<1>7. IsFiniteSet(G) /\ Cardinality(G) <= Cardinality(Duplicated)
  BY <1>2, <1>5, FS_Injection
<1>8. Cardinality(Holding) = Cardinality(F) + Cardinality(G)
  <2>1. Holding = F \cup G /\ F \cap G = {}
    OBVIOUS
  <2>2. Cardinality(F \cup G) = Cardinality(F) + Cardinality(G) - Cardinality(F \cap G)
    BY <1>6, <1>7, FS_Union
  <2>3. Cardinality(F \cap G) = 0
    BY <2>1, FS_EmptySet
  <2>4. Cardinality(F) \in Nat /\ Cardinality(G) \in Nat
    BY <1>6, <1>7, FS_CardinalityType
  <2> HIDE DEF F, G
  <2> QED
    BY <2>1, <2>2, <2>3, <2>4
<1>9. /\ Cardinality(F) \in Nat /\ Cardinality(G) \in Nat
      /\ Cardinality(slots) \in Nat /\ Cardinality(Duplicated) \in Nat
  BY <1>2, <1>6, <1>7, FS_CardinalityType
<1> QED
  BY <1>1, <1>2, <1>6, <1>7, <1>8, <1>9 DEF WithinBound, AdmissionBound

\* At most one backup per slot runs, and one more per record delivered twice.
THEOREM ConcurrencyIsBounded == Spec => []AdmissionBound
BY BoundFollows, InvariantHolds, PTL

\* Slots nobody will release are at most as many as faults and killed records.
THEOREM FaultsCostOneSlot == Spec => []FaultCostsOneSlot
<1>1. IInv => FaultCostsOneSlot
  <2> SUFFICES ASSUME IInv PROVE FaultCostsOneSlot
    OBVIOUS
  <2> DEFINE Due == Suspects \ history.killed
  <2>1. IsFiniteSet(Due) /\ IsFiniteSet(history.killed) /\ faults \in Nat
    BY Finiteness DEF IInv
  <2>2. LeftBehind \subseteq Due \cup history.killed
    BY DEF LeftBehind, Suspects, Holding
  <2>3. Cardinality(Due) \in Nat /\ Cardinality(history.killed) \in Nat
    BY <2>1, FS_CardinalityType
  <2>4. /\ IsFiniteSet(Due \cup history.killed)
        /\ Cardinality(Due \cup history.killed) <= Cardinality(Due) + Cardinality(history.killed)
    <3>1. IsFiniteSet(Due \cap history.killed)
      BY <2>1, FS_Intersection
    <3>2. Cardinality(Due \cap history.killed) \in Nat
      BY <3>1, FS_CardinalityType
    <3>3. /\ IsFiniteSet(Due \cup history.killed)
          /\ Cardinality(Due \cup history.killed)
               = Cardinality(Due) + Cardinality(history.killed) - Cardinality(Due \cap history.killed)
      BY <2>1, FS_Union
    <3> HIDE DEF Due
    <3> QED
      BY <2>3, <3>2, <3>3
  <2>5. Cardinality(LeftBehind) <= Cardinality(Due \cup history.killed) /\ IsFiniteSet(LeftBehind)
    BY <2>2, <2>4, FS_Subset
  <2>6. Cardinality(LeftBehind) \in Nat /\ Cardinality(Due \cup history.killed) \in Nat
    BY <2>4, <2>5, FS_CardinalityType
  <2>7. Cardinality(Due) <= faults
    BY DEF IInv, PaidFor
  <2> QED
    BY <2>1, <2>3, <2>4, <2>5, <2>6, <2>7 DEF FaultCostsOneSlot
<1> QED
  BY <1>1, InvariantHolds, PTL

-----------------------------------------------------------------------------
(* Retries and the time for which the semaphore can be full.  An            *)
(* acquisition uses up one delivery that is still to come, and a fault      *)
(* brings back one at most, so there is a bound on how often the set's time *)
(* to live is restarted, and with it on the ticks at which it has members.  *)
(* A delivery that is refused waits for the next tick.                      *)

\* Deliveries that may still acquire a slot.
Coming == {a \in Deliveries : task[a].pc \in {"queued", "checked", "waiting"}}

\* How many acquisitions and faults are still possible, at most, and the ticks
\* before a set that nobody enters is gone.
ChancesOf(coming, used) == Cardinality(coming) + 2 * (MaxFaults - used)
Lifetime                == TTL + 1
LeftOf(members, time)   == IF members = {} THEN 0 ELSE Lifetime - time

\* The ticks at which the set can still have members.
FullTimeOf(coming, used, members, time) ==
    ChancesOf(coming, used) * Lifetime + LeftOf(members, time)

FullTime   == FullTimeOf(Coming, faults, slots, age)
AtTheStart == (Cardinality(Records) + 2 * MaxFaults) * Lifetime

\* A delivery was retried at most once for each tick at which the set had members;
\* one that was refused and waits has used the present tick.
Paid(retries, time, grace) == retries + time <= AtTheStart + grace
Grace(a)        == IF task[a].pc = "waiting" /\ slots # {} THEN 1 ELSE 0
RetriesTakeTime == \A a \in Deliveries : Paid(task[a].retries, FullTime, Grace(a))

\* A move changes one delivery.
LEMMA ComingMoves ==
    ASSUME NEW a \in Deliveries, NEW pc, Moves(a, pc)
    PROVE  /\ pc \in {"queued", "checked", "waiting"} => Coming' = Coming \cup {a}
           /\ pc \notin {"queued", "checked", "waiting"} => Coming' = Coming \ {a}
BY DEF Moves, Coming

LEMMA LeftFacts ==
    ASSUME NEW members, NEW time \in 0..TTL
    PROVE  /\ Lifetime \in Nat /\ LeftOf(members, time) \in Nat /\ LeftOf(members, time) <= Lifetime
           /\ members # {} => LeftOf(members, time) >= 1
           /\ LeftOf({}, time) = 0
BY SemaphoreAssumption DEF LeftOf, Lifetime

\* More chances last longer.
LEMMA Lasting ==
    ASSUME NEW c \in Nat, NEW d \in Nat
    PROVE  /\ c * Lifetime \in Nat
           /\ d <= c => d * Lifetime <= c * Lifetime
           /\ d + 1 <= c => d * Lifetime + Lifetime <= c * Lifetime
           /\ d + 2 <= c => d * Lifetime + 2 * Lifetime <= c * Lifetime
<1>1. Lifetime \in Nat
  BY SemaphoreAssumption DEF Lifetime
<1>2. ASSUME NEW k \in Nat, d + k <= c PROVE d * Lifetime + k * Lifetime <= c * Lifetime
  <2>1. PICK e \in Nat : c = d + k + e
    <3>1. c - (d + k) \in Nat /\ c = d + k + (c - (d + k))
      BY <1>2
    <3> QED
      BY <3>1
  <2>2. c * Lifetime = d * Lifetime + k * Lifetime + e * Lifetime
    BY <1>1, <2>1
  <2>3. e * Lifetime \in Nat /\ d * Lifetime \in Nat /\ k * Lifetime \in Nat
    BY <1>1
  <2> QED
    BY <2>2, <2>3
<1>3. 0 * Lifetime = 0 /\ 1 * Lifetime = Lifetime
  BY <1>1
<1>4. c * Lifetime \in Nat /\ d * Lifetime \in Nat
  BY <1>1
<1>5. d <= c => d * Lifetime <= c * Lifetime
  BY <1>2, <1>3, <1>4
<1>6. d + 1 <= c => d * Lifetime + Lifetime <= c * Lifetime
  BY <1>2, <1>3
<1> QED
  BY <1>2, <1>4, <1>5, <1>6

\* How the chances change with the deliveries to come and the faults.
LEMMA ChancesChange ==
    ASSUME NEW A \in SUBSET Deliveries, NEW B \in SUBSET Deliveries,
           NEW f \in 0..MaxFaults, NEW g \in 0..MaxFaults
    PROVE  /\ ChancesOf(A, f) \in Nat /\ ChancesOf(B, g) \in Nat
           /\ B \subseteq A /\ g = f => ChancesOf(B, g) <= ChancesOf(A, f)
           /\ B \subseteq A /\ g = f + 1 => ChancesOf(B, g) + 2 <= ChancesOf(A, f)
           /\ \A a : B \subseteq A \cup {a} /\ g = f + 1 => ChancesOf(B, g) + 1 <= ChancesOf(A, f)
           /\ \A a \in A : B \subseteq A \ {a} /\ g = f => ChancesOf(B, g) + 1 <= ChancesOf(A, f)
<1> DEFINE C == Cardinality(A)
           D == Cardinality(B)
<1>1. C \in Nat /\ D \in Nat /\ IsFiniteSet(A) /\ IsFiniteSet(B)
  BY DeliveriesAreFinite, FS_Subset, FS_CardinalityType
<1>2. MaxFaults \in Nat /\ ChancesOf(A, f) = C + 2 * (MaxFaults - f)
      /\ ChancesOf(B, g) = D + 2 * (MaxFaults - g)
  BY SemaphoreAssumption DEF ChancesOf
<1>3. ASSUME NEW a, B \subseteq A \cup {a} PROVE D <= C + 1
  <2>1. /\ IsFiniteSet(A \cup {a})
        /\ Cardinality(A \cup {a}) = IF a \in A THEN C ELSE C + 1
    BY <1>1, FS_AddElement
  <2>2. D <= Cardinality(A \cup {a})
    BY <1>3, <2>1, FS_Subset
  <2> HIDE DEF C, D
  <2> QED
    BY <1>1, <2>1, <2>2
<1>4. B \subseteq A => D <= C
  BY <1>1, FS_Subset
<1>5. ASSUME NEW a \in A, B \subseteq A \ {a} PROVE D + 1 <= C
  <2>1. IsFiniteSet(A \ {a}) /\ Cardinality(A \ {a}) = C - 1
    BY <1>1, FS_RemoveElement
  <2>2. D <= Cardinality(A \ {a})
    BY <1>5, <2>1, FS_Subset
  <2> HIDE DEF C, D
  <2> QED
    BY <1>1, <2>1, <2>2
<1>6. C \in Nat /\ D \in Nat
  BY <1>1
<1> HIDE DEF C, D
<1>7. ChancesOf(A, f) \in Nat /\ ChancesOf(B, g) \in Nat
  BY <1>2, <1>6
<1>8. ASSUME NEW a, B \subseteq A \cup {a}, g = f + 1 PROVE ChancesOf(B, g) + 1 <= ChancesOf(A, f)
  BY <1>2, <1>3, <1>6, <1>8
<1>9. ASSUME NEW a \in A, B \subseteq A \ {a}, g = f PROVE ChancesOf(B, g) + 1 <= ChancesOf(A, f)
  BY <1>2, <1>5, <1>6, <1>9
<1>10. B \subseteq A /\ g = f => ChancesOf(B, g) <= ChancesOf(A, f)
  BY <1>2, <1>4, <1>6
<1>11. B \subseteq A /\ g = f + 1 => ChancesOf(B, g) + 2 <= ChancesOf(A, f)
  BY <1>2, <1>4, <1>6
<1> QED
  BY <1>7, <1>8, <1>9, <1>10, <1>11

\* Nothing restarts the clock for good: an acquisition pays with a chance, a fault
\* with one or two, and what else happens leaves less time or the same.
LEMMA FullTimeChange ==
    ASSUME NEW A \in SUBSET Deliveries, NEW B \in SUBSET Deliveries,
           NEW f \in 0..MaxFaults, NEW g \in 0..MaxFaults, NEW m, NEW n, NEW t \in 0..TTL, NEW u \in 0..TTL
    PROVE  LET before == FullTimeOf(A, f, m, t)
               after  == FullTimeOf(B, g, n, u)
           IN  /\ before \in Nat /\ after \in Nat
               /\ B \subseteq A /\ g = f /\ n = m /\ u = t => after <= before
               /\ B \subseteq A /\ g = f /\ n = {} => after <= before
               /\ B \subseteq A /\ g = f /\ n # {} /\ m # {} /\ u = t => after <= before
               /\ B \subseteq A /\ g = f /\ m # {} /\ (n = {} \/ (n = m /\ u = t + 1)) => after < before
               /\ \A a \in A : B \subseteq A \ {a} /\ g = f => after <= before
               /\ B \subseteq A /\ g = f + 1 => after < before
               /\ \A a : B \subseteq A \cup {a} /\ g = f + 1 /\ n = m /\ u = t => after < before
<1> DEFINE c == ChancesOf(A, f)
           d == ChancesOf(B, g)
           x == c * Lifetime
           y == d * Lifetime
           v == LeftOf(m, t)
           w == LeftOf(n, u)
<1>1. c \in Nat /\ d \in Nat
  BY ChancesChange
<1>2. x \in Nat /\ y \in Nat
  <2> HIDE DEF c, d
  <2> QED
    BY <1>1, Lasting
<1>3. d <= c => y <= x
  <2> HIDE DEF c, d
  <2> QED
    BY <1>1, Lasting
<1>4. d + 1 <= c => y + Lifetime <= x
  <2> HIDE DEF c, d
  <2> QED
    BY <1>1, Lasting
<1>5. d + 2 <= c => y + 2 * Lifetime <= x
  <2> HIDE DEF c, d
  <2> QED
    BY <1>1, Lasting
<1>6. v \in Nat /\ w \in Nat /\ w <= Lifetime /\ Lifetime \in Nat /\ Lifetime >= 1
  BY LeftFacts, SemaphoreAssumption DEF Lifetime
<1>7. /\ n = m /\ u = t => w = v
      /\ n = {} => w = 0
      /\ n # {} /\ m # {} /\ u = t => w = v
      /\ m # {} /\ (n = {} \/ (n = m /\ u = t + 1)) => w < v
  BY SemaphoreAssumption DEF LeftOf, Lifetime
<1>8. /\ B \subseteq A /\ g = f => d <= c
      /\ \A a \in A : B \subseteq A \ {a} /\ g = f => d + 1 <= c
      /\ B \subseteq A /\ g = f + 1 => d + 2 <= c
      /\ \A a : B \subseteq A \cup {a} /\ g = f + 1 => d + 1 <= c
  BY ChancesChange
<1>9. FullTimeOf(A, f, m, t) = x + v /\ FullTimeOf(B, g, n, u) = y + w
  BY DEF FullTimeOf
<1> HIDE DEF c, d, x, y, v, w
<1>10. ASSUME NEW a \in A, B \subseteq A \ {a}, g = f PROVE y + w <= x + v
  BY <1>2, <1>4, <1>6, <1>8, <1>10
<1>11. ASSUME NEW a, B \subseteq A \cup {a}, g = f + 1, n = m, u = t PROVE y + w < x + v
  BY <1>2, <1>4, <1>6, <1>7, <1>8, <1>11
<1>12. B \subseteq A /\ g = f + 1 => y + w < x + v
  BY <1>2, <1>5, <1>6, <1>8
<1>13. B \subseteq A /\ g = f /\ w < v => y + w < x + v
  BY <1>2, <1>3, <1>6, <1>8
<1>14. B \subseteq A /\ g = f /\ w <= v => y + w <= x + v
  BY <1>2, <1>3, <1>6, <1>8
<1>15. x + v \in Nat /\ y + w \in Nat
  BY <1>2, <1>6
<1>16. /\ n = m /\ u = t => w <= v
       /\ n = {} => w <= v
       /\ n # {} /\ m # {} /\ u = t => w <= v
       /\ m # {} /\ (n = {} \/ (n = m /\ u = t + 1)) => w < v
  BY <1>6, <1>7
<1> QED
  BY <1>9, <1>10, <1>11, <1>12, <1>13, <1>14, <1>15, <1>16

LEMMA TimeRunsOut ==
    ASSUME TypeOK, TypeOK', [Next]_vars
    PROVE  /\ FullTime \in Nat /\ FullTime' \in Nat
           /\ FullTime' <= FullTime
           /\ faults' # faults => FullTime' < FullTime
           /\ slots # {} /\ (slots' = {} \/ Tick) => FullTime' < FullTime
<1> DEFINE Less    == FullTime' < FullTime
           NotMore == FullTime' <= FullTime
           Runs    == /\ NotMore
                      /\ faults' # faults => Less
                      /\ slots # {} /\ slots' = {} => Less
<1>1. /\ Coming \in SUBSET Deliveries /\ Coming' \in SUBSET Deliveries
      /\ faults \in 0..MaxFaults /\ faults' \in 0..MaxFaults /\ age \in 0..TTL /\ age' \in 0..TTL
  BY DEF TypeOK, Coming
<1>2. FullTime = FullTimeOf(Coming, faults, slots, age) /\ FullTime' = FullTimeOf(Coming', faults', slots', age')
  BY DEF FullTime
<1>3. \A x, y \in Nat : x < y => x <= y
  OBVIOUS
<1>4. /\ FullTime \in Nat /\ FullTime' \in Nat
      /\ Coming' \subseteq Coming /\ faults' = faults /\ slots' = slots /\ age' = age => NotMore
      /\ Coming' \subseteq Coming /\ faults' = faults /\ slots' = {} => NotMore
      /\ Coming' \subseteq Coming /\ faults' = faults /\ slots' # {} /\ slots # {} /\ age' = age => NotMore
      /\ Coming' \subseteq Coming /\ faults' = faults /\ slots # {}
            /\ (slots' = {} \/ (slots' = slots /\ age' = age + 1)) => Less
      /\ \A a \in Coming : Coming' \subseteq Coming \ {a} /\ faults' = faults => NotMore
      /\ Coming' \subseteq Coming /\ faults' = faults + 1 => Less
      /\ \A a : Coming' \subseteq Coming \cup {a} /\ faults' = faults + 1 /\ slots' = slots /\ age' = age => Less
  BY <1>1, <1>2, FullTimeChange
<1>5. Less => NotMore
  BY <1>3, <1>4
<1>6. faults' = faults + 1 => faults' # faults
  BY <1>1, SemaphoreAssumption
<1> HIDE DEF Less, NotMore
<1>7. ASSUME NEW a \in Deliveries, Work(a) PROVE Runs
  <2>1. CASE Start(a)
    <3>1. \E pc \in {"done", "checked"} : Moves(a, pc)
      BY <2>1, BecomeMoves DEF Start, PCs
    <3>2. Coming' \subseteq Coming
      BY <2>1, <3>1, ComingMoves DEF Start, At, Coming
    <3> QED
      BY <1>4, <2>1, <3>2 DEF Start
  <2>2. CASE EnterUnbounded(a)
    <3>1. Coming' = Coming \ {a}
      BY <2>2, BecomeMoves, ComingMoves DEF EnterUnbounded, PCs
    <3> QED
      BY <1>4, <2>2, <3>1 DEF EnterUnbounded
  <2>3. CASE Acquire(a)
    <3>1. Coming' = Coming \ {a} /\ a \in Coming
      BY <2>3, BecomeMoves, ComingMoves DEF Acquire, At, Coming, PCs
    <3>2. slots' # {} /\ faults' = faults
      BY <2>3 DEF Acquire, Enter
    <3> QED
      BY <1>4, <3>1, <3>2
  <2>4. CASE Refuse(a)
    <3>1. \E pc \in {"waiting", "failed"} : Moves(a, pc)
      BY <2>4, RetryMoves, SemaphoreAssumption DEF Refuse
    <3>2. Coming' \subseteq Coming
      BY <2>4, <3>1, ComingMoves DEF Refuse, At, Coming
    <3> QED
      BY <1>4, <2>4, <3>2 DEF Refuse
  <2>5. CASE Finish(a)
    <3>1. \E pc \in {"releasing", "done"} : Moves(a, pc)
      BY <2>5, BecomeMoves DEF Finish, PCs
    <3>2. Coming' \subseteq Coming
      BY <3>1, ComingMoves
    <3> QED
      BY <1>4, <2>5, <3>2 DEF Finish
  <2>6. CASE Release(a)
    <3>1. Coming' = Coming \ {a} /\ faults' = faults
      BY <2>6, BecomeMoves, ComingMoves DEF Release, PCs
    <3>2. slots' = {} \/ (slots' # {} /\ slots # {} /\ age' = age)
      BY <2>6 DEF Release, Leave
    <3> QED
      BY <1>4, <3>1, <3>2
  <2>7. CASE HardLimit(a)
    <3>1. Coming' = Coming \ {a}
      BY <2>7, BecomeMoves, ComingMoves DEF HardLimit, PCs
    <3> QED
      BY <1>4, <2>7, <3>1 DEF HardLimit
  <2> QED
    BY <1>7, <2>1, <2>2, <2>3, <2>4, <2>5, <2>6, <2>7 DEF Work
<1>8. ASSUME NEW a \in Deliveries, RedisError(a) \/ AcquireAmbiguous(a) \/ ReleaseFails(a) \/ Crash(a)
      PROVE  Runs
  <2>1. faults' = faults + 1
    BY <1>8 DEF RedisError, AcquireAmbiguous, ReleaseFails, Crash, UseFault
  <2>2. CASE RedisError(a) \/ AcquireAmbiguous(a)
    <3>1. \E pc \in {"bypassing", "waiting", "failed"} : Moves(a, pc)
      BY <2>2, BecomeMoves, RetryMoves, SemaphoreAssumption DEF RedisError, AcquireAmbiguous, WithoutRedis, PCs
    <3>2. Coming' \subseteq Coming
      BY <2>2, <3>1, ComingMoves DEF RedisError, AcquireAmbiguous, Coming
    <3> QED
      BY <1>4, <1>5, <2>1, <3>2
  <2>3. CASE ReleaseFails(a)
    <3>1. Coming' = Coming \ {a}
      BY <2>3, BecomeMoves, ComingMoves DEF ReleaseFails, PCs
    <3> QED
      BY <1>4, <1>5, <2>1, <3>1
  <2>4. CASE Crash(a)
    <3>1. Coming' = Coming \cup {a}
      BY <2>4, BecomeMoves, ComingMoves DEF Crash, PCs
    <3> QED
      BY <1>4, <1>5, <2>1, <2>4, <3>1 DEF Crash
  <2> QED
    BY <1>8, <2>2, <2>3, <2>4
<1>9. ASSUME NEW r \in Records, Redeliver(r) PROVE Runs
  <2>1. Coming' \subseteq Coming \cup {<<r, "second">>} /\ faults' = faults + 1
    BY <1>9 DEF Redeliver, UseFault, Coming, TypeOK
  <2> QED
    BY <1>4, <1>5, <1>9, <2>1 DEF Redeliver
<1>10. ASSUME Tick PROVE Runs /\ (slots # {} => Less)
  <2>1. ASSUME NEW a \in Deliveries, task[a].pc \notin {"queued", "checked", "waiting"}
        PROVE  task'[a].pc = task[a].pc
    <3>0. task[a] \in Task /\ task'[a] = CASE task[a].pc = "waiting" -> [task[a] EXCEPT !.pc = "queued"]
                    [] task[a].pc \in InProcess -> [task[a] EXCEPT !.held = @ + 1]
                    [] OTHER -> task[a]
      BY <1>10 DEF Tick, TypeOK
    <3>1. CASE task[a].pc \in InProcess
      BY <2>1, <3>0, <3>1 DEF Task
    <3>2. CASE task[a].pc \notin InProcess
      BY <2>1, <3>0, <3>2
    <3> QED
      BY <3>1, <3>2
  <2>2. Coming' \subseteq Coming /\ faults' = faults
    BY <1>10, <2>1 DEF Tick, Coming
  <2>3. slots' = {} \/ (slots # {} /\ slots' = slots /\ age' = age + 1)
    BY <1>10 DEF Tick, Expire
  <2> QED
    BY <1>4, <1>5, <2>2, <2>3
<1>11. ASSUME UNCHANGED vars PROVE Runs
  <2>1. Coming' = Coming /\ slots' = slots /\ age' = age /\ faults' = faults
    BY <1>11 DEF vars, Coming
  <2> QED
    BY <1>4, <2>1
<1>12. Runs
  BY <1>7, <1>8, <1>9, <1>10, <1>11 DEF Next, Fault
<1> USE DEF Less, NotMore
<1> QED
  BY <1>4, <1>10, <1>12, Zenon

LEMMA BecomeKeepsRetries ==
    ASSUME TypeOK, NEW a \in Deliveries, NEW pc \in PCs, Become(a, pc)
    PROVE  /\ \A b \in Deliveries : task'[b].retries = task[b].retries
           /\ \A b \in Deliveries : b # a => task'[b].pc = task[b].pc
           /\ task'[a].pc = pc
<1>1. task[a] \in Task
  BY DEF TypeOK
<1> DEFINE new == [task[a] EXCEPT !.pc = pc, !.held = IF pc = "releasing" THEN @ ELSE 0]
<1>2. new.pc = pc /\ new.retries = task[a].retries
  BY <1>1 DEF Task
<1>3. task' = [task EXCEPT ![a] = new]
  BY <1>1 DEF Become, TypeOK, Task
<1> HIDE DEF new
<1> QED
  BY <1>2, <1>3 DEF TypeOK

LEMMA RetryCounts ==
    ASSUME TypeOK, NEW a \in Deliveries, NEW limit \in Nat, RetryOrFail(a, limit)
    PROVE  /\ \A b \in Deliveries : b # a => task'[b] = task[b]
           /\ \/ task'[a].pc = "waiting" /\ task'[a].retries = task[a].retries + 1
              \/ /\ task'[a].pc = "failed" /\ task'[a].retries = task[a].retries
                 /\ ~(task[a].retries < limit)
<1>1. CASE task[a].retries < limit
  <2>1. task[a] \in Task
    BY DEF TypeOK
  <2> DEFINE new == [task[a] EXCEPT !.pc = "waiting", !.retries = @ + 1]
  <2>2. new.pc = "waiting" /\ new.retries = task[a].retries + 1
    BY <2>1 DEF Task
  <2>3. task' = [task EXCEPT ![a] = new]
    BY <1>1, <2>1 DEF RetryOrFail, TypeOK, Task
  <2> HIDE DEF new
  <2> QED
    BY <2>2, <2>3 DEF TypeOK
<1>2. CASE ~(task[a].retries < limit)
  <2>1. Become(a, "failed")
    BY <1>2 DEF RetryOrFail
  <2>2. Moves(a, "failed")
    BY <2>1, BecomeMoves DEF PCs
  <2> QED
    BY <1>2, <2>1, <2>2, BecomeKeepsRetries DEF PCs, Moves
<1> QED
  BY <1>1, <1>2

\* What a step does to the retries of a delivery.
Unretried(b) == /\ task'[b].retries = task[b].retries
                /\ task[b].pc = "waiting" => task'[b].pc = "waiting" \/ Tick
                /\ task'[b].pc = "failed" => task[b].pc = "failed"

Retried(b)   == /\ task[b].pc = "checked" /\ task'[b].pc = "waiting"
                /\ task'[b].retries = task[b].retries + 1
                /\ (slots # {} /\ slots' = slots) \/ faults' # faults

GivesUp(b)   == /\ task[b].pc = "checked"
                /\ task'[b].retries = task[b].retries /\ b \in history'.errors

Copied(b)    == \E c \in Deliveries : /\ task'[b].retries = task[c].retries
                                      /\ task'[b].pc = "queued" /\ faults' # faults

LEMMA RetryKinds ==
    ASSUME TypeOK, [Next]_vars, NEW b \in Deliveries,
           \A a \in Deliveries : Refuse(a) => task[a].retries < FullRetries
    PROVE  /\ Unretried(b) \/ Retried(b) \/ GivesUp(b) \/ Copied(b)
           /\ history.errors \subseteq history'.errors
<1> DEFINE Kind == /\ Unretried(b) \/ Retried(b) \/ GivesUp(b) \/ Copied(b)
                   /\ history.errors \subseteq history'.errors
<1>1. ASSUME NEW a \in Deliveries, NEW pc \in PCs \ {"failed"}, Become(a, pc),
             task[a].pc # "waiting"
      PROVE  Unretried(b)
  BY <1>1, BecomeKeepsRetries DEF Unretried, PCs
<1>2. ASSUME NEW a \in Deliveries, Work(a) PROVE Kind
  <2>1. CASE Start(a)
    BY <1>1, <2>1 DEF Start, At, PCs
  <2>2. CASE EnterUnbounded(a)
    BY <1>1, <2>2 DEF EnterUnbounded, At, PCs
  <2>3. CASE Acquire(a)
    BY <1>1, <2>3 DEF Acquire, At, PCs
  <2>4. CASE Refuse(a)
    <3>1. slots # {}
      <4>1. CASE slots = {}
        BY <2>4, <4>1, FS_EmptySet DEF Refuse, MayEnter
      <4> QED
        BY <4>1
    <3>2. task[a].retries < FullRetries
      BY <2>4
    <3>3. task'[a].pc = "waiting" /\ task'[a].retries = task[a].retries + 1
      BY <2>4, <3>2, RetryCounts, SemaphoreAssumption DEF Refuse
    <3>4. \A c \in Deliveries : c # a => task'[c] = task[c]
      BY <2>4, RetryCounts, SemaphoreAssumption DEF Refuse
    <3> QED
      BY <2>4, <3>1, <3>3, <3>4 DEF Refuse, At, Unretried, Retried
  <2>5. CASE Finish(a)
    BY <1>1, <2>5 DEF Finish, Running, PCs
  <2>6. CASE Release(a)
    BY <1>1, <2>6 DEF Release, At, PCs
  <2>7. CASE HardLimit(a)
    BY <1>1, <2>7 DEF HardLimit, InProcess, Running, PCs, TypeOK
  <2> QED
    BY <1>2, <2>1, <2>2, <2>3, <2>4, <2>5, <2>6, <2>7 DEF Work
<1>3. faults \in Nat /\ faults + 1 # faults
  BY SemaphoreAssumption DEF TypeOK
<1>4. ASSUME NEW a \in Deliveries, RedisError(a) \/ AcquireAmbiguous(a) PROVE Kind
  <2>1. /\ task[a].pc = "checked" /\ faults' # faults /\ a \in history'.errors
        /\ history.errors \subseteq history'.errors /\ WithoutRedis(a)
    BY <1>3, <1>4 DEF RedisError, AcquireAmbiguous, UseFault, TypeOK
  <2>2. CASE config.failOpen
    BY <1>1, <2>1, <2>2 DEF WithoutRedis, PCs
  <2>3. CASE ~config.failOpen
    <3>1. /\ \A c \in Deliveries : c # a => task'[c] = task[c]
          /\ \/ task'[a].pc = "waiting" /\ task'[a].retries = task[a].retries + 1
             \/ task'[a].pc = "failed" /\ task'[a].retries = task[a].retries
      BY <2>1, <2>3, RetryCounts, SemaphoreAssumption DEF WithoutRedis
    <3> QED
      BY <2>1, <3>1 DEF Unretried, Retried, GivesUp
  <2> QED
    BY <2>2, <2>3
<1>5. ASSUME NEW a \in Deliveries, ReleaseFails(a) \/ Crash(a) PROVE Kind
  BY <1>1, <1>5 DEF ReleaseFails, Crash, At, InProcess, Running, PCs
<1>6. ASSUME NEW r \in Records, Redeliver(r) PROVE Kind
  <2>1. b # <<r, "second">> => task'[b] = task[b]
    BY <1>6 DEF Redeliver, TypeOK
  <2>2. b = <<r, "second">> => /\ task'[b].retries = task[<<r, "first">>].retries
                               /\ task'[b].pc = "queued"
    BY <1>6 DEF Redeliver, TypeOK
  <2>3. <<r, "first">> \in Deliveries /\ faults' # faults /\ history' = history
    BY <1>3, <1>6, DeliveryFacts DEF Redeliver, UseFault
  <2> QED
    BY <2>1, <2>2, <2>3 DEF Unretried, Copied
<1>7. CASE Tick
  <2>0. task[b] \in Task /\ history' = history
        /\ task'[b] = CASE task[b].pc = "waiting" -> [task[b] EXCEPT !.pc = "queued"]
                         [] task[b].pc \in InProcess -> [task[b] EXCEPT !.held = @ + 1]
                         [] OTHER -> task[b]
    BY <1>7 DEF Tick, TypeOK
  <2>1. CASE task[b].pc = "waiting"
    <3>1. task'[b] = [task[b] EXCEPT !.pc = "queued"]
      BY <2>0, <2>1 DEF InProcess, Running
    <3> QED
      BY <1>7, <2>0, <3>1 DEF Task, Unretried
  <2>2. CASE task[b].pc \in InProcess
    <3>1. task'[b] = [task[b] EXCEPT !.held = @ + 1]
      BY <2>0, <2>2 DEF InProcess, Running
    <3> QED
      BY <1>7, <2>0, <3>1 DEF Task, Unretried
  <2>3. CASE task[b].pc # "waiting" /\ task[b].pc \notin InProcess
    BY <1>7, <2>0, <2>3 DEF Unretried
  <2> QED
    BY <2>1, <2>2, <2>3
<1>8. CASE UNCHANGED vars
  BY <1>8 DEF vars, Unretried
<1> QED
  BY <1>2, <1>4, <1>5, <1>6, <1>7, <1>8 DEF Next, Fault

LEMMA PaidFacts ==
    ASSUME NEW r \in Nat, NEW before \in Nat, NEW after \in Nat, NEW x \in {0, 1}, NEW y \in {0, 1},
           Paid(r, before, x)
    PROVE  /\ after <= before /\ (x = 0 \/ y = 1) => Paid(r, after, y)
           /\ after < before => Paid(r, after, y)
           /\ x = 0 /\ after < before => Paid(r + 1, after, y)
           /\ x = 0 /\ y = 1 /\ after <= before => Paid(r + 1, after, y)
<1>1. AtTheStart \in Nat
  <2>1. Cardinality(Records) + 2 * MaxFaults \in Nat /\ Lifetime \in Nat
    BY FS_CardinalityType, SemaphoreAssumption DEF Lifetime
  <2> QED
    BY <2>1 DEF AtTheStart
<1> QED
  BY <1>1 DEF Paid

\* A delivery that is refused has a chance itself and meets a set with members.
LEMMA RefusedHasRetries ==
    ASSUME TypeOK, RetriesTakeTime, NEW a \in Deliveries, Refuse(a),
           FullRetries >= ((Cardinality(Records) + 2 * MaxFaults) - 1) * Lifetime
    PROVE  task[a].retries < FullRetries
<1> DEFINE c == ChancesOf(Coming, faults)
           d == LeftOf(slots, age)
           n == Cardinality(Records) + 2 * MaxFaults
           r == task[a].retries
<1>1. task[a].pc = "checked" /\ slots # {}
  <2>1. CASE slots = {}
    BY <2>1, FS_EmptySet DEF Refuse, MayEnter
  <2> QED
    BY <2>1 DEF Refuse, At
<1>2. c \in Nat /\ c >= 1
  <2>1. a \in Coming /\ Coming \in SUBSET Deliveries
    BY <1>1 DEF Coming
  <2>2. Cardinality(Coming) \in Nat /\ Cardinality(Coming) # 0
    BY <2>1, DeliveriesAreFinite, FS_Subset, FS_CardinalityType, FS_EmptySet
  <2> QED
    BY <2>2, SemaphoreAssumption DEF ChancesOf, TypeOK
<1>3. d \in Nat /\ d >= 1 /\ Lifetime \in Nat
  BY <1>1, LeftFacts DEF TypeOK
<1>4. r \in Nat /\ n \in Nat /\ FullRetries \in Nat
  BY FS_CardinalityType, SemaphoreAssumption DEF TypeOK, Task
<1>5. r + (c * Lifetime + d) <= n * Lifetime
  <2>1. Paid(task[a].retries, FullTime, 0)
    BY <1>1 DEF RetriesTakeTime, Grace
  <2>2. FullTime = c * Lifetime + d /\ AtTheStart = n * Lifetime /\ n * Lifetime \in Nat
    BY <1>3, <1>4 DEF FullTime, FullTimeOf, AtTheStart
  <2> QED
    BY <2>1, <2>2 DEF Paid
<1>6. FullRetries >= (n - 1) * Lifetime
  BY Zenon
<1> HIDE DEF c, d, n, r
<1>7. c * Lifetime \in Nat /\ n * Lifetime \in Nat /\ Lifetime <= c * Lifetime
  <2>1. PICK k \in Nat : c = k + 1
    <3>1. c - 1 \in Nat /\ c = (c - 1) + 1
      BY <1>2
    <3> QED
      BY <3>1
  <2>2. c * Lifetime = k * Lifetime + Lifetime /\ k * Lifetime \in Nat
    BY <1>3, <2>1
  <2> QED
    BY <1>3, <1>4, <2>2
<1>8. (n - 1) * Lifetime = n * Lifetime - Lifetime
  BY <1>3, <1>4
<1>9. r < FullRetries
  BY <1>3, <1>4, <1>5, <1>6, <1>7, <1>8
<1> QED
  BY <1>9 DEF r

RetryInv == RetriesTakeTime /\ RefusalIsNotFinal

LEMMA RetryInit == Init => RetryInv
<1> SUFFICES ASSUME Init PROVE RetryInv
  OBVIOUS
<1> DEFINE f == [a \in Coming |-> Rec(a)]
           n == Cardinality(Coming)
           m == Cardinality(Records)
<1>1. TypeOK
  BY InitInvariant DEF IInv
<1>2. \A a \in Deliveries : task[a].retries = 0 /\ task[a].pc \in {"queued", "none"}
                            /\ (task[a].pc = "queued" => a = <<Rec(a), "first">>)
  BY DeliveryFacts DEF Init, NoTask, Rec
<1>3. n \in Nat /\ m \in Nat /\ n <= m
  <2>1. f \in Injection(Coming, Records)
    <3>1. ASSUME NEW a \in Coming, NEW b \in Coming, Rec(a) = Rec(b) PROVE a = b
      BY <1>2, <3>1 DEF Coming
    <3>2. \A a \in Coming : Rec(a) \in Records
      BY DeliveryFacts DEF Coming
    <3> QED
      BY <3>1, <3>2 DEF Injection, IsInjective
  <2> QED
    BY <2>1, FS_Injection, FS_CardinalityType, SemaphoreAssumption
<1>4. FullTime = (n + 2 * MaxFaults) * Lifetime
  <2>1. faults = 0 /\ slots = {} /\ age = 0
    BY DEF Init
  <2>2. ChancesOf(Coming, faults) = n + 2 * MaxFaults /\ LeftOf(slots, age) = 0
    BY <2>1, SemaphoreAssumption DEF ChancesOf, LeftOf
  <2>3. (n + 2 * MaxFaults) * Lifetime \in Nat
    BY <1>3, SemaphoreAssumption DEF Lifetime
  <2> QED
    BY <2>2, <2>3 DEF FullTime, FullTimeOf
<1>5. FullTime \in Nat /\ AtTheStart \in Nat /\ FullTime <= AtTheStart
  <2>1. n + 2 * MaxFaults \in Nat /\ m + 2 * MaxFaults \in Nat /\ n + 2 * MaxFaults <= m + 2 * MaxFaults
    BY <1>3, SemaphoreAssumption
  <2> HIDE DEF n, m
  <2>2. /\ (n + 2 * MaxFaults) * Lifetime \in Nat /\ (m + 2 * MaxFaults) * Lifetime \in Nat
        /\ (n + 2 * MaxFaults) * Lifetime <= (m + 2 * MaxFaults) * Lifetime
    BY <2>1, Lasting
  <2>3. AtTheStart = (m + 2 * MaxFaults) * Lifetime
    BY DEF AtTheStart, m
  <2> QED
    BY <1>4, <2>2, <2>3
<1>6. RetriesTakeTime
  BY <1>2, <1>5 DEF RetriesTakeTime, Paid, Grace
<1>7. RefusalIsNotFinal
  BY <1>2 DEF RefusalIsNotFinal
<1> QED
  BY <1>6, <1>7 DEF RetryInv

LEMMA RetryStep ==
    ASSUME FullRetries >= ((Cardinality(Records) + 2 * MaxFaults) - 1) * Lifetime,
           TypeOK, TypeOK', RetryInv, [Next]_vars
    PROVE  RetryInv'
<1>1. \A a \in Deliveries : Refuse(a) => task[a].retries < FullRetries
  BY RefusedHasRetries DEF RetryInv
<1>2. ASSUME NEW b \in Deliveries
      PROVE  /\ Paid(task'[b].retries, FullTime', Grace(b)')
             /\ task'[b].pc = "failed" => b \in history'.errors
  <2>1. /\ FullTime \in Nat /\ FullTime' \in Nat /\ FullTime' <= FullTime
        /\ faults' # faults => FullTime' < FullTime
        /\ slots # {} /\ (slots' = {} \/ Tick) => FullTime' < FullTime
    BY TimeRunsOut
  <2>2. \A c \in Deliveries : /\ Paid(task[c].retries, FullTime, Grace(c))
                              /\ task[c].retries \in Nat /\ Grace(c) \in {0, 1}
    BY DEF RetryInv, RetriesTakeTime, TypeOK, Task, Grace
  <2>3. Grace(b)' \in {0, 1}
    BY DEF Grace
  <2>4. /\ Unretried(b) \/ Retried(b) \/ GivesUp(b) \/ Copied(b)
        /\ history.errors \subseteq history'.errors
    BY <1>1, RetryKinds
  <2>5. /\ Grace(b) = 1 => task[b].pc = "waiting" /\ slots # {}
        /\ Grace(b)' = 1 <=> task'[b].pc = "waiting" /\ slots' # {}
        /\ task[b].pc # "waiting" => Grace(b) = 0
    BY DEF Grace
  <2>6. task[b].pc = "failed" => b \in history.errors
    BY DEF RetryInv, RefusalIsNotFinal
  <2>7. CASE Unretried(b)
    <3>1. FullTime' < FullTime \/ Grace(b) = 0 \/ Grace(b)' = 1
      BY <2>1, <2>2, <2>5, <2>7 DEF Unretried
    <3>2. Paid(task[b].retries, FullTime', Grace(b)')
      BY <2>1, <2>2, <2>3, <3>1, PaidFacts
    <3> QED
      BY <2>4, <2>6, <2>7, <3>2 DEF Unretried
  <2>8. CASE Retried(b)
    <3>1. Grace(b) = 0 /\ (FullTime' < FullTime \/ Grace(b)' = 1)
      BY <2>1, <2>5, <2>8 DEF Retried
    <3>2. Paid(task[b].retries + 1, FullTime', Grace(b)')
      BY <2>1, <2>2, <2>3, <3>1, PaidFacts
    <3> QED
      BY <2>8, <3>2 DEF Retried
  <2>9. CASE GivesUp(b)
    <3>1. Grace(b) = 0
      BY <2>5, <2>9 DEF GivesUp
    <3>2. Paid(task[b].retries, FullTime', Grace(b)')
      BY <2>1, <2>2, <2>3, <3>1, PaidFacts
    <3> QED
      BY <2>9, <3>2 DEF GivesUp
  <2>10. CASE Copied(b)
    <3>1. PICK c \in Deliveries : task'[b].retries = task[c].retries
      BY <2>10 DEF Copied
    <3>2. FullTime' < FullTime /\ task'[b].pc = "queued"
      BY <2>1, <2>10 DEF Copied
    <3>3. Paid(task[c].retries, FullTime', Grace(b)')
      BY <2>1, <2>2, <2>3, <3>2, PaidFacts
    <3> QED
      BY <3>1, <3>2, <3>3
  <2> QED
    BY <2>4, <2>7, <2>8, <2>9, <2>10
<1> QED
  BY <1>2 DEF RetryInv, RetriesTakeTime, RefusalIsNotFinal

\* A full semaphore never fails a record (_SEMAPHORE_FULL_MAX_RETRIES,
\* _SEMAPHORE_TTL_SECONDS) whose retries outlast the set: it has members for at most
\* TTL + 1 ticks after each acquisition, acquisitions are one per record and, with
\* what else a fault delays, at most two more per fault, and a refused delivery needs
\* one retry for each of these ticks before its own turn.
THEOREM RefusalNeverFails ==
    ASSUME FullRetries >= ((Cardinality(Records) + 2 * MaxFaults) - 1) * (TTL + 1)
    PROVE  Spec => []RefusalIsNotFinal
<1>1. FullRetries >= ((Cardinality(Records) + 2 * MaxFaults) - 1) * Lifetime
  BY DEF Lifetime
<1>2. TypeOK /\ TypeOK' /\ RetryInv /\ [Next]_vars => RetryInv'
  BY <1>1, RetryStep
<1>3. RetryInv => RefusalIsNotFinal
  BY DEF RetryInv
<1> QED
  BY <1>2, <1>3, RetryInit, SemaphoreTypeCorrect, PTL DEF Spec
=============================================================================

------------------------- MODULE NotificationsProofs -------------------------
(***************************************************************************)
(* What routing and delivery of notifications keep for every number of     *)
(* policies, records, senders and tasks, every configuration, every limit  *)
(* of attempts, and every number of faults.                                *)
(***************************************************************************)
EXTENDS Notifications, FiniteSetTheorems, TLAPS

Statuses == {"absent", "sent", "retrying", "failed"}
Rows     == [status : Statuses, attempts : 0..MaxAttempts, items : SUBSET Items]
Routings == [pc : {"ready", "waiting", "routing", "done"}, at : Nat, stopped : SUBSET Items,
             on : SUBSET Policies, rows : [Policies -> Rows]]
Jobs     == [pc : {"read", "write"}, message : Messages, row : Rows]
Counters == [Policies -> Nat]
Histories == [tried : Counters, undone : Counters, shared : Counters, stranded : SUBSET Policies,
              stale : SUBSET Policies, faults : 0..MaxFaults, toggles : 0..MaxToggles]

TypeOK ==
    /\ config \in Configs /\ enabled \in SUBSET Policies /\ reported \in 0..NumSenders
    /\ row \in [Policies -> Rows]
    /\ sender \in [Senders -> Routings]
    /\ queue \in [Messages -> Nat]
    /\ task \in [Tasks -> {Idle} \cup Jobs]
    /\ \A t \in Tasks : task[t].pc = "read" => ~Settled(task[t].row)
    /\ history \in Histories

LEMMA Constants ==
    /\ NumPolicies \in Nat /\ NumSenders \in Nat \ {0} /\ MaxAttempts \in Nat \ {0}
    /\ MaxMisses \in Nat /\ MaxFaults \in Nat /\ MaxToggles \in Nat /\ IsFiniteSet(Tasks)
BY NotificationAssumption

LEMMA EmptyRows == Absent \in Rows /\ NoRows \in [Policies -> Rows] /\ \A p \in Policies : NoRows[p] = Absent
BY Constants DEF Absent, Rows, Statuses, NoRows

LEMMA ReadySender ==
    /\ Ready \in Routings /\ Ready.pc = "ready" /\ Ready.at = 1 /\ Ready.stopped = {} /\ Ready.rows = NoRows
    /\ [Ready EXCEPT !.pc = "done"] \in Routings /\ [Ready EXCEPT !.pc = "done"].pc = "done"
    /\ [Ready EXCEPT !.pc = "waiting"] \in Routings /\ [Ready EXCEPT !.pc = "waiting"].pc = "waiting"
    /\ \A on \in SUBSET Policies :
          LET begun == [Ready EXCEPT !.pc = "routing", !.on = on]
              done  == [Ready EXCEPT !.pc = "done", !.on = on]
          IN  /\ begun \in Routings /\ begun.pc = "routing" /\ begun.at = 1 /\ begun.stopped = {}
              /\ begun.on = on /\ begun.rows = NoRows
              /\ done \in Routings /\ done.pc = "done" /\ done.on = on
BY EmptyRows DEF Ready, Routings

\* Queueing and taking a message.
LEMMA Queueing ==
    ASSUME NEW q \in [Messages -> Nat], NEW m \in Messages
    PROVE  /\ Push(q, m) \in [Messages -> Nat]
           /\ Push(q, m)[m] = q[m] + 1 /\ \A n \in Messages \ {m} : Push(q, m)[n] = q[n]
           /\ q[m] > 0 => /\ Pop(q, m) \in [Messages -> Nat]
                          /\ Pop(q, m)[m] = q[m] - 1 /\ \A n \in Messages \ {m} : Pop(q, m)[n] = q[n]
BY DEF Push, Pop

LEMMA RetryMessage ==
    ASSUME NEW p \in Policies, NEW n \in Senders
    PROVE  Retry(p, n) \in Messages /\ Retry(p, n).to = p /\ Retry(p, n).of = n
BY Constants DEF Retry, Messages

\* The state of a delivery after an attempt.
LEMMA AfterAttempt ==
    ASSUME NEW attempts \in 1..MaxAttempts, NEW ok
    PROVE  /\ Attempted(attempts, ok) \in Statuses \ {"absent"}
           /\ Attempted(attempts, ok) = "retrying" => attempts < MaxAttempts
BY DEF Attempted, Statuses

\* An attempt is told, a fault happens.
LEMMA Telling ==
    ASSUME NEW h \in Histories, NEW p \in Policies
    PROVE  /\ Tell(h, p) \in Histories
           /\ Tell(h, p).tried[p] = h.tried[p] + 1
           /\ \A q \in Policies \ {p} : Tell(h, p).tried[q] = h.tried[q]
           /\ Tell(h, p).undone = h.undone /\ Tell(h, p).shared = h.shared
           /\ Tell(h, p).stranded = h.stranded /\ Tell(h, p).stale = h.stale /\ Tell(h, p).faults = h.faults
BY DEF Tell, Histories, Counters

LEMMA Faulting ==
    ASSUME NEW h \in Histories, UseFault(h)
    PROVE  /\ history' \in Histories /\ history'.tried = h.tried /\ history'.undone = h.undone
           /\ history'.shared = h.shared /\ history'.stranded = h.stranded /\ history'.stale = h.stale
           /\ history'.faults = h.faults + 1 /\ config = Plain
BY Constants DEF UseFault, Histories

LEMMA Types ==
    ASSUME TypeOK
    PROVE  /\ config \in Configs /\ enabled \in SUBSET Policies /\ reported \in 0..NumSenders
           /\ row \in [Policies -> Rows] /\ sender \in [Senders -> Routings]
           /\ queue \in [Messages -> Nat] /\ task \in [Tasks -> {Idle} \cup Jobs] /\ history \in Histories
           /\ \A t \in Tasks : task[t].pc # "idle" => task[t] \in Jobs /\ task[t].message \in Messages
                                                      /\ task[t].message.to \in Policies
                                                      /\ task[t].message.of \in Senders /\ task[t].row \in Rows
           /\ \A p \in Policies : /\ history.tried[p] \in Nat /\ history.undone[p] \in Nat
                                  /\ history.shared[p] \in Nat
BY DEF TypeOK, Idle, Jobs, Messages, Histories, Counters

LEMMA UndoneBy ==
    ASSUME TypeOK, NEW t \in Tasks, task[t].pc # "idle"
    PROVE  /\ Undo(t) \in Histories /\ Undo(t).tried = history.tried /\ Undo(t).shared = history.shared
           /\ Undo(t).stranded = history.stranded /\ Undo(t).stale = history.stale
           /\ Undo(t).faults = history.faults
           /\ \A p \in Policies : Undo(t).undone[p] =
                 IF task[t].pc = "write" /\ p = task[t].message.to THEN history.undone[p] + 1
                 ELSE history.undone[p]
BY Types DEF Undo, Histories, Counters

\* A task that goes on from an old copy is noted.
LEMMA Aging ==
    ASSUME TypeOK, NEW t \in Tasks, task[t].pc # "idle"
    PROVE  /\ Aged(history, t) \in Histories
           /\ Aged(history, t).tried = history.tried /\ Aged(history, t).undone = history.undone
           /\ Aged(history, t).shared = history.shared /\ Aged(history, t).stranded = history.stranded
           /\ Aged(history, t).faults = history.faults
           /\ history.stale \subseteq Aged(history, t).stale
           /\ task[t].row = row[task[t].message.to] \/ task[t].message.to \in Aged(history, t).stale
BY Types DEF Aged, Histories

\* What a transaction that is rolled back did is undone.
UndoneSender(n) ==
    [history EXCEPT !.undone = [p \in Policies |->
        IF sender[n].rows[p] = Absent THEN @[p] ELSE @[p] + 1]]

LEMMA UndoneRouting ==
    ASSUME TypeOK, NEW n \in Senders
    PROVE  /\ UndoneSender(n) \in Histories /\ UndoneSender(n).tried = history.tried
           /\ UndoneSender(n).shared = history.shared /\ UndoneSender(n).stale = history.stale
           /\ UndoneSender(n).stranded = history.stranded /\ UndoneSender(n).faults = history.faults
           /\ \A p \in Policies : UndoneSender(n).undone[p] =
                 IF sender[n].rows[p] = Absent THEN history.undone[p] ELSE history.undone[p] + 1
BY Types DEF UndoneSender, Histories, Counters

-----------------------------------------------------------------------------
(* What the steps do. *)

LEMMA Routed ==
    ASSUME NEW p \in Policies, NEW stopped \in SUBSET Items
    PROVE  Route(p, stopped).items \in SUBSET Items /\ Route(p, stopped).stopped \in SUBSET Items
BY DEF Route, Candidates, Reported

\* A sender that looks for the event, or waited for another one's.
LEMMA BeginEffect ==
    ASSUME TypeOK, NEW n \in Senders, Begin(n) \/ Waited(n)
    PROVE  \E s \in Routings :
             /\ sender' = [sender EXCEPT ![n] = s] /\ sender[n].pc \in {"ready", "waiting"}
             /\ \/ s.pc = "done" /\ (reported # 0 \/ ~Reports)
                \/ s.pc = "waiting"
                \/ /\ s.pc = "routing" /\ reported = 0 /\ s.at = 1 /\ s.stopped = {}
                   /\ s.on = enabled /\ s.rows = NoRows
                   /\ \A k \in Senders : sender[k].pc # "routing"
             /\ UNCHANGED <<config, enabled, reported, row, queue, task, history>>
<1> DEFINE done    == [Ready EXCEPT !.pc = "done"]
           waiting == [Ready EXCEPT !.pc = "waiting"]
           routing == [Ready EXCEPT !.pc = "routing", !.on = enabled]
<1>1. /\ done \in Routings /\ done.pc = "done" /\ waiting \in Routings /\ waiting.pc = "waiting"
      /\ routing \in Routings /\ routing.pc = "routing" /\ routing.at = 1 /\ routing.stopped = {}
      /\ routing.on = enabled /\ routing.rows = NoRows
  BY ReadySender, Types
<1>2. UNCHANGED <<config, enabled, reported, row, queue, task, history>> /\ sender[n].pc \in {"ready", "waiting"}
  BY DEF Begin, Waited
<1>3. \/ sender' = [sender EXCEPT ![n] = done] /\ (reported # 0 \/ ~Reports)
      \/ sender' = [sender EXCEPT ![n] = waiting]
      \/ sender' = [sender EXCEPT ![n] = routing] /\ reported = 0 /\ \A k \in Senders : sender[k].pc # "routing"
  BY DEF Begin, Waited
<1> HIDE DEF done, waiting, routing
<1> QED
  BY <1>1, <1>2, <1>3

\* One policy of a report, with the row r of its delivery.
RoutedBy(n, s, r) ==
    LET p      == sender[n].at
        routed == Route(p, sender[n].stopped)
    IN  /\ sender' = [sender EXCEPT ![n] = s]
        /\ s.pc = "routing" /\ s.at = p + 1 /\ s.on = sender[n].on /\ s.stopped = routed.stopped
        /\ s.rows = [sender[n].rows EXCEPT ![p] = r]
        /\ \/ /\ routed.items # {} /\ p \in sender[n].on
              /\ r.status # "absent" /\ r.attempts = 1 /\ r.items = routed.items
              /\ r.status = "retrying" => r.attempts < MaxAttempts
              /\ history' = Tell(history, p)
              /\ queue' = IF r.status = "retrying" THEN Push(queue, Retry(p, n)) ELSE queue
           \/ /\ routed.items = {} \/ p \notin sender[n].on
              /\ r = Absent /\ UNCHANGED <<queue, history>>

LEMMA RouteEffect ==
    ASSUME TypeOK, NEW n \in Senders, \E ok \in Answers : RoutePolicy(n, ok)
    PROVE  /\ sender[n].at \in Policies /\ sender[n].pc = "routing"
           /\ UNCHANGED <<config, enabled, reported, row, task>>
           /\ \E s \in Routings, r \in Rows : RoutedBy(n, s, r)
<1> PICK ok \in Answers : RoutePolicy(n, ok)
  OBVIOUS
<1> DEFINE p      == sender[n].at
           routed == Route(p, sender[n].stopped)
           sends  == routed.items # {} /\ p \in sender[n].on
           tried  == [status |-> Attempted(1, ok), attempts |-> 1, items |-> routed.items]
           r      == IF sends THEN tried ELSE Absent
           s      == [sender[n] EXCEPT !.at = p + 1, !.stopped = routed.stopped,
                                       !.rows = [sender[n].rows EXCEPT ![p] = r]]
<1>1. sender[n] \in Routings /\ p \in Policies /\ sender[n].pc = "routing"
      /\ UNCHANGED <<config, enabled, reported, row, task>>
  BY Types DEF RoutePolicy
<1>2. routed.items \in SUBSET Items /\ routed.stopped \in SUBSET Items
  BY <1>1, Routed DEF Routings
<1>3. /\ tried \in Rows /\ tried.status # "absent" /\ tried.attempts = 1 /\ tried.items = routed.items
      /\ tried.status = "retrying" => 1 < MaxAttempts
      /\ tried.status = Attempted(1, ok)
  <2>1. 1 \in 1..MaxAttempts
    BY Constants
  <2>2. Attempted(1, ok) \in Statuses \ {"absent"} /\ (Attempted(1, ok) = "retrying" => 1 < MaxAttempts)
    BY <2>1, AfterAttempt
  <2> HIDE DEF routed
  <2> QED
    BY <1>2, <2>1, <2>2 DEF Rows
<1>4. sender' = [sender EXCEPT ![n] = s]
  <2>1. sender' = [sender EXCEPT ![n].at = p + 1, ![n].stopped = routed.stopped, ![n].rows[p] = r]
    BY DEF RoutePolicy
  <2> HIDE DEF r, routed
  <2>2. sender \in [Senders -> Routings]
    BY Types
  <2> QED
    BY <1>1, <2>1, <2>2 DEF Routings
<1>5. /\ queue' = IF sends /\ Attempted(1, ok) = "retrying" THEN Push(queue, Retry(p, n)) ELSE queue
      /\ history' = IF sends THEN Tell(history, p) ELSE history
  BY DEF RoutePolicy
<1> HIDE DEF tried, routed
<1>6. r \in Rows
  BY <1>3, EmptyRows
<1> HIDE DEF r
<1>7. /\ s \in Routings /\ s.pc = "routing" /\ s.at = p + 1 /\ s.on = sender[n].on
      /\ s.stopped = routed.stopped /\ s.rows = [sender[n].rows EXCEPT ![p] = r]
  <2>1. p + 1 \in Nat /\ [sender[n].rows EXCEPT ![p] = r] \in [Policies -> Rows]
    BY <1>1, <1>6, Constants DEF Routings, Policies
  <2> HIDE DEF p
  <2> QED
    BY <1>1, <1>2, <2>1 DEF Routings
<1> HIDE DEF s
<1>8. RoutedBy(n, s, r)
  <2>1. CASE sends
    BY <1>3, <1>4, <1>5, <1>7, <2>1 DEF RoutedBy, r, routed
  <2>2. CASE ~sends
    BY <1>4, <1>5, <1>7, <2>2 DEF RoutedBy, r, routed
  <2> QED
    BY <2>1, <2>2
<1> QED
  BY <1>1, <1>6, <1>7, <1>8

LEMMA ReportEffect ==
    ASSUME TypeOK, NEW n \in Senders, Commit(n) \/ Rollback(n)
    PROVE  /\ sender[n].pc = "routing" /\ UNCHANGED <<config, enabled, queue, task>>
           /\ \E s \in Routings :
                 /\ sender' = [sender EXCEPT ![n] = s] /\ s.pc = "done"
                 /\ \/ /\ reported' = n /\ row' = sender[n].rows /\ UNCHANGED history
                       /\ sender[n].at \notin Policies /\ s.on = sender[n].on
                    \/ UNCHANGED <<reported, row>> /\ UseFault(UndoneSender(n))
<1>1. CASE Commit(n)
  <2>1. sender[n].on \in SUBSET Policies
    BY Types DEF Routings
  <2> DEFINE s == [Ready EXCEPT !.pc = "done", !.on = sender[n].on]
  <2>2. s \in Routings /\ s.pc = "done" /\ s.on = sender[n].on
    BY <2>1, ReadySender
  <2>3. sender' = [sender EXCEPT ![n] = s]
    BY <1>1 DEF Commit
  <2> HIDE DEF s
  <2> QED
    BY <1>1, <2>2, <2>3 DEF Commit
<1>2. CASE Rollback(n)
  <2> DEFINE s == [Ready EXCEPT !.pc = "done"]
  <2>1. s \in Routings /\ s.pc = "done"
    BY ReadySender
  <2>2. sender' = [sender EXCEPT ![n] = s]
    BY <1>2 DEF Rollback
  <2>3. UseFault(UndoneSender(n))
    BY <1>2 DEF Rollback, UndoneSender
  <2> HIDE DEF s
  <2> QED
    BY <1>2, <2>1, <2>2, <2>3 DEF Rollback
<1> QED
  BY <1>1, <1>2

\* Whether there is work left is read from the committed row.
LEMMA ReadEffect ==
    ASSUME TypeOK, NEW t \in Tasks, NEW m \in Messages, Read(t, m)
    PROVE  /\ task[t].pc = "idle" /\ queue[m] > 0 /\ reported = m.of /\ row[m.to].status # "absent"
           /\ queue' = Pop(queue, m) /\ UNCHANGED <<config, enabled, reported, row, sender>>
           /\ \/ Settled(row[m.to]) /\ task' = [task EXCEPT ![t] = Idle]
              \/ ~Settled(row[m.to]) /\ \E j \in Jobs :
                    task' = [task EXCEPT ![t] = j] /\ j.pc = "read" /\ j.message = m /\ j.row = row[m.to]
           /\ history' \in Histories /\ history'.tried = history.tried /\ history'.undone = history.undone
           /\ history'.stranded = history.stranded /\ history'.stale = history.stale
           /\ history'.faults = history.faults
           /\ \A p \in Policies :
                 history'.shared[p] = IF p = m.to /\ InHand(p) THEN history.shared[p] + 1 ELSE history.shared[p]
<1>1. m.to \in Policies /\ row[m.to] \in Rows
  BY Types DEF Messages
<1>2. /\ task[t].pc = "idle" /\ queue[m] > 0 /\ reported = m.of /\ row[m.to].status # "absent"
      /\ queue' = Pop(queue, m) /\ UNCHANGED <<config, enabled, reported, row, sender>>
  BY DEF Read, Found
<1> DEFINE j == [pc |-> "read", message |-> m, row |-> row[m.to]]
<1>3. j \in Jobs /\ j.pc = "read" /\ j.message = m /\ j.row = row[m.to]
  BY <1>1 DEF Jobs
<1>4. task' = [task EXCEPT ![t] = IF Settled(row[m.to]) THEN Idle ELSE j]
  BY DEF Read
<1>5. /\ history' \in Histories /\ history'.tried = history.tried /\ history'.undone = history.undone
      /\ history'.stranded = history.stranded /\ history'.stale = history.stale
      /\ history'.faults = history.faults
      /\ \A p \in Policies :
            history'.shared[p] = IF p = m.to /\ InHand(p) THEN history.shared[p] + 1 ELSE history.shared[p]
  <2>1. CASE InHand(m.to)
    <3>1. history' = [history EXCEPT !.shared = [history.shared EXCEPT ![m.to] = history.shared[m.to] + 1]]
      BY <2>1 DEF Read
    <3> HIDE DEF InHand
    <3> QED
      BY <1>1, <2>1, <3>1, Types DEF Histories, Counters
  <2>2. CASE ~InHand(m.to)
    BY <2>2, Types DEF Read
  <2> QED
    BY <2>1, <2>2
<1> HIDE DEF j
<1> QED
  BY <1>2, <1>3, <1>4, <1>5

\* Switched off, or sent: the task goes on as j, with the row it will write.
SentBy(t, j) ==
    LET p == task[t].message.to
    IN  /\ task' = [task EXCEPT ![t] = j] /\ j.pc = "write" /\ j.message = task[t].message
        /\ \/ /\ (task[t].row.status = "failed" /\ j.row = row[p]) \/ j.row.status = "failed"
              /\ j.row.attempts = row[p].attempts /\ j.row.items = row[p].items
              /\ UNCHANGED queue /\ history' = Aged(history, t)
           \/ /\ j.row.status # "absent" /\ j.row.items = task[t].row.items
              /\ j.row.attempts = task[t].row.attempts + 1
              /\ j.row.status = "retrying" => j.row.attempts < MaxAttempts
              /\ queue' = IF j.row.status = "retrying" THEN Push(queue, Retry(p, task[t].message.of))
                          ELSE queue
              /\ history' = Tell(Aged(history, t), p)

LEMMA SendEffect ==
    ASSUME TypeOK, NEW t \in Tasks, \E ok \in Answers : Send(t, ok)
    PROVE  /\ task[t].pc = "read" /\ ~Locked(task[t].message.to)
           /\ UNCHANGED <<config, enabled, reported, row, sender>>
           /\ \E j \in Jobs : SentBy(t, j)
<1> DEFINE p        == task[t].message.to
           attempts == task[t].row.attempts + 1
<1> PICK ok \in Answers : Send(t, ok)
  OBVIOUS
<1>1. /\ task[t].pc = "read" /\ ~Locked(p) /\ UNCHANGED <<config, enabled, reported, row, sender>>
      /\ task \in [Tasks -> {Idle} \cup Jobs] /\ task[t] \in Jobs /\ task[t].row \in Rows /\ p \in Policies
      /\ row[p] \in Rows
  BY Types DEF Send
<1>2. ~Settled(task[t].row)
  BY <1>1 DEF TypeOK
<1>3. attempts \in 1..MaxAttempts
  BY <1>1, <1>2, Constants DEF Settled, Rows
<1>4. CASE p \notin enabled
  <2> DEFINE r == IF task[t].row.status = "failed" THEN row[p] ELSE [row[p] EXCEPT !.status = "failed"]
             j == [task[t] EXCEPT !.pc = "write", !.row = r]
  <2>1. /\ r \in Rows /\ ((task[t].row.status = "failed" /\ r = row[p]) \/ r.status = "failed")
        /\ r.attempts = row[p].attempts /\ r.items = row[p].items
    BY <1>1 DEF Rows, Statuses
  <2>2. task' = [task EXCEPT ![t].pc = "write", ![t].row = r]
    BY <1>4 DEF Send
  <2>3. UNCHANGED queue /\ history' = Aged(history, t)
    BY <1>4 DEF Send
  <2> HIDE DEF r
  <2>4. task' = [task EXCEPT ![t] = j]
    BY <1>1, <2>2 DEF Jobs
  <2>5. j \in Jobs /\ j.pc = "write" /\ j.message = task[t].message /\ j.row = r
    BY <1>1, <2>1 DEF Jobs
  <2> HIDE DEF j
  <2> QED
    BY <1>1, <2>1, <2>3, <2>4, <2>5 DEF SentBy
<1>5. CASE p \in enabled
  <2> DEFINE status == Attempted(attempts, ok)
             r == [task[t].row EXCEPT !.status = status, !.attempts = attempts]
             j == [task[t] EXCEPT !.pc = "write", !.row = r]
  <2>1. status \in Statuses \ {"absent"} /\ (status = "retrying" => attempts < MaxAttempts)
    BY <1>3, AfterAttempt
  <2>2. /\ task' = [task EXCEPT ![t].pc = "write", ![t].row.status = status, ![t].row.attempts = attempts]
        /\ queue' = IF status = "retrying" THEN Push(queue, Retry(p, task[t].message.of)) ELSE queue
        /\ history' = Tell(Aged(history, t), p)
    BY <1>5 DEF Send
  <2> HIDE DEF status
  <2>3. r \in Rows /\ r.status = status /\ r.attempts = attempts /\ r.items = task[t].row.items
    <3>1. attempts \in 0..MaxAttempts
      BY <1>3, Constants
    <3> HIDE DEF attempts
    <3> QED
      BY <1>1, <2>1, <3>1 DEF Rows
  <2>4. task' = [task EXCEPT ![t] = j]
    <3> HIDE DEF attempts
    <3> QED
      BY <1>1, <2>2 DEF Jobs, Rows
  <2> HIDE DEF r
  <2>5. j \in Jobs /\ j.pc = "write" /\ j.message = task[t].message /\ j.row = r
    BY <1>1, <2>3 DEF Jobs
  <2> HIDE DEF j
  <2> QED
    BY <1>1, <2>1, <2>2, <2>3, <2>4, <2>5 DEF SentBy
<1> QED
  BY <1>4, <1>5

\* The task ends: its row is committed, or its attempt undone.
LEMMA EndEffect ==
    ASSUME TypeOK, NEW t \in Tasks,
           Write(t) \/ Fail(t) \/ \E committed \in BOOLEAN : Crash(t, committed)
    PROVE  LET p == task[t].message.to
           IN  /\ task[t].pc # "idle" /\ task' = [task EXCEPT ![t] = Idle]
               /\ UNCHANGED <<config, enabled, reported, sender>>
               /\ history' \in Histories /\ history'.tried = history.tried /\ history'.shared = history.shared
               /\ history.stranded \subseteq history'.stranded /\ history'.stale = history.stale
               /\ history'.faults >= history.faults
               /\ \/ /\ task[t].pc = "write" /\ row' = [row EXCEPT ![p] = task[t].row]
                     /\ history'.undone = history.undone
                  \/ /\ UNCHANGED row
                     /\ \A q \in Policies : history'.undone[q] =
                           IF task[t].pc = "write" /\ q = p THEN history.undone[q] + 1 ELSE history.undone[q]
               /\ queue' = queue \/ queue' = Push(queue, task[t].message)
               /\ Write(t) \/ p \in history'.stranded \/ queue' = Push(queue, task[t].message)
<1> DEFINE p == task[t].message.to
<1>1. task[t].pc # "idle" /\ task' = [task EXCEPT ![t] = Idle] /\ UNCHANGED <<config, enabled, reported, sender>>
  BY DEF Write, Fail, Crash
<1>2. history \in Histories /\ p \in Policies /\ history.faults \in Nat
  BY <1>1, Types, Constants DEF Histories
<1>3. CASE Write(t)
  BY <1>1, <1>2, <1>3 DEF Write
<1>4. CASE Fail(t)
  <2> DEFINE h == [Undo(t) EXCEPT !.stranded = Undo(t).stranded \cup {p}]
  <2>1. UseFault(h) /\ UNCHANGED <<row, queue>>
    BY <1>4 DEF Fail
  <2>2. /\ h \in Histories /\ h.tried = history.tried /\ h.shared = history.shared
        /\ h.stranded = history.stranded \cup {p} /\ h.stale = history.stale
        /\ h.faults = history.faults /\ h.undone = Undo(t).undone
    BY <1>1, <1>2, UndoneBy DEF Histories
  <2> HIDE DEF h
  <2>3. \A q \in Policies : h.undone[q] =
                           IF task[t].pc = "write" /\ q = p THEN history.undone[q] + 1 ELSE history.undone[q]
    BY <1>1, <2>2, UndoneBy
  <2>4. /\ history' \in Histories /\ history'.tried = h.tried /\ history'.undone = h.undone
        /\ history'.shared = h.shared /\ history'.stranded = h.stranded
        /\ history'.stale = h.stale /\ history'.faults = h.faults + 1
    BY <2>1, <2>2, Faulting
  <2> QED
    BY <1>1, <1>2, <2>1, <2>2, <2>3, <2>4
<1>5. CASE Crash(t, TRUE)
  <2>1. UseFault(history) /\ row' = [row EXCEPT ![p] = task[t].row] /\ task[t].pc = "write"
        /\ queue' = Push(queue, task[t].message)
    BY <1>5 DEF Crash
  <2>2. /\ history' \in Histories /\ history'.tried = history.tried /\ history'.undone = history.undone
        /\ history'.shared = history.shared /\ history'.stranded = history.stranded
        /\ history'.stale = history.stale /\ history'.faults = history.faults + 1
    BY <1>2, <2>1, Faulting
  <2> QED
    BY <1>1, <1>2, <2>1, <2>2
<1>6. CASE Crash(t, FALSE)
  <2>1. UseFault(Undo(t)) /\ UNCHANGED row /\ queue' = Push(queue, task[t].message)
    BY <1>6 DEF Crash
  <2>2. /\ Undo(t) \in Histories /\ Undo(t).tried = history.tried /\ Undo(t).shared = history.shared
        /\ Undo(t).stranded = history.stranded /\ Undo(t).stale = history.stale
        /\ Undo(t).faults = history.faults
        /\ \A q \in Policies : Undo(t).undone[q] =
              IF task[t].pc = "write" /\ q = task[t].message.to THEN history.undone[q] + 1
              ELSE history.undone[q]
    BY <1>1, UndoneBy
  <2>3. /\ history' \in Histories /\ history'.tried = Undo(t).tried /\ history'.undone = Undo(t).undone
        /\ history'.shared = Undo(t).shared /\ history'.stranded = Undo(t).stranded
        /\ history'.stale = Undo(t).stale
        /\ history'.faults = Undo(t).faults + 1
    BY <2>1, <2>2, Faulting
  <2> QED
    BY <1>1, <1>2, <2>1, <2>2, <2>3
<1>7. (\E committed \in BOOLEAN : Crash(t, committed)) => Crash(t, TRUE) \/ Crash(t, FALSE)
  BY Zenon
<1> QED
  BY <1>3, <1>4, <1>5, <1>6, <1>7

\* A message that finds no delivery, or is lost.
LEMMA MissEffect ==
    ASSUME TypeOK, NEW m \in Messages, Miss(m) \/ Lose(m)
    PROVE  /\ UNCHANGED <<config, enabled, reported, row, sender, task>> /\ queue[m] > 0
           /\ history' \in Histories /\ history'.tried = history.tried /\ history'.undone = history.undone
           /\ history'.shared = history.shared /\ history.stranded \subseteq history'.stranded
           /\ history'.stale = history.stale /\ history'.faults >= history.faults
           /\ queue' \in [Messages -> Nat] /\ \A n \in Messages \ {m} : queue'[n] >= queue[n]
           /\ \/ m.to \in history'.stranded
              \/ /\ ~Found(m)
                 /\ \/ sender[m.of].pc # "routing"
                    \/ \E n \in Messages : n.to = m.to /\ n.of = m.of /\ queue'[n] > 0
<1>1. /\ history \in Histories /\ queue \in [Messages -> Nat] /\ m.to \in Policies /\ history.faults \in Nat
      /\ queue[m] > 0 /\ UNCHANGED <<config, enabled, reported, row, sender, task>>
  BY Types, Constants DEF Messages, Histories, Miss, Lose
<1>2. /\ Pop(queue, m) \in [Messages -> Nat] /\ \A n \in Messages \ {m} : Pop(queue, m)[n] = queue[n]
  BY <1>1, Queueing
<1>3. [history EXCEPT !.stranded = @ \cup {m.to}] \in Histories
  BY <1>1 DEF Histories
<1>4. CASE Miss(m) /\ m.misses < MaxMisses
  <2> DEFINE n == [m EXCEPT !.misses = m.misses + 1]
  <2>1. n \in Messages /\ n.to = m.to /\ n.of = m.of
    BY <1>4, Constants DEF Messages
  <2>2. queue' = Push(Pop(queue, m), n) /\ ~Found(m)
    BY <1>4 DEF Miss
  <2>3. UNCHANGED history
    <3>1. m.misses # MaxMisses
      BY <1>4, Constants DEF Messages
    <3> QED
      BY <1>4, <3>1 DEF Miss
  <2> HIDE DEF n
  <2>4. /\ queue' \in [Messages -> Nat] /\ queue'[n] = Pop(queue, m)[n] + 1
        /\ \A k \in Messages \ {n} : queue'[k] = Pop(queue, m)[k]
    BY <1>2, <2>1, <2>2, Queueing
  <2>5. queue'[n] > 0 /\ \A k \in Messages \ {m} : queue'[k] >= queue[k]
    BY <1>1, <1>2, <2>1, <2>4
  <2> QED
    BY <1>1, <2>1, <2>2, <2>3, <2>4, <2>5
<1>5. CASE Miss(m) /\ ~(m.misses < MaxMisses)
  <2>1. queue' = Pop(queue, m) /\ ~Found(m) /\ m.misses = MaxMisses
    BY <1>5, Constants DEF Miss, Messages
  <2>2. \A k \in Messages \ {m} : queue'[k] >= queue[k]
    BY <1>1, <1>2, <2>1
  <2>3. CASE sender[m.of].pc = "routing"
    <3>1. history' = [history EXCEPT !.stranded = @ \cup {m.to}]
      BY <1>5, <2>1, <2>3 DEF Miss
    <3> QED
      BY <1>1, <1>2, <1>3, <2>1, <2>2, <3>1 DEF Histories
  <2>4. CASE sender[m.of].pc # "routing"
    <3>1. history' = history
      BY <1>5, <2>1, <2>4 DEF Miss
    <3> QED
      BY <1>1, <1>2, <2>1, <2>2, <2>4, <3>1
  <2> QED
    BY <2>3, <2>4
<1>6. CASE Lose(m)
  <2> DEFINE h == [history EXCEPT !.stranded = @ \cup {m.to}]
  <2>1. UseFault(h) /\ queue' = Pop(queue, m)
    BY <1>6 DEF Lose
  <2>2. /\ h \in Histories /\ h.tried = history.tried /\ h.undone = history.undone /\ h.shared = history.shared
        /\ h.stranded = history.stranded \cup {m.to} /\ h.stale = history.stale
        /\ h.faults = history.faults
    BY <1>1, <1>3 DEF Histories
  <2> HIDE DEF h
  <2>3. /\ history' \in Histories /\ history'.tried = h.tried /\ history'.undone = h.undone
        /\ history'.shared = h.shared /\ history'.stranded = h.stranded
        /\ history'.stale = h.stale /\ history'.faults = h.faults + 1
    BY <2>1, <2>2, Faulting
  <2>4. \A k \in Messages \ {m} : queue'[k] >= queue[k]
    BY <1>1, <1>2, <2>1
  <2> QED
    BY <1>1, <1>2, <2>1, <2>2, <2>3, <2>4
<1> QED
  BY <1>4, <1>5, <1>6

LEMMA ToggleEffect ==
    ASSUME TypeOK, \E p \in Policies : Toggle(p)
    PROVE  /\ UNCHANGED <<config, reported, row, sender, queue, task>> /\ enabled' \in SUBSET Policies
           /\ history' \in Histories /\ history'.tried = history.tried /\ history'.undone = history.undone
           /\ history'.shared = history.shared /\ history'.stranded = history.stranded
           /\ history'.stale = history.stale /\ history'.faults = history.faults
<1> PICK p \in Policies : Toggle(p)
  OBVIOUS
<1> QED
  BY Types, Constants DEF Toggle, Histories

-----------------------------------------------------------------------------
(* One transaction reports, and tasks work on what it committed. *)

\* A committed or pending delivery.
Sound(r) == /\ r.status = "absent" => r = Absent
            /\ r.status = "retrying" => r.attempts < MaxAttempts

\* What a transaction has inserted so far, in the order of the policies.
Inserted(s) ==
    \A p \in Policies : /\ s.rows[p] # Absent => p < s.at /\ s.rows[p].attempts = 1
                        /\ s.rows[p].status = "absent" => s.rows[p] = Absent
                        /\ s.rows[p].status = "retrying" => 1 < MaxAttempts

\* One transaction at a time reports, and only once.
Transactions ==
    /\ \A n \in Senders : sender[n].pc = "routing" =>
          /\ reported = 0 /\ sender[n].at >= 1 /\ Inserted(sender[n])
          /\ \A k \in Senders \ {n} : sender[k].pc # "routing"
    /\ reported = 0 => row = NoRows
    /\ reported # 0 => sender[reported].pc = "done"

\* The delivery a task has exists, and one task at a time writes it.
Working(t) == task[t].pc # "idle"
Writes(t, p) == task[t].pc = "write" /\ task[t].message.to = p

Hands ==
    /\ \A p \in Policies : Sound(row[p])
    /\ \A t \in Tasks : Working(t) =>
          /\ task[t].message.of = reported
          /\ row[task[t].message.to].status # "absent"
          /\ task[t].row.status # "absent" /\ Sound(task[t].row)
          /\ task[t].row.items = row[task[t].message.to].items
          /\ \A u \in Tasks \ {t} : Writes(t, task[t].message.to) => ~Writes(u, task[t].message.to)

BaseInv == TypeOK /\ Transactions /\ Hands

LEMMA BaseInit == Init => BaseInv
<1> SUFFICES ASSUME Init PROVE BaseInv
  OBVIOUS
<1>1. /\ Ready \in Routings /\ Ready.pc = "ready"
      /\ [Ready EXCEPT !.pc = "done"] \in Routings /\ [Ready EXCEPT !.pc = "done"].pc = "done"
  BY ReadySender
<1>2. sender \in [Senders -> Routings] /\ \A n \in Senders : sender[n].pc # "routing"
  <2> HIDE DEF Ready
  <2>1. \A n \in Senders : sender[n] = Ready \/ sender[n] = [Ready EXCEPT !.pc = "done"]
    BY DEF Init
  <2>2. sender \in [Senders -> Routings]
    BY <1>1 DEF Init
  <2> QED
    BY <1>1, <2>1, <2>2
<1>3. task \in [Tasks -> {Idle} \cup Jobs] /\ \A t \in Tasks : task[t].pc = "idle"
  BY DEF Init, Idle
<1>4. history \in Histories
  BY Constants DEF Init, Histories, Counters
<1>5. TypeOK
  <2>1. config \in Configs /\ enabled \in SUBSET Policies /\ reported \in 0..NumSenders
        /\ queue \in [Messages -> Nat] /\ row \in [Policies -> Rows]
    BY Constants, EmptyRows DEF Init
  <2> QED
    BY <1>2, <1>3, <1>4, <2>1 DEF TypeOK
<1>6. Hands
  <2>1. \A p \in Policies : row[p] = Absent
    BY EmptyRows DEF Init
  <2> QED
    BY <1>3, <2>1 DEF Hands, Working, Sound, Absent
<1> QED
  BY <1>2, <1>5, <1>6 DEF BaseInv, Transactions, Init

LEMMA BeginKeepsBase ==
    ASSUME BaseInv, NEW n \in Senders, Begin(n) \/ Waited(n)
    PROVE  BaseInv'
<1>1. TypeOK /\ Transactions /\ Hands
  BY DEF BaseInv
<1>2. PICK s \in Routings :
             /\ sender' = [sender EXCEPT ![n] = s] /\ sender[n].pc \in {"ready", "waiting"}
             /\ \/ s.pc = "done" \/ s.pc = "waiting"
                \/ /\ s.pc = "routing" /\ reported = 0 /\ s.at = 1 /\ s.rows = NoRows
                   /\ \A k \in Senders : sender[k].pc # "routing"
             /\ UNCHANGED <<config, enabled, reported, row, queue, task, history>>
  BY <1>1, BeginEffect
<1>3. sender'[n] = s /\ \A k \in Senders \ {n} : sender'[k] = sender[k]
  BY <1>1, <1>2, Types
<1>4. TypeOK'
  BY <1>1, <1>2 DEF TypeOK
<1>5. Hands'
  BY <1>1, <1>2 DEF Hands, Working, Writes, Sound
<1>6. Transactions'
  <2>1. ASSUME NEW k \in Senders, sender'[k].pc = "routing"
        PROVE  /\ reported = 0 /\ sender'[k].at >= 1 /\ Inserted(sender'[k])
               /\ \A m \in Senders \ {k} : sender'[m].pc # "routing"
    <3>1. CASE k = n
      <4>1. Inserted(s)
        <5>1. \A p \in Policies : s.rows[p] = Absent
          BY <1>2, <1>3, <2>1, <3>1, EmptyRows
        <5>2. Absent.status # "retrying"
          BY DEF Absent
        <5> QED
          BY <5>1, <5>2 DEF Inserted
      <4> QED
        BY <1>2, <1>3, <2>1, <3>1, <4>1
    <3>2. CASE k # n
      <4>1. sender[k].pc = "routing"
        BY <1>3, <2>1, <3>2
      <4>2. s.pc # "routing"
        BY <1>2, <4>1
      <4> QED
        BY <1>1, <1>3, <3>2, <4>1, <4>2 DEF Transactions
    <3> QED
      BY <3>1, <3>2
  <2>2. reported # 0 => sender'[reported].pc = "done"
    <3>1. reported # 0 => reported \in Senders /\ reported # n
      BY <1>1, <1>2, Types DEF Transactions, Senders
    <3> QED
      BY <1>1, <1>3, <3>1 DEF Transactions
  <2> QED
    BY <1>1, <1>2, <2>1, <2>2 DEF Transactions, Inserted
<1> QED
  BY <1>4, <1>5, <1>6 DEF BaseInv

LEMMA RouteKeepsBase ==
    ASSUME BaseInv, NEW n \in Senders, \E ok \in Answers : RoutePolicy(n, ok)
    PROVE  BaseInv'
<1> DEFINE p == sender[n].at
<1>1. TypeOK /\ Transactions /\ Hands
  BY DEF BaseInv
<1>2. p \in Policies /\ sender[n].pc = "routing" /\ UNCHANGED <<config, enabled, reported, row, task>>
  BY <1>1, RouteEffect
<1>0. PICK s \in Routings, r \in Rows : RoutedBy(n, s, r)
  BY <1>1, RouteEffect, Zenon
<1>3. /\ sender' = [sender EXCEPT ![n] = s]
      /\ s.pc = "routing" /\ s.at = p + 1 /\ s.rows = [sender[n].rows EXCEPT ![p] = r]
      /\ \/ /\ r.status # "absent" /\ r.attempts = 1
            /\ r.status = "retrying" => r.attempts < MaxAttempts
            /\ history' = Tell(history, p)
            /\ queue' = IF r.status = "retrying" THEN Push(queue, Retry(p, n)) ELSE queue
         \/ r = Absent /\ UNCHANGED <<queue, history>>
  BY <1>0 DEF RoutedBy
<1>4. sender'[n] = s /\ \A k \in Senders \ {n} : sender'[k] = sender[k]
  BY <1>1, <1>3, Types
<1>5. TypeOK'
  <2>1. queue' \in [Messages -> Nat] /\ history' \in Histories
    BY <1>1, <1>2, <1>3, Types, Queueing, RetryMessage, Telling
  <2> QED
    BY <1>1, <1>2, <1>3, <2>1 DEF TypeOK
<1>6. Hands'
  BY <1>1, <1>2 DEF Hands, Working, Writes, Sound
<1>7. Inserted(s)
  <2>1. Inserted(sender[n]) /\ sender[n].rows \in [Policies -> Rows]
    BY <1>1, <1>2, Types DEF Transactions, Routings
  <2>2. s.rows[p] = r /\ \A q \in Policies \ {p} : s.rows[q] = sender[n].rows[q]
    BY <1>2, <1>3, <2>1
  <2>3. \A q \in Policies : (q < p => q < p + 1) /\ p < p + 1
    BY <1>2, Constants DEF Policies
  <2>4. Absent.status # "retrying"
    BY DEF Absent
  <2> QED
    BY <1>3, <2>1, <2>2, <2>3, <2>4 DEF Inserted
<1>8. Transactions'
  <2>1. /\ reported = 0 /\ p + 1 >= 1
        /\ \A k \in Senders \ {n} : sender[k].pc # "routing"
    BY <1>1, <1>2, Constants DEF Transactions, Policies
  <2>2. reported' = 0 => row' = NoRows
    BY <1>1, <1>2 DEF Transactions
  <2>3. \A k \in Senders : sender'[k].pc = "routing" =>
          /\ reported' = 0 /\ sender'[k].at >= 1 /\ Inserted(sender'[k])
          /\ \A m \in Senders \ {k} : sender'[m].pc # "routing"
    BY <1>2, <1>3, <1>4, <1>7, <2>1
  <2> QED
    BY <1>2, <2>1, <2>2, <2>3 DEF Transactions, Inserted
<1> QED
  BY <1>5, <1>6, <1>8 DEF BaseInv

LEMMA ReportKeepsBase ==
    ASSUME BaseInv, NEW n \in Senders, Commit(n) \/ Rollback(n)
    PROVE  BaseInv'
<1>1. TypeOK /\ Transactions /\ Hands
  BY DEF BaseInv
<1>2. sender[n].pc = "routing" /\ UNCHANGED <<config, enabled, queue, task>>
  BY <1>1, ReportEffect
<1>3. PICK s \in Routings :
         /\ sender' = [sender EXCEPT ![n] = s] /\ s.pc = "done"
         /\ \/ reported' = n /\ row' = sender[n].rows /\ UNCHANGED history
            \/ UNCHANGED <<reported, row>> /\ UseFault(UndoneSender(n))
  BY <1>1, ReportEffect
<1>4. sender'[n] = s /\ \A k \in Senders \ {n} : sender'[k] = sender[k]
  BY <1>1, <1>3, Types
<1>5. /\ reported = 0 /\ row = NoRows /\ Inserted(sender[n])
      /\ \A k \in Senders \ {n} : sender[k].pc # "routing"
  BY <1>1, <1>2 DEF Transactions
<1>6. \A t \in Tasks : ~Working(t)
  BY <1>1, <1>5, Types DEF Hands, Working, Senders
<1>7. sender[n].rows \in [Policies -> Rows] /\ n \in 0..NumSenders /\ n # 0
  BY <1>1, Types, Constants DEF Routings, Senders
<1>8. history' \in Histories
  BY <1>1, <1>3, Types, Faulting, UndoneRouting
<1>9. TypeOK'
  BY <1>1, <1>2, <1>3, <1>7, <1>8 DEF TypeOK
<1>10. \A p \in Policies : Sound(row'[p])
  <2>1. \A p \in Policies : Sound(sender[n].rows[p]) /\ Sound(row[p])
    BY <1>1, <1>5 DEF Inserted, Sound, Hands, Absent
  <2> QED
    BY <1>3, <2>1
<1>11. Hands'
  <2>1. \A t \in Tasks : task'[t].pc = "idle"
    BY <1>2, <1>6 DEF Working
  <2> QED
    BY <1>10, <2>1 DEF Hands, Working, Sound
<1>12. Transactions'
  <2>1. \A k \in Senders : sender'[k].pc # "routing"
    BY <1>3, <1>4, <1>5
  <2>2. reported' = 0 => row' = NoRows
    BY <1>3, <1>5, <1>7
  <2>3. reported' # 0 => sender'[reported'].pc = "done"
    BY <1>3, <1>4, <1>5
  <2> QED
    BY <2>1, <2>2, <2>3 DEF Transactions
<1> QED
  BY <1>9, <1>11, <1>12 DEF BaseInv

LEMMA ReadKeepsBase ==
    ASSUME BaseInv, NEW t \in Tasks, NEW m \in Messages, Read(t, m)
    PROVE  BaseInv'
<1>1. TypeOK /\ Transactions /\ Hands
  BY DEF BaseInv
<1>2. /\ task[t].pc = "idle" /\ queue[m] > 0 /\ reported = m.of /\ row[m.to].status # "absent"
      /\ queue' = Pop(queue, m) /\ UNCHANGED <<config, enabled, reported, row, sender>>
      /\ history' \in Histories /\ m.to \in Policies
  BY <1>1, ReadEffect DEF Messages
<1>3. queue' \in [Messages -> Nat]
  BY <1>1, <1>2, Queueing, Types
<1>4. Transactions'
  BY <1>1, <1>2 DEF Transactions, Inserted
<1>5. CASE Settled(row[m.to]) /\ task' = [task EXCEPT ![t] = Idle]
  <2>1. Idle.pc = "idle" /\ task'[t] = Idle /\ \A u \in Tasks \ {t} : task'[u] = task[u]
    BY <1>1, <1>5, Types DEF Idle
  <2>2. TypeOK'
    BY <1>1, <1>2, <1>3, <1>5, <2>1 DEF TypeOK
  <2>3. Hands'
    BY <1>1, <1>2, <2>1 DEF Hands, Working, Writes, Sound
  <2> QED
    BY <1>4, <2>2, <2>3 DEF BaseInv
<1>6. ASSUME NEW j \in Jobs, ~Settled(row[m.to]), task' = [task EXCEPT ![t] = j],
             j.pc = "read", j.message = m, j.row = row[m.to]
      PROVE  BaseInv'
  <2>1. task'[t] = j /\ \A u \in Tasks \ {t} : task'[u] = task[u]
    BY <1>1, <1>6, Types
  <2>2. TypeOK'
    BY <1>1, <1>2, <1>3, <1>6, <2>1 DEF TypeOK
  <2>3. Sound(row[m.to])
    BY <1>1, <1>2 DEF Hands
  <2>4. Hands'
    BY <1>1, <1>2, <1>6, <2>1, <2>3 DEF Hands, Working, Writes, Sound
  <2> QED
    BY <1>4, <2>2, <2>4 DEF BaseInv
<1> QED
  BY <1>1, <1>5, <1>6, ReadEffect

LEMMA SendKeepsBase ==
    ASSUME BaseInv, NEW t \in Tasks, \E ok \in Answers : Send(t, ok)
    PROVE  BaseInv'
<1> DEFINE p == task[t].message.to
<1>1. TypeOK /\ Transactions /\ Hands
  BY DEF BaseInv
<1>2. task[t].pc = "read" /\ ~Locked(p) /\ UNCHANGED <<config, enabled, reported, row, sender>>
  BY <1>1, SendEffect
<1>3. PICK j \in Jobs : SentBy(t, j)
  BY <1>1, SendEffect, Zenon
<1>4. task'[t] = j /\ \A u \in Tasks \ {t} : task'[u] = task[u]
  BY <1>1, <1>3, Types DEF SentBy
<1>5. /\ p \in Policies /\ task[t].message.of \in Senders /\ task[t].row \in Rows /\ row[p] \in Rows
      /\ history \in Histories /\ queue \in [Messages -> Nat] /\ task[t] \in Jobs
  BY <1>1, <1>2, Types
<1>6. queue' \in [Messages -> Nat]
  BY <1>3, <1>5, Queueing, RetryMessage DEF SentBy
<1>7. history' \in Histories
  BY <1>1, <1>2, <1>3, <1>5, Aging, Telling DEF SentBy
<1>8. j.pc = "write" /\ j.message = task[t].message
  BY <1>3 DEF SentBy
<1>9. TypeOK'
  <2>1. task' \in [Tasks -> {Idle} \cup Jobs]
    BY <1>1, <1>3, Types DEF SentBy
  <2> QED
    BY <1>1, <1>2, <1>4, <1>6, <1>7, <1>8, <2>1 DEF TypeOK
<1>10. Transactions'
  BY <1>1, <1>2 DEF Transactions, Inserted
<1>11. /\ task[t].message.of = reported /\ row[p].status # "absent" /\ Sound(row[p])
       /\ task[t].row.items = row[p].items
  BY <1>1, <1>2, <1>5 DEF Hands, Working
<1>12. j.row.status # "absent" /\ Sound(j.row) /\ j.row.items = row[p].items
  BY <1>3, <1>11 DEF Sound, SentBy
<1>13. \A u \in Tasks : ~Writes(u, p)
  BY <1>2 DEF Locked, Writes
<1>14. Hands'
  <2>1. ASSUME NEW u \in Tasks, Working(u)'
        PROVE  /\ task'[u].message.of = reported
               /\ row[task'[u].message.to].status # "absent"
               /\ task'[u].row.status # "absent" /\ Sound(task'[u].row)
               /\ task'[u].row.items = row[task'[u].message.to].items
    BY <1>1, <1>4, <1>8, <1>11, <1>12, <2>1 DEF Hands, Working
  <2>2. ASSUME NEW u \in Tasks, NEW v \in Tasks \ {u}, task'[u].pc = "write", task'[v].pc = "write"
        PROVE  task'[v].message.to # task'[u].message.to
    BY <1>1, <1>4, <1>8, <1>13, <2>2 DEF Hands, Working, Writes
  <2> QED
    BY <1>1, <1>2, <2>1, <2>2 DEF Hands, Working, Writes, Sound
<1> QED
  BY <1>9, <1>10, <1>14 DEF BaseInv

LEMMA EndKeepsBase ==
    ASSUME BaseInv, NEW t \in Tasks,
           Write(t) \/ Fail(t) \/ \E committed \in BOOLEAN : Crash(t, committed)
    PROVE  BaseInv'
<1> DEFINE p == task[t].message.to
<1>1. TypeOK /\ Transactions /\ Hands
  BY DEF BaseInv
<1>2. /\ task[t].pc # "idle" /\ task' = [task EXCEPT ![t] = Idle]
      /\ UNCHANGED <<config, enabled, reported, sender>> /\ history' \in Histories
      /\ row' = [row EXCEPT ![p] = task[t].row] \/ row' = row
      /\ queue' = queue \/ queue' = Push(queue, task[t].message)
  BY <1>1, EndEffect
<1>3. /\ task[t].message \in Messages /\ p \in Policies /\ task[t].row \in Rows
      /\ queue \in [Messages -> Nat] /\ row \in [Policies -> Rows] /\ reported \in 0..NumSenders
      /\ task[t].message.of \in Senders
  BY <1>1, <1>2, Types
<1>4. Idle.pc = "idle" /\ task'[t] = Idle /\ \A u \in Tasks \ {t} : task'[u] = task[u]
  BY <1>1, <1>2, Types DEF Idle
<1>5. /\ reported = task[t].message.of /\ task[t].row.status # "absent" /\ Sound(task[t].row)
      /\ task[t].row.items = row[p].items
  BY <1>1, <1>2 DEF Hands, Working
<1>6. \A q \in Policies : row'[q] = row[q] \/ (q = p /\ row'[q] = task[t].row)
  BY <1>2, <1>3
<1>7. row' \in [Policies -> Rows]
  BY <1>2, <1>3
<1>8. TypeOK'
  <2>1. queue' \in [Messages -> Nat]
    BY <1>2, <1>3, Queueing
  <2>2. task' \in [Tasks -> {Idle} \cup Jobs]
    BY <1>1, <1>2, Types
  <2> QED
    BY <1>1, <1>2, <1>4, <1>7, <2>1, <2>2 DEF TypeOK
<1>9. Transactions'
  <2>1. reported # 0
    BY <1>3, <1>5, Constants DEF Senders
  <2> QED
    BY <1>1, <1>2, <2>1 DEF Transactions, Inserted
<1>10. Hands'
  <2>1. \A q \in Policies : Sound(row'[q])
    BY <1>1, <1>5, <1>6 DEF Hands
  <2>2. \A u \in Tasks : Working(u)' => u # t /\ Working(u) /\ task'[u] = task[u] /\ task[u].message.to \in Policies
    BY <1>1, <1>4, Types DEF Working
  <2>3. \A q \in Policies : /\ row'[q].items = row[q].items
                            /\ row[q].status # "absent" => row'[q].status # "absent"
    BY <1>5, <1>6
  <2>4. ASSUME NEW u \in Tasks, Working(u)'
        PROVE  /\ task'[u].message.of = reported
               /\ row'[task'[u].message.to].status # "absent"
               /\ task'[u].row.status # "absent" /\ Sound(task'[u].row)
               /\ task'[u].row.items = row'[task'[u].message.to].items
    BY <1>1, <2>2, <2>3, <2>4 DEF Hands, Working
  <2>5. ASSUME NEW u \in Tasks, NEW v \in Tasks \ {u}, task'[u].pc = "write", task'[v].pc = "write"
        PROVE  task'[v].message.to # task'[u].message.to
    BY <1>1, <2>2, <2>5 DEF Hands, Working, Writes
  <2> QED
    BY <1>2, <2>1, <2>4, <2>5 DEF Hands, Working, Writes, Sound
<1> QED
  BY <1>8, <1>9, <1>10 DEF BaseInv

LEMMA MissKeepsBase ==
    ASSUME BaseInv, NEW m \in Messages, Miss(m) \/ Lose(m)
    PROVE  BaseInv'
<1>1. TypeOK /\ Transactions /\ Hands
  BY DEF BaseInv
<1>2. /\ UNCHANGED <<config, enabled, reported, row, sender, task>> /\ history' \in Histories
      /\ queue' \in [Messages -> Nat]
  BY <1>1, MissEffect
<1> QED
  BY <1>1, <1>2 DEF BaseInv, TypeOK, Transactions, Inserted, Hands, Working, Writes, Sound

LEMMA ToggleKeepsBase ==
    ASSUME BaseInv, \E p \in Policies : Toggle(p)
    PROVE  BaseInv'
<1>1. TypeOK /\ Transactions /\ Hands
  BY DEF BaseInv
<1>2. /\ UNCHANGED <<config, reported, row, sender, queue, task>> /\ history' \in Histories
      /\ enabled' \in SUBSET Policies
  BY <1>1, ToggleEffect
<1> QED
  BY <1>1, <1>2 DEF BaseInv, TypeOK, Transactions, Inserted, Hands, Working, Writes, Sound

\* The kinds of steps.
Beginning(n)  == Begin(n) \/ Waited(n)
Routing(n)    == \E ok \in Answers : RoutePolicy(n, ok)
Reporting(n)  == Commit(n) \/ Rollback(n)
Sending(t)    == \E ok \in Answers : Send(t, ok)
Ending(t)     == Write(t) \/ Fail(t) \/ \E committed \in BOOLEAN : Crash(t, committed)
Missing(m)    == Miss(m) \/ Lose(m)
Toggling      == \E p \in Policies : Toggle(p)

LEMMA Steps ==
    ASSUME [Next]_vars
    PROVE  \/ \E n \in Senders : Beginning(n) \/ Routing(n) \/ Reporting(n)
           \/ \E t \in Tasks : Sending(t) \/ Ending(t) \/ \E m \in Messages : Read(t, m)
           \/ \E m \in Messages : Missing(m)
           \/ Toggling \/ UNCHANGED vars
<1>1. CASE Deliver
  BY <1>1, Zenon DEF Deliver, Missing, Sending, Ending
<1>2. CASE Environment
  BY <1>2, Zenon DEF Environment, Reporting, Ending, Missing, Toggling
<1>3. CASE \E n \in Senders : Dispatch(n)
  BY <1>3, Zenon DEF Dispatch, Beginning, Routing, Reporting
<1> QED
  BY <1>1, <1>2, <1>3, Zenon DEF Next

LEMMA BaseStep == BaseInv /\ [Next]_vars => BaseInv'
<1> SUFFICES ASSUME BaseInv, [Next]_vars PROVE BaseInv'
  OBVIOUS
<1>1. CASE \E n \in Senders : Beginning(n) \/ Routing(n) \/ Reporting(n)
  BY <1>1, BeginKeepsBase, RouteKeepsBase, ReportKeepsBase, Zenon DEF Beginning, Routing, Reporting
<1>2. CASE \E t \in Tasks : Sending(t) \/ Ending(t) \/ \E m \in Messages : Read(t, m)
  BY <1>2, SendKeepsBase, EndKeepsBase, ReadKeepsBase, Zenon DEF Sending, Ending
<1>3. CASE (\E m \in Messages : Missing(m)) \/ Toggling
  BY <1>3, MissKeepsBase, ToggleKeepsBase, Zenon DEF Missing, Toggling
<1>4. CASE UNCHANGED vars
  BY <1>4 DEF vars, BaseInv, TypeOK, Transactions, Inserted, Hands, Working, Writes, Sound, Settled
<1> QED
  BY <1>1, <1>2, <1>3, <1>4, Steps

-----------------------------------------------------------------------------
(* What is routed: the running selection is the one by the policies' order. *)

\* The items that a policy before the k-th one stopped.
Passed(k) == {i \in Reported : \E q \in Policies : q < k /\ config.policy[q].stop /\ Interests(q, i)}

\* The delivery r of a policy, when the channels in on were enabled.
Told(p, r, on) ==
    IF r = Absent THEN Expected(p) = {} \/ p \notin on ELSE Expected(p) # {} /\ r.items = Expected(p)

Routes ==
    /\ \A n \in Senders : sender[n].pc = "routing" =>
          /\ sender[n].stopped = Passed(sender[n].at)
          /\ \A p \in Policies : p < sender[n].at => Told(p, sender[n].rows[p], sender[n].on)
    /\ reported # 0 => \A p \in Policies : Told(p, row[p], sender[reported].on)
    /\ sender[1].pc = "done" /\ reported = 0 => ~Reports \/ history.faults > 0

\* The selection of a policy, and what it stops for the later ones.
LEMMA Selection ==
    ASSUME NEW p \in Policies
    PROVE  /\ Route(p, Passed(p)).items = Expected(p)
           /\ Route(p, Passed(p)).stopped = Passed(p + 1)
<1>1. p \in Nat /\ \A q \in Policies : q \in Nat /\ (q < p + 1 <=> q < p \/ q = p)
  BY Constants DEF Policies
<1>2. \A i \in Reported : Interests(p, i) <=> i \in Candidates(p) /\ i \in config.policy[p].accepts
  BY DEF Interests, Candidates
<1>3. Expected(p) = {i \in Reported : Interests(p, i) /\ i \notin Passed(p)}
  BY DEF Expected, Passed
<1>4. (Candidates(p) \ Passed(p)) \cap config.policy[p].accepts = Expected(p)
  <2>1. Candidates(p) \subseteq Reported
    BY DEF Candidates
  <2> QED
    BY <1>2, <1>3, <2>1
<1>5. Passed(p + 1) = IF config.policy[p].stop THEN Passed(p) \cup {i \in Reported : Interests(p, i)} ELSE Passed(p)
  BY <1>1 DEF Passed
<1>6. Passed(p) \cup {i \in Reported : Interests(p, i)} = Passed(p) \cup Expected(p)
  BY <1>3
<1> QED
  BY <1>4, <1>5, <1>6 DEF Route

\* Whoever is to be told something is a reason to report.
LEMMA ExpectedIsReported == (\E p \in Policies : Expected(p) # {}) => Reports
<1> SUFFICES ASSUME NEW p \in Policies, NEW i \in Expected(p) PROVE Reports
  OBVIOUS
<1>1. i \in Reported /\ config.policy[p].events \cap {"backup_summary", EventOf(i)} # {}
  BY DEF Expected, Interests
<1> QED
  BY <1>1 DEF Reports, SomePolicy

\* The configuration decides what is expected, and it stays.
LEMMA SameConfig ==
    ASSUME config' = config
    PROVE  /\ \A k : Passed(k)' = Passed(k)
           /\ \A p, r, on : Told(p, r, on)' = Told(p, r, on)
           /\ Reports' = Reports
<1>1. \A i : EventOf(i)' = EventOf(i)
  BY DEF EventOf
<1>2. Reported' = Reported
  BY DEF Reported
<1>3. \A q, i : Interests(q, i)' = Interests(q, i)
  BY <1>1 DEF Interests
<1>4. \A k : Passed(k)' = Passed(k)
  BY <1>2, <1>3 DEF Passed
<1>5. \A p : Expected(p)' = Expected(p)
  BY <1>2, <1>3 DEF Expected
<1>6. Reports' = Reports
  BY <1>1, <1>2 DEF Reports, SomePolicy
<1> QED
  BY <1>4, <1>5, <1>6 DEF Told

LEMMA RoutesInit == Init => Routes
<1> SUFFICES ASSUME Init PROVE Routes
  OBVIOUS
<1>1. Ready.pc = "ready" /\ [Ready EXCEPT !.pc = "done"].pc = "done" /\ 1 \in Senders
  <2>1. 1 \in Senders
    BY Constants DEF Senders
  <2> QED
    BY <2>1, ReadySender
<1>2. sender[1].pc = "ready" /\ \A n \in Senders : sender[n].pc # "routing"
  <2> HIDE DEF Ready
  <2>1. /\ \A n \in Senders : sender[n] = Ready \/ sender[n] = [Ready EXCEPT !.pc = "done"]
        /\ sender[1] = Ready
    BY <1>1 DEF Init
  <2> QED
    BY <1>1, <2>1
<1> QED
  BY <1>2 DEF Routes, Init

LEMMA BeginKeepsRoutes ==
    ASSUME BaseInv, Routes, NEW n \in Senders, Beginning(n)
    PROVE  Routes'
<1>1. TypeOK /\ Transactions
  BY DEF BaseInv
<1>2. PICK s \in Routings :
             /\ sender' = [sender EXCEPT ![n] = s] /\ sender[n].pc \in {"ready", "waiting"}
             /\ \/ s.pc = "done" /\ (reported # 0 \/ ~Reports)
                \/ s.pc = "waiting"
                \/ /\ s.pc = "routing" /\ reported = 0 /\ s.at = 1 /\ s.stopped = {}
                   /\ s.on = enabled /\ s.rows = NoRows
                   /\ \A k \in Senders : sender[k].pc # "routing"
             /\ UNCHANGED <<config, enabled, reported, row, queue, task, history>>
  BY <1>1, BeginEffect DEF Beginning
<1>3. sender'[n] = s /\ \A k \in Senders \ {n} : sender'[k] = sender[k]
  BY <1>1, <1>2, Types
<1>4. /\ \A k : Passed(k)' = Passed(k)
      /\ \A p, r, on : Told(p, r, on)' = Told(p, r, on)
      /\ Reports' = Reports
  BY <1>2, SameConfig
<1>5. Passed(1) = {} /\ \A p \in Policies : ~(p < 1)
  BY Constants DEF Passed, Policies
<1>6. ASSUME NEW k \in Senders, sender'[k].pc = "routing"
      PROVE  /\ sender'[k].stopped = Passed(sender'[k].at)
             /\ \A p \in Policies : p < sender'[k].at => Told(p, sender'[k].rows[p], sender'[k].on)
  BY <1>2, <1>3, <1>5, <1>6 DEF Routes
<1>7. reported # 0 => \A p \in Policies : Told(p, row[p], sender'[reported].on)
  <2>1. reported # 0 => reported \in Senders /\ reported # n
    BY <1>1, <1>2, Types DEF Transactions, Senders
  <2> QED
    BY <1>3, <2>1 DEF Routes
<1>8. sender'[1].pc = "done" /\ reported = 0 => ~Reports \/ history.faults > 0
  <2>1. 1 \in Senders
    BY Constants DEF Senders
  <2> QED
    BY <1>2, <1>3, <2>1 DEF Routes
<1> QED
  BY <1>2, <1>4, <1>6, <1>7, <1>8 DEF Routes

LEMMA RouteKeepsRoutes ==
    ASSUME BaseInv, Routes, NEW n \in Senders, Routing(n)
    PROVE  Routes'
<1> DEFINE p == sender[n].at
<1>1. TypeOK /\ Transactions
  BY DEF BaseInv
<1>2. p \in Policies /\ sender[n].pc = "routing" /\ UNCHANGED <<config, enabled, reported, row, task>>
  BY <1>1, RouteEffect DEF Routing
<1>3. PICK s \in Routings, r \in Rows : RoutedBy(n, s, r)
  BY <1>1, RouteEffect, Zenon DEF Routing
<1>4. /\ \A k : Passed(k)' = Passed(k)
      /\ \A q, d, on : Told(q, d, on)' = Told(q, d, on)
      /\ Reports' = Reports
  BY <1>2, SameConfig
<1>5. /\ sender[n].stopped = Passed(p)
      /\ \A q \in Policies : q < p => Told(q, sender[n].rows[q], sender[n].on)
  BY <1>2 DEF Routes
<1>6. /\ Route(p, sender[n].stopped).items = Expected(p)
      /\ Route(p, sender[n].stopped).stopped = Passed(p + 1)
  BY <1>2, <1>5, Selection
<1>7. /\ sender' = [sender EXCEPT ![n] = s] /\ s.pc = "routing" /\ s.at = p + 1 /\ s.on = sender[n].on
      /\ s.stopped = Passed(p + 1) /\ s.rows = [sender[n].rows EXCEPT ![p] = r]
  BY <1>3, <1>6 DEF RoutedBy
<1>8. Told(p, r, sender[n].on)
  <2>1. \/ Expected(p) # {} /\ r.status # "absent" /\ r.items = Expected(p)
        \/ (Expected(p) = {} \/ p \notin sender[n].on) /\ r = Absent
    BY <1>3, <1>6 DEF RoutedBy
  <2>2. Absent.status = "absent"
    BY DEF Absent
  <2> QED
    BY <2>1, <2>2 DEF Told
<1>9. sender'[n] = s /\ \A k \in Senders \ {n} : sender'[k] = sender[k]
  BY <1>1, <1>7, Types
<1>10. \A q \in Policies : q < p + 1 => Told(q, s.rows[q], s.on)
  <2>1. sender[n].rows \in [Policies -> Rows]
    BY <1>1, Types DEF Routings
  <2>2. s.rows[p] = r /\ \A q \in Policies \ {p} : s.rows[q] = sender[n].rows[q]
    BY <1>2, <1>7, <2>1
  <2>3. \A q \in Policies : q < p + 1 => q = p \/ q < p
    BY <1>2, Constants DEF Policies
  <2> QED
    BY <1>5, <1>7, <1>8, <2>2, <2>3
<1>11. reported = 0 /\ \A k \in Senders \ {n} : sender[k].pc # "routing"
  BY <1>1, <1>2 DEF Transactions
<1>12. ASSUME NEW k \in Senders, sender'[k].pc = "routing"
       PROVE  /\ sender'[k].stopped = Passed(sender'[k].at)
              /\ \A q \in Policies : q < sender'[k].at => Told(q, sender'[k].rows[q], sender'[k].on)
  <2>1. k = n
    BY <1>9, <1>11, <1>12
  <2>2. sender'[k] = s
    BY <1>9, <2>1
  <2> QED
    BY <1>7, <1>10, <2>2
<1>13. sender'[1].pc = "done" => ~Reports \/ history'.faults > 0
  <2>1. history'.faults = history.faults
    <3>1. history \in Histories
      BY <1>1, Types
    <3> QED
      BY <1>2, <1>3, <3>1, Telling DEF RoutedBy
  <2>2. 1 \in Senders
    BY Constants DEF Senders
  <2> QED
    BY <1>7, <1>9, <1>11, <2>1, <2>2 DEF Routes
<1> QED
  BY <1>2, <1>4, <1>11, <1>12, <1>13 DEF Routes

LEMMA ReportKeepsRoutes ==
    ASSUME BaseInv, Routes, NEW n \in Senders, Reporting(n)
    PROVE  Routes'
<1>1. TypeOK /\ Transactions
  BY DEF BaseInv
<1>2. sender[n].pc = "routing" /\ UNCHANGED <<config, enabled, queue, task>>
  BY <1>1, ReportEffect DEF Reporting
<1>3. PICK s \in Routings :
                 /\ sender' = [sender EXCEPT ![n] = s] /\ s.pc = "done"
                 /\ \/ /\ reported' = n /\ row' = sender[n].rows /\ UNCHANGED history
                       /\ sender[n].at \notin Policies /\ s.on = sender[n].on
                    \/ UNCHANGED <<reported, row>> /\ UseFault(UndoneSender(n))
  BY <1>1, ReportEffect DEF Reporting
<1>4. sender'[n] = s /\ \A k \in Senders \ {n} : sender'[k] = sender[k]
  BY <1>1, <1>3, Types
<1>5. /\ \A k : Passed(k)' = Passed(k)
      /\ \A p, r, on : Told(p, r, on)' = Told(p, r, on)
      /\ Reports' = Reports
  BY <1>2, SameConfig
<1>6. reported = 0 /\ sender[n].at >= 1 /\ \A k \in Senders \ {n} : sender[k].pc # "routing"
  BY <1>1, <1>2 DEF Transactions
<1>7. \A k \in Senders : sender'[k].pc # "routing"
  BY <1>3, <1>4, <1>6
<1>8. CASE reported' = n /\ row' = sender[n].rows /\ sender[n].at \notin Policies /\ s.on = sender[n].on
  <2>1. sender[n].at \in Nat
    BY <1>1, Types DEF Routings
  <2>2. \A p \in Policies : p < sender[n].at
    BY <1>6, <1>8, <2>1, Constants DEF Policies
  <2>3. \A p \in Policies : Told(p, row'[p], sender'[reported'].on)
    BY <1>2, <1>4, <1>8, <2>2 DEF Routes
  <2>4. reported' # 0
    BY <1>8, Constants DEF Senders
  <2> QED
    BY <1>5, <1>7, <2>3, <2>4 DEF Routes
<1>9. CASE UNCHANGED <<reported, row>> /\ UseFault(UndoneSender(n))
  <2>1. history'.faults > 0
    <3>1. UndoneSender(n) \in Histories /\ UndoneSender(n).faults \in Nat
      BY <1>1, UndoneRouting, Constants DEF Histories
    <3> QED
      BY <1>9, <3>1, Faulting
  <2> QED
    BY <1>6, <1>7, <1>9, <2>1 DEF Routes
<1> QED
  BY <1>3, <1>8, <1>9

LEMMA SameRoutes ==
    ASSUME BaseInv, Routes, UNCHANGED <<config, reported, sender>>, history'.faults >= history.faults,
           history'.faults \in Nat,
           \A p \in Policies : row'[p] = row[p] \/ /\ row[p] # Absent /\ row'[p] # Absent
                                                   /\ row'[p].items = row[p].items
    PROVE  Routes'
<1>1. /\ \A k : Passed(k)' = Passed(k)
      /\ \A p, r, on : Told(p, r, on)' = Told(p, r, on)
      /\ Reports' = Reports
  BY SameConfig
<1>2. reported # 0 => \A p \in Policies : Told(p, row'[p], sender[reported].on)
  BY DEF Routes, Told
<1>3. history.faults \in Nat
  BY Types, Constants DEF BaseInv, Histories
<1> QED
  BY <1>1, <1>2, <1>3 DEF Routes

LEMMA RoutesStep == BaseInv /\ Routes /\ [Next]_vars => Routes'
<1> SUFFICES ASSUME BaseInv, Routes, [Next]_vars PROVE Routes'
  OBVIOUS
<1>1. TypeOK /\ Hands
  BY DEF BaseInv
<1>2. history.faults \in Nat
  BY <1>1, Types, Constants DEF Histories
<1>3. CASE \E n \in Senders : Beginning(n) \/ Routing(n) \/ Reporting(n)
  BY <1>3, BeginKeepsRoutes, RouteKeepsRoutes, ReportKeepsRoutes, Zenon
<1>4. ASSUME NEW t \in Tasks, NEW m \in Messages, Read(t, m)
      PROVE  Routes'
  <2>1. UNCHANGED <<config, reported, sender, row>> /\ history'.faults = history.faults
    BY <1>1, <1>4, ReadEffect
  <2> QED
    BY <1>2, <2>1, SameRoutes
<1>5. ASSUME NEW t \in Tasks, Sending(t)
      PROVE  Routes'
  <2>1. task[t].pc = "read" /\ UNCHANGED <<config, reported, sender, row>>
    BY <1>1, <1>5, SendEffect DEF Sending
  <2>2. PICK j \in Jobs : SentBy(t, j)
    BY <1>1, <1>5, SendEffect, Zenon DEF Sending
  <2>3. /\ Aged(history, t) \in Histories /\ Aged(history, t).faults = history.faults
        /\ task[t].message.to \in Policies
    BY <1>1, <2>1, Aging, Types
  <2>4. history'.faults = history.faults
    BY <2>2, <2>3, Telling DEF SentBy
  <2> QED
    BY <1>2, <2>1, <2>4, SameRoutes
<1>6. ASSUME NEW t \in Tasks, Ending(t)
      PROVE  Routes'
  <2> DEFINE p == task[t].message.to
  <2>1. /\ task[t].pc # "idle" /\ UNCHANGED <<config, reported, sender>>
        /\ history' \in Histories /\ history'.faults >= history.faults
        /\ row' = [row EXCEPT ![p] = task[t].row] \/ row' = row
    BY <1>1, <1>6, EndEffect DEF Ending
  <2>2. /\ row[p].status # "absent" /\ task[t].row.status # "absent" /\ task[t].row.items = row[p].items
    BY <1>1, <2>1 DEF Hands, Working
  <2>3. Absent.status = "absent"
    BY DEF Absent
  <2>4. \A q \in Policies : row'[q] = row[q] \/ /\ row[q] # Absent /\ row'[q] # Absent
                                                /\ row'[q].items = row[q].items
    BY <1>1, <2>1, <2>2, <2>3, Types
  <2>5. history'.faults \in Nat
    BY <2>1, Constants DEF Histories
  <2> QED
    BY <2>1, <2>4, <2>5, SameRoutes
<1>7. ASSUME NEW m \in Messages, Missing(m)
      PROVE  Routes'
  <2>1. /\ UNCHANGED <<config, reported, row, sender>> /\ history' \in Histories
        /\ history'.faults >= history.faults
    BY <1>1, <1>7, MissEffect DEF Missing
  <2>2. history'.faults \in Nat
    BY <2>1, Constants DEF Histories
  <2> QED
    BY <2>1, <2>2, SameRoutes
<1>8. CASE Toggling
  <2>1. UNCHANGED <<config, reported, row, sender>> /\ history'.faults = history.faults
    BY <1>1, <1>8, ToggleEffect DEF Toggling
  <2> QED
    BY <1>2, <2>1, SameRoutes
<1>9. CASE UNCHANGED vars
  BY <1>2, <1>9, SameRoutes DEF vars
<1> QED
  BY <1>3, <1>4, <1>5, <1>6, <1>7, <1>8, <1>9, Steps

LEMMA RoutesSuffice == BaseInv /\ Routes => RoutesAreExact
<1> SUFFICES ASSUME BaseInv, Routes PROVE RoutesAreExact
  OBVIOUS
<1>1. 1 \in Senders
  BY Constants DEF Senders
<1>2. (\A n \in Senders : sender[n].pc = "done") /\ reported = 0 =>
          (\A p \in Policies : Expected(p) = {}) \/ history.faults > 0
  BY <1>1, ExpectedIsReported DEF Routes
<1> QED
  BY <1>2 DEF Routes, RoutesAreExact, Told

\* Whatever the policies, their order and their channels: a delivery holds exactly
\* the records that interest its policy and that no earlier one stopped, and nobody
\* who is to be told something is forgotten by the decision whether to report
\* (alert_service, dispatch_event).
THEOREM RoutingIsExact == Spec => []RoutesAreExact
<1>1. Init => BaseInv /\ Routes
  BY BaseInit, RoutesInit
<1>2. BaseInv /\ Routes /\ [Next]_vars => (BaseInv /\ Routes)'
  BY BaseStep, RoutesStep
<1>3. BaseInv /\ Routes => RoutesAreExact
  BY RoutesSuffice
<1> QED
  BY <1>1, <1>2, <1>3, PTL DEF Spec

-----------------------------------------------------------------------------
(* Retries: what waits for one has a message or a task. *)

Waits(q, p, n) == \E m \in Messages : q[m] > 0 /\ m.to = p /\ m.of = n
Gone(p) == p \in history.stranded \cup history.stale

\* Another task than t has the delivery.
Shares(t, p) == \E u \in Tasks \ {t} : Working(u) /\ task[u].message.to = p

\* A task that writes what another one has written meanwhile is stale; one that
\* leaves the delivery to a retry has queued it, or another task has taken it over.
Keeps(t) ==
    LET p == task[t].message.to
    IN  /\ p \in history.stale \/ ~Settled(row[p])
        /\ task[t].row.status = "retrying" => Waits(queue, p, reported) \/ Gone(p) \/ Shares(t, p)

Retries ==
    /\ \A p \in Policies : row[p].status = "retrying" => Waits(queue, p, reported) \/ InHand(p) \/ Gone(p)
    /\ \A t \in Tasks : task[t].pc = "write" => Keeps(t)
    /\ \A n \in Senders, p \in Policies :
          sender[n].pc = "routing" /\ sender[n].rows[p].status = "retrying" =>
              Waits(queue, p, n) \/ p \in history.stranded

\* A message that is there, or was just queued.
LEMMA StillWaits ==
    ASSUME BaseInv, \A m \in Messages : queue'[m] >= queue[m], queue' \in [Messages -> Nat]
    PROVE  \A p, n : Waits(queue, p, n) => Waits(queue', p, n)
<1>1. \A m \in Messages : queue[m] > 0 => queue'[m] > 0
  BY Types DEF BaseInv
<1> QED
  BY <1>1 DEF Waits

LEMMA PushedWaits ==
    ASSUME BaseInv, NEW m \in Messages, queue' = Push(queue, m)
    PROVE  /\ Waits(queue', m.to, m.of)
           /\ \A p, n : Waits(queue, p, n) => Waits(queue', p, n)
<1>1. queue \in [Messages -> Nat]
  BY Types DEF BaseInv
<1>2. queue' \in [Messages -> Nat] /\ \A k \in Messages : queue'[k] >= queue[k]
  BY <1>1, Queueing
<1>3. queue'[m] > 0
  BY <1>1, Queueing
<1> QED
  BY <1>2, <1>3, StillWaits DEF Waits

LEMMA RetriesInit == Init => Retries
<1> SUFFICES ASSUME Init PROVE Retries
  OBVIOUS
<1>1. \A p \in Policies : row[p].status = "absent"
  BY EmptyRows DEF Init, Absent
<1>2. \A t \in Tasks : task[t].pc = "idle"
  BY DEF Init, Idle
<1>3. \A n \in Senders : sender[n].rows = NoRows
  BY DEF Init, Ready
<1>4. \A p \in Policies : NoRows[p].status = "absent"
  BY EmptyRows DEF Absent
<1> QED
  BY <1>1, <1>2, <1>3, <1>4 DEF Retries

\* A sender's step, as long as nothing is reported: no task has anything.
LEMMA SenderKeepsRetries ==
    ASSUME BaseInv, Retries, NEW n \in Senders, Beginning(n) \/ Routing(n) \/ Reporting(n)
    PROVE  Retries'
<1>1. TypeOK /\ Transactions /\ Hands
  BY DEF BaseInv
<1>2. sender \in [Senders -> Routings] /\ history \in Histories
  BY <1>1, Types
<1>3. UNCHANGED task
  BY <1>1, BeginEffect, RouteEffect, ReportEffect DEF Beginning, Routing, Reporting
<1>4. CASE Beginning(n)
  <2>1. PICK s \in Routings :
             /\ sender' = [sender EXCEPT ![n] = s] /\ sender[n].pc \in {"ready", "waiting"}
             /\ \/ s.pc = "done" /\ (reported # 0 \/ ~Reports)
                \/ s.pc = "waiting"
                \/ /\ s.pc = "routing" /\ reported = 0 /\ s.at = 1 /\ s.stopped = {}
                   /\ s.on = enabled /\ s.rows = NoRows
                   /\ \A k \in Senders : sender[k].pc # "routing"
             /\ UNCHANGED <<config, enabled, reported, row, queue, task, history>>
    BY <1>1, <1>4, BeginEffect DEF Beginning
  <2>2. \A p \in Policies : s.pc = "routing" => s.rows[p].status = "absent"
    BY <2>1, EmptyRows DEF Absent
  <2>3. \A k \in Senders, p \in Policies :
           sender'[k].pc = "routing" /\ sender'[k].rows[p].status = "retrying" =>
              sender[k].pc = "routing" /\ sender[k].rows[p].status = "retrying"
    BY <1>2, <2>1, <2>2
  <2> QED
    BY <2>1, <2>3 DEF Retries, Waits, InHand, Gone, Keeps, Shares, Working, Settled
<1>5. ASSUME Routing(n) \/ Reporting(n)
      PROVE  /\ reported = 0 /\ sender[n].pc = "routing" /\ \A t \in Tasks : task'[t].pc # "write"
             /\ \A p \in Policies : row[p].status = "absent"
             /\ \A k \in Senders \ {n} : sender[k].pc # "routing"
  <2>1. sender[n].pc = "routing"
    BY <1>1, <1>5, RouteEffect, ReportEffect DEF Routing, Reporting
  <2>2. reported = 0 /\ row = NoRows /\ \A k \in Senders \ {n} : sender[k].pc # "routing"
    BY <1>1, <2>1 DEF Transactions
  <2>3. \A t \in Tasks : ~Working(t)
    BY <1>1, <2>2, Types DEF Hands, Working, Senders
  <2>4. \A p \in Policies : row[p].status = "absent"
    BY <2>2, EmptyRows DEF Absent
  <2> QED
    BY <1>3, <2>1, <2>2, <2>3, <2>4 DEF Working
<1>6. CASE Routing(n)
  <2> DEFINE p == sender[n].at
  <2>1. p \in Policies /\ UNCHANGED <<config, enabled, reported, row, task>>
    BY <1>1, <1>6, RouteEffect DEF Routing
  <2>2. PICK s \in Routings, r \in Rows : RoutedBy(n, s, r)
    BY <1>1, <1>6, RouteEffect, Zenon DEF Routing
  <2>3. /\ sender' = [sender EXCEPT ![n] = s] /\ s.rows = [sender[n].rows EXCEPT ![p] = r]
        /\ \/ /\ r.status # "absent" /\ history' = Tell(history, p)
              /\ queue' = IF r.status = "retrying" THEN Push(queue, Retry(p, n)) ELSE queue
           \/ r = Absent /\ UNCHANGED <<queue, history>>
    BY <2>2 DEF RoutedBy
  <2>4. history'.stranded = history.stranded
    BY <1>2, <2>1, <2>3, Telling
  <2>5. /\ r.status = "retrying" => Waits(queue', p, n)
        /\ \A q, k : Waits(queue, q, k) => Waits(queue', q, k)
    <3>1. Retry(p, n) \in Messages /\ Retry(p, n).to = p /\ Retry(p, n).of = n
      BY <2>1, RetryMessage
    <3>2. CASE queue' = Push(queue, Retry(p, n))
      BY <3>1, <3>2, PushedWaits
    <3>3. CASE queue' = queue /\ r.status # "retrying"
      BY <3>3 DEF Waits
    <3>4. Absent.status = "absent"
      BY DEF Absent
    <3> QED
      BY <2>3, <3>2, <3>3, <3>4
  <2>6. sender'[n] = s /\ s.rows[p] = r /\ \A q \in Policies \ {p} : s.rows[q] = sender[n].rows[q]
    BY <1>2, <2>1, <2>3 DEF Routings
  <2>7. ASSUME NEW k \in Senders, NEW q \in Policies, sender'[k].pc = "routing",
               sender'[k].rows[q].status = "retrying"
        PROVE  Waits(queue', q, k) \/ q \in history'.stranded
    <3>1. k = n
      BY <1>2, <1>5, <1>6, <2>3, <2>7
    <3> QED
      BY <1>5, <1>6, <2>4, <2>5, <2>6, <2>7, <3>1 DEF Retries
  <2>8. \A q \in Policies : row'[q].status = "absent"
    BY <1>5, <1>6, <2>1
  <2> QED
    BY <1>5, <1>6, <2>7, <2>8 DEF Retries
<1>7. CASE Reporting(n)
  <2>1. PICK s \in Routings :
                 /\ sender' = [sender EXCEPT ![n] = s] /\ s.pc = "done"
                 /\ \/ /\ reported' = n /\ row' = sender[n].rows /\ UNCHANGED history
                       /\ sender[n].at \notin Policies /\ s.on = sender[n].on
                    \/ UNCHANGED <<reported, row>> /\ UseFault(UndoneSender(n))
    BY <1>1, <1>7, ReportEffect DEF Reporting
  <2>2. UNCHANGED queue
    BY <1>1, <1>7, ReportEffect DEF Reporting
  <2>3. \A k \in Senders : sender'[k].pc # "routing"
    BY <1>2, <1>5, <1>7, <2>1
  <2>4. ASSUME NEW p \in Policies, row'[p].status = "retrying"
        PROVE  Waits(queue', p, reported') \/ p \in history'.stranded
    <3>1. reported' = n /\ row' = sender[n].rows /\ UNCHANGED history
      BY <1>5, <1>7, <2>1, <2>4
    <3>2. Waits(queue, p, n) \/ p \in history.stranded
      BY <1>5, <1>7, <2>4, <3>1 DEF Retries
    <3> QED
      BY <2>2, <3>1, <3>2
  <2> QED
    BY <1>5, <1>7, <2>3, <2>4 DEF Retries, Gone
<1> QED
  BY <1>4, <1>6, <1>7

LEMMA ReadKeepsRetries ==
    ASSUME BaseInv, Retries, NEW t \in Tasks, NEW m \in Messages, Read(t, m)
    PROVE  Retries'
<1>1. TypeOK /\ Transactions /\ Hands
  BY DEF BaseInv
<1>2. /\ task[t].pc = "idle" /\ queue[m] > 0 /\ reported = m.of /\ row[m.to].status # "absent"
      /\ queue' = Pop(queue, m) /\ UNCHANGED <<config, enabled, reported, row, sender>>
      /\ history'.stranded = history.stranded /\ history'.stale = history.stale
      /\ m.to \in Policies /\ row[m.to] \in Rows
  BY <1>1, ReadEffect, Types DEF Messages
<1>3. \A k \in Messages \ {m} : queue'[k] = queue[k]
  BY <1>1, <1>2, Queueing, Types
<1>4. \A p, n : Waits(queue, p, n) /\ (p # m.to \/ n # m.of) => Waits(queue', p, n)
  BY <1>3 DEF Waits
<1>5. \/ Settled(row[m.to]) /\ task' = [task EXCEPT ![t] = Idle]
      \/ ~Settled(row[m.to]) /\ \E j \in Jobs :
            task' = [task EXCEPT ![t] = j] /\ j.pc = "read" /\ j.message = m /\ j.row = row[m.to]
  BY <1>1, ReadEffect
<1>6. PICK j \in {Idle} \cup Jobs :
         /\ task' = [task EXCEPT ![t] = j] /\ j.pc # "write"
         /\ Settled(row[m.to]) \/ (j.pc # "idle" /\ j.message.to = m.to)
  <2>1. CASE Settled(row[m.to]) /\ task' = [task EXCEPT ![t] = Idle]
    <3>1. Idle.pc # "write"
      BY DEF Idle
    <3> QED
      BY <2>1, <3>1
  <2>2. ASSUME NEW j \in Jobs, task' = [task EXCEPT ![t] = j], j.pc = "read", j.message = m
        PROVE  \E k \in {Idle} \cup Jobs :
                  /\ task' = [task EXCEPT ![t] = k] /\ k.pc # "write"
                  /\ Settled(row[m.to]) \/ (k.pc # "idle" /\ k.message.to = m.to)
    BY <2>2
  <2> QED
    BY <1>5, <2>1, <2>2
<1>7. task'[t] = j /\ \A u \in Tasks \ {t} : task'[u] = task[u]
  BY <1>1, <1>6, Types
<1>8. Sound(row[m.to]) /\ (row[m.to].status = "retrying" => ~Settled(row[m.to]))
  BY <1>1, <1>2, Constants DEF Hands, Sound, Settled, Rows
<1>9. \A p \in Policies : row[p].status = "retrying" =>
         Waits(queue', p, reported) \/ (\E u \in Tasks : task'[u].pc # "idle" /\ task'[u].message.to = p)
            \/ p \in history'.stranded \cup history'.stale
  BY <1>2, <1>4, <1>6, <1>7, <1>8 DEF Retries, InHand, Gone
<1>10. ASSUME NEW u \in Tasks, task'[u].pc = "write"
       PROVE  LET p == task'[u].message.to
              IN  /\ p \in history'.stale \/ ~Settled(row[p])
                  /\ task'[u].row.status = "retrying" =>
                        \/ Waits(queue', p, reported) \/ p \in history'.stranded \cup history'.stale
                        \/ \E v \in Tasks \ {u} : task'[v].pc # "idle" /\ task'[v].message.to = p
  <2> DEFINE p == task[u].message.to
  <2>1. u # t /\ task'[u] = task[u] /\ task[u].pc = "write"
    BY <1>6, <1>7, <1>10
  <2>2. /\ p \in history.stale \/ ~Settled(row[p])
        /\ task[u].row.status = "retrying" => Waits(queue, p, reported) \/ Gone(p) \/ Shares(u, p)
    BY <2>1 DEF Retries, Keeps
  <2>3. CASE Waits(queue, p, reported) /\ ~Waits(queue', p, reported)
    <3>1. p = m.to
      BY <1>2, <1>4, <2>3
    <3> HIDE DEF p
    <3> QED
      BY <1>2, <1>6, <1>7, <2>1, <2>2, <3>1 DEF p
  <2>4. CASE Shares(u, p)
    <3>1. PICK v \in Tasks \ {u} : Working(v) /\ task[v].message.to = p
      BY <2>4 DEF Shares
    <3>2. v # t /\ task'[v] = task[v] /\ task'[v].pc # "idle"
      BY <1>2, <1>7, <3>1 DEF Working
    <3> QED
      BY <1>2, <2>1, <2>2, <3>1, <3>2
  <2> QED
    BY <1>2, <2>1, <2>2, <2>3, <2>4 DEF Gone
<1>11. \A n \in Senders : sender[n].pc # "routing"
  <2>1. m.of # 0
    BY Constants DEF Messages, Senders
  <2> QED
    BY <1>1, <1>2, <2>1 DEF Transactions
<1> QED
  BY <1>2, <1>9, <1>10, <1>11 DEF Retries, InHand, Gone, Keeps, Shares, Working, Settled

LEMMA SendKeepsRetries ==
    ASSUME BaseInv, Retries, NEW t \in Tasks, Sending(t)
    PROVE  /\ Retries'
           /\ \A p \in Policies : row[p].status = "sent" /\ p \notin history'.stale =>
                 row'[p] = row[p] /\ history'.tried[p] = history.tried[p]
<1> DEFINE p == task[t].message.to
<1>1. TypeOK /\ Transactions /\ Hands
  BY DEF BaseInv
<1>2. task[t].pc = "read" /\ ~Locked(p) /\ UNCHANGED <<config, enabled, reported, row, sender>>
  BY <1>1, SendEffect DEF Sending
<1>3. PICK j \in Jobs : SentBy(t, j)
  BY <1>1, SendEffect, Zenon DEF Sending
<1>4. /\ task'[t] = j /\ \A u \in Tasks \ {t} : task'[u] = task[u]
      /\ j.pc = "write" /\ j.message.to = p
  BY <1>1, <1>3, Types DEF SentBy
<1>5. /\ p \in Policies /\ task[t].message.of \in Senders /\ queue \in [Messages -> Nat]
      /\ task[t].message.of = reported
  BY <1>1, <1>2, Types DEF Hands, Working
<1>6. /\ history' = Aged(history, t) \/ history' = Tell(Aged(history, t), p)
      /\ \A q \in Policies : q # p => history'.tried[q] = history.tried[q]
      /\ history'.stranded = history.stranded /\ history.stale \subseteq history'.stale
      /\ task[t].row = row[p] \/ p \in history'.stale
  <2>1. /\ Aged(history, t) \in Histories /\ Aged(history, t).tried = history.tried
        /\ Aged(history, t).stranded = history.stranded /\ history.stale \subseteq Aged(history, t).stale
        /\ task[t].row = row[p] \/ p \in Aged(history, t).stale
    BY <1>1, <1>2, Aging
  <2>2. history' = Aged(history, t) \/ history' = Tell(Aged(history, t), p)
    BY <1>3 DEF SentBy
  <2>3. CASE history' = Aged(history, t)
    BY <2>1, <2>3
  <2>4. CASE history' = Tell(Aged(history, t), p)
    BY <1>5, <2>1, <2>4, Telling
  <2> QED
    BY <2>2, <2>3, <2>4
<1>7. ~Settled(task[t].row)
  BY <1>1, <1>2 DEF TypeOK
<1>8. /\ \A q, n : Waits(queue, q, n) => Waits(queue', q, n)
      /\ j.row.status = "retrying" => Waits(queue', p, reported) \/ p \in history'.stale
  <2>1. /\ Retry(p, task[t].message.of) \in Messages /\ Retry(p, task[t].message.of).to = p
        /\ Retry(p, task[t].message.of).of = reported
    BY <1>5, RetryMessage
  <2>2. CASE queue' = Push(queue, Retry(p, task[t].message.of))
    BY <2>1, <2>2, PushedWaits
  <2>3. CASE queue' = queue /\ j.row.status # "retrying"
    BY <2>3
  <2>4. CASE queue' = queue /\ task[t].row.status = "failed" /\ j.row = row[p]
    BY <1>6, <2>4
  <2> QED
    BY <1>3, <2>2, <2>3, <2>4 DEF SentBy
<1>9. \A u \in Tasks : \A q : task[u].pc # "idle" /\ task[u].message.to = q =>
                               task'[u].pc # "idle" /\ task'[u].message.to = q
  BY <1>4
<1>10. \A q \in Policies : row[q].status = "retrying" =>
         Waits(queue', q, reported) \/ (\E u \in Tasks : task'[u].pc # "idle" /\ task'[u].message.to = q)
            \/ q \in history'.stranded \cup history'.stale
  BY <1>6, <1>8, <1>9 DEF Retries, InHand, Gone
<1>11. ASSUME NEW u \in Tasks, task'[u].pc = "write"
       PROVE  LET q == task'[u].message.to
              IN  /\ q \in history'.stale \/ ~Settled(row[q])
                  /\ task'[u].row.status = "retrying" =>
                        \/ Waits(queue', q, reported) \/ q \in history'.stranded \cup history'.stale
                        \/ \E v \in Tasks \ {u} : task'[v].pc # "idle" /\ task'[v].message.to = q
  <2>1. CASE u = t
    BY <1>4, <1>6, <1>7, <1>8, <2>1
  <2>2. CASE u # t
    <3> DEFINE q == task[u].message.to
    <3>1. task'[u] = task[u] /\ Keeps(u)
      BY <1>4, <1>11, <2>2 DEF Retries
    <3>2. /\ q \in history.stale \/ ~Settled(row[q])
          /\ task[u].row.status = "retrying" => Waits(queue, q, reported) \/ Gone(q) \/ Shares(u, q)
      BY <3>1 DEF Keeps
    <3>3. Shares(u, q) => \E v \in Tasks \ {u} : task'[v].pc # "idle" /\ task'[v].message.to = q
      BY <1>9 DEF Shares, Working
    <3> QED
      BY <1>6, <1>8, <3>1, <3>2, <3>3 DEF Gone
  <2> QED
    BY <2>1, <2>2
<1>12. \A n \in Senders : sender[n].pc # "routing"
  <2>1. reported # 0
    BY <1>5, Constants DEF Senders
  <2> QED
    BY <1>1, <2>1 DEF Transactions
<1>13. Retries'
  BY <1>2, <1>10, <1>11, <1>12 DEF Retries, InHand, Gone, Keeps, Shares, Working, Settled
<1>14. row[p].status = "sent" => p \in history'.stale
  BY <1>6, <1>7 DEF Settled
<1> QED
  BY <1>2, <1>6, <1>13, <1>14

LEMMA EndKeepsRetries ==
    ASSUME BaseInv, Retries, NEW t \in Tasks, Ending(t)
    PROVE  /\ Retries'
           /\ \A p \in Policies : row[p].status = "sent" /\ p \notin history'.stale =>
                 row'[p] = row[p] /\ history'.tried[p] = history.tried[p]
<1> DEFINE p == task[t].message.to
<1>1. TypeOK /\ Transactions /\ Hands
  BY DEF BaseInv
<1>2. /\ task[t].pc # "idle" /\ task' = [task EXCEPT ![t] = Idle]
      /\ UNCHANGED <<config, enabled, reported, sender>> /\ history'.tried = history.tried
      /\ history.stranded \subseteq history'.stranded /\ history'.stale = history.stale
      /\ (task[t].pc = "write" /\ row' = [row EXCEPT ![p] = task[t].row]) \/ row' = row
      /\ queue' = queue \/ queue' = Push(queue, task[t].message)
      /\ Write(t) \/ p \in history'.stranded \/ queue' = Push(queue, task[t].message)
  BY <1>1, EndEffect DEF Ending
<1>3. /\ task[t].message \in Messages /\ p \in Policies /\ task[t].message.of \in Senders
      /\ row \in [Policies -> Rows] /\ queue \in [Messages -> Nat]
      /\ task[t].message.of = reported
  BY <1>1, <1>2, Types DEF Hands, Working
<1>4. Idle.pc = "idle" /\ task'[t] = Idle /\ \A u \in Tasks \ {t} : task'[u] = task[u]
  BY <1>1, <1>2, Types DEF Idle
<1>5. /\ \A q, n : Waits(queue, q, n) => Waits(queue', q, n)
      /\ Write(t) \/ p \in history'.stranded \/ Waits(queue', p, reported)
  BY <1>2, <1>3, PushedWaits
<1>6. \A u \in Tasks : \A q : task[u].pc # "idle" /\ task[u].message.to = q =>
          u = t \/ (task'[u].pc # "idle" /\ task'[u].message.to = q)
  BY <1>4
<1>7. task[t].pc = "write" => Keeps(t)
  BY DEF Retries
<1>8. ASSUME NEW q \in Policies, row'[q].status = "retrying"
      PROVE  \/ Waits(queue', q, reported) \/ q \in history'.stranded \cup history'.stale
             \/ \E u \in Tasks : task'[u].pc # "idle" /\ task'[u].message.to = q
  <2>1. CASE q = p /\ Write(t)
    <3>1. task[t].pc = "write" /\ row'[p] = task[t].row
      BY <1>3, <2>1 DEF Write
    <3>2. Waits(queue, p, reported) \/ Gone(p) \/ Shares(t, p)
      BY <1>7, <1>8, <2>1, <3>1 DEF Keeps
    <3>3. Shares(t, p) => \E u \in Tasks : task'[u].pc # "idle" /\ task'[u].message.to = p
      BY <1>4 DEF Shares, Working
    <3> QED
      BY <1>2, <1>5, <2>1, <3>2, <3>3 DEF Gone
  <2>2. CASE q = p /\ ~Write(t)
    BY <1>5, <2>2
  <2>3. CASE q # p
    <3>1. row'[q] = row[q]
      BY <1>2, <1>3, <2>3
    <3> QED
      BY <1>2, <1>5, <1>6, <1>8, <2>3, <3>1 DEF Retries, InHand, Gone
  <2> QED
    BY <2>1, <2>2, <2>3
<1>9. ASSUME NEW u \in Tasks, task'[u].pc = "write"
      PROVE  LET q == task'[u].message.to
             IN  /\ q \in history'.stale \/ ~Settled(row'[q])
                 /\ task'[u].row.status = "retrying" =>
                       \/ Waits(queue', q, reported) \/ q \in history'.stranded \cup history'.stale
                       \/ \E v \in Tasks \ {u} : task'[v].pc # "idle" /\ task'[v].message.to = q
  <2> DEFINE q == task[u].message.to
  <2>1. u # t /\ task'[u] = task[u] /\ task[u].pc = "write" /\ Keeps(u) /\ q \in Policies
    BY <1>1, <1>4, <1>9, Types DEF Retries
  <2>2. /\ q \in history.stale \/ ~Settled(row[q])
        /\ task[u].row.status = "retrying" => Waits(queue, q, reported) \/ Gone(q) \/ Shares(u, q)
    BY <2>1 DEF Keeps
  <2>3. q = p => task[t].pc # "write"
    BY <1>1, <1>2, <2>1 DEF Hands, Working, Writes
  <2>4. row'[q] = row[q]
    BY <1>2, <1>3, <2>1, <2>3
  <2>5. Shares(u, q) => \/ \E v \in Tasks \ {u} : task'[v].pc # "idle" /\ task'[v].message.to = q
                        \/ Waits(queue', q, reported) \/ q \in history'.stranded
    <3>1. CASE q = p
      BY <1>5, <2>3, <3>1 DEF Write
    <3>2. CASE q # p
      BY <1>6, <3>2 DEF Shares, Working
    <3> QED
      BY <3>1, <3>2
  <2> QED
    BY <1>2, <1>5, <2>1, <2>2, <2>4, <2>5 DEF Gone
<1>10. \A n \in Senders : sender[n].pc # "routing"
  <2>1. reported # 0
    BY <1>3, Constants DEF Senders
  <2> QED
    BY <1>1, <2>1 DEF Transactions
<1>11. Retries'
  BY <1>2, <1>8, <1>9, <1>10 DEF Retries, InHand, Gone, Keeps, Shares, Working, Settled
<1>12. \A q \in Policies : row[q].status = "sent" /\ q \notin history'.stale => row'[q] = row[q]
  BY <1>2, <1>3, <1>7 DEF Keeps, Settled
<1> QED
  BY <1>2, <1>11, <1>12

LEMMA MissKeepsRetries ==
    ASSUME BaseInv, Retries, NEW m \in Messages, Missing(m)
    PROVE  Retries'
<1>1. TypeOK /\ Transactions /\ Hands
  BY DEF BaseInv
<1>2. /\ UNCHANGED <<config, enabled, reported, row, sender, task>>
      /\ history.stranded \subseteq history'.stranded /\ history'.stale = history.stale
      /\ queue' \in [Messages -> Nat] /\ \A n \in Messages \ {m} : queue'[n] >= queue[n]
      /\ \/ m.to \in history'.stranded
         \/ /\ ~Found(m)
            /\ \/ sender[m.of].pc # "routing"
               \/ \E n \in Messages : n.to = m.to /\ n.of = m.of /\ queue'[n] > 0
  BY <1>1, MissEffect DEF Missing
<1>3. \A n \in Messages \ {m} : queue[n] > 0 => queue'[n] > 0
  BY <1>1, <1>2, Types
<1>4. \A p, n : Waits(queue, p, n) => Waits(queue', p, n) \/ (p = m.to /\ n = m.of)
  BY <1>3 DEF Waits
<1>5. \A p : row[p].status # "absent" /\ Waits(queue, p, reported) =>
         Waits(queue', p, reported) \/ p \in history'.stranded
  BY <1>2, <1>4 DEF Found
<1>6. \A n \in Senders, p \in Policies : sender[n].pc = "routing" /\ Waits(queue, p, n) =>
         Waits(queue', p, n) \/ p \in history'.stranded
  BY <1>2, <1>4 DEF Waits
<1>7. \A p \in Policies : row[p].status = "retrying" =>
         Waits(queue', p, reported) \/ InHand(p) \/ p \in history'.stranded \cup history'.stale
  BY <1>2, <1>5 DEF Retries, Gone
<1>8. ASSUME NEW u \in Tasks, task[u].pc = "write"
      PROVE  LET p == task[u].message.to
             IN  /\ p \in history'.stale \/ ~Settled(row[p])
                 /\ task[u].row.status = "retrying" =>
                       \/ Waits(queue', p, reported) \/ p \in history'.stranded \cup history'.stale
                       \/ Shares(u, p)
  <2>1. Keeps(u) /\ row[task[u].message.to].status # "absent"
    BY <1>1, <1>8 DEF Retries, Hands, Working
  <2> QED
    BY <1>2, <1>5, <2>1 DEF Keeps, Gone
<1>9. \A n \in Senders, p \in Policies :
          sender[n].pc = "routing" /\ sender[n].rows[p].status = "retrying" =>
              Waits(queue', p, n) \/ p \in history'.stranded
  BY <1>2, <1>6 DEF Retries
<1> QED
  BY <1>2, <1>7, <1>8, <1>9 DEF Retries, InHand, Gone, Keeps, Shares, Working, Settled

\* What a step does to a delivery that was sent.
SentStays ==
    \A p \in Policies : row[p].status = "sent" /\ p \notin history'.stale =>
        row'[p] = row[p] /\ history'.tried[p] = history.tried[p]

LEMMA RetriesStep == BaseInv /\ Retries /\ [Next]_vars => Retries' /\ SentStays
<1> SUFFICES ASSUME BaseInv, Retries, [Next]_vars PROVE Retries' /\ SentStays
  OBVIOUS
<1>1. TypeOK /\ Transactions
  BY DEF BaseInv
<1>2. ASSUME NEW n \in Senders, Beginning(n) \/ Routing(n) \/ Reporting(n)
      PROVE  Retries' /\ SentStays
  <2>1. Retries'
    BY <1>2, SenderKeepsRetries, Zenon
  <2>2. CASE Beginning(n)
    BY <1>1, <2>1, <2>2, BeginEffect DEF Beginning, SentStays
  <2>3. CASE Routing(n) \/ Reporting(n)
    <3>1. reported = 0
      BY <1>1, <2>3, RouteEffect, ReportEffect DEF Routing, Reporting, Transactions
    <3> QED
      BY <1>1, <2>1, <3>1, EmptyRows DEF Transactions, SentStays, Absent
  <2> QED
    BY <1>2, <2>1, <2>2, <2>3
<1>3. ASSUME NEW t \in Tasks, Sending(t) \/ Ending(t)
      PROVE  Retries' /\ SentStays
  BY <1>3, SendKeepsRetries, EndKeepsRetries DEF SentStays
<1>4. ASSUME NEW t \in Tasks, NEW m \in Messages, Read(t, m)
      PROVE  Retries' /\ SentStays
  BY <1>1, <1>4, ReadKeepsRetries, ReadEffect DEF SentStays
<1>5. ASSUME NEW m \in Messages, Missing(m)
      PROVE  Retries' /\ SentStays
  <2>1. Retries'
    BY <1>5, MissKeepsRetries
  <2> QED
    BY <1>1, <1>5, <2>1, MissEffect DEF Missing, SentStays
<1>6. CASE Toggling
  <2>1. /\ UNCHANGED <<config, reported, row, sender, queue, task>> /\ history'.tried = history.tried
        /\ history'.stranded = history.stranded /\ history'.stale = history.stale
    BY <1>1, <1>6, ToggleEffect DEF Toggling
  <2> QED
    BY <2>1 DEF Retries, Waits, InHand, Gone, Keeps, Shares, Working, Settled, SentStays
<1>7. CASE UNCHANGED vars
  BY <1>7 DEF vars, Retries, Waits, InHand, Gone, Keeps, Shares, Working, Settled, SentStays
<1> QED
  BY <1>2, <1>3, <1>4, <1>5, <1>6, <1>7, Steps

\* However many tasks, lost messages and crashes: a delivery that waits for its retry
\* has a message or a task, unless its message was lost or gave up, or a task wrote
\* from a stale copy (retry_delivery, _queue_retry).
THEOREM RetriesAreQueued == Spec => []RetryIsQueued
<1>1. Init => BaseInv /\ Retries
  BY BaseInit, RetriesInit
<1>2. BaseInv /\ Retries /\ [Next]_vars => (BaseInv /\ Retries)'
  BY BaseStep, RetriesStep
<1>3. BaseInv /\ Retries => RetryIsQueued
  BY DEF Retries, RetryIsQueued, Waits, Gone
<1> QED
  BY <1>1, <1>2, <1>3, PTL DEF Spec

\* No crash, repeated message or second task changes a delivery that was sent or sends
\* it again, unless a task goes on from a copy it read before (retry_delivery).
THEOREM SentIsFinal == Spec => SentStaysSent
<1>1. Init => BaseInv /\ Retries
  BY BaseInit, RetriesInit
<1>2. BaseInv /\ Retries /\ [Next]_vars => (BaseInv /\ Retries)'
  BY BaseStep, RetriesStep
<1>3. BaseInv /\ Retries /\ [Next]_vars => [SentStays]_vars
  BY RetriesStep
<1>4. Spec => [][SentStays]_vars
  BY <1>1, <1>2, <1>3, PTL DEF Spec
<1> QED
  BY <1>4 DEF SentStays, SentStaysSent

-----------------------------------------------------------------------------
(* Attempts: every one told is in the row, undone, or one of a shared delivery. *)

\* The tasks that have a delivery.
Has(p) == {t \in Tasks : Working(t) /\ task[t].message.to = p}

\* An attempt that is made, and not committed yet.
InFlight(p) == \/ \E t \in Tasks : Writes(t, p)
               \/ \E n \in Senders : sender[n].pc = "routing" /\ sender[n].rows[p] # Absent

\* Attempts that nothing but the committed row accounts for.
Counted(p) == history.tried[p] - history.undone[p] - history.shared[p] - (IF InFlight(p) THEN 1 ELSE 0)

\* The attempts the row will have when the task ends well.
Writable(t) == IF task[t].pc = "write" THEN task[t].row.attempts ELSE task[t].row.attempts + 1

\* Every task but the first that has a delivery was counted as shared, so each may
\* still make its attempt, from its own copy.
Account(p) ==
    /\ Counted(p) <= row[p].attempts
    /\ Counted(p) + Cardinality(Has(p)) <= row[p].attempts + 1
    /\ \A t \in Has(p) : Counted(p) + Cardinality(Has(p)) <= Writable(t)

Accounts == \A p \in Policies : Account(p)

LEMMA Numbers ==
    ASSUME TypeOK, NEW p \in Policies
    PROVE  /\ Counted(p) \in Int /\ row[p].attempts \in 0..MaxAttempts
           /\ IsFiniteSet(Has(p)) /\ Cardinality(Has(p)) \in Nat
           /\ \A t \in Has(p) : Writable(t) \in Nat /\ Cardinality(Has(p)) >= 1
           /\ Cardinality(Has(p)) = 0 <=> Has(p) = {}
           /\ InHand(p) <=> Has(p) # {}
<1>1. IsFiniteSet(Has(p)) /\ Cardinality(Has(p)) \in Nat
  BY Constants, FS_Subset, FS_CardinalityType DEF Has
<1>2. Cardinality(Has(p)) = 0 <=> Has(p) = {}
  BY <1>1, FS_EmptySet
<1>3. history.tried[p] \in Nat /\ history.undone[p] \in Nat /\ history.shared[p] \in Nat
  BY Types
<1>4. row[p].attempts \in 0..MaxAttempts /\ \A t \in Has(p) : task[t].row.attempts \in 0..MaxAttempts
  BY Types DEF Rows, Has, Working
<1>5. InHand(p) <=> Has(p) # {}
  BY DEF InHand, Has, Working
<1>6. Counted(p) \in Int
  <2> HIDE DEF InFlight
  <2> QED
    BY <1>3 DEF Counted
<1>7. \A t \in Has(p) : Writable(t) \in Nat
  BY <1>4, Constants DEF Writable
<1>8. Has(p) # {} => Cardinality(Has(p)) >= 1
  BY <1>1, <1>2
<1> QED
  BY <1>1, <1>2, <1>4, <1>5, <1>6, <1>7, <1>8

\* A delivery nothing happens to.
LEMMA SameAccount ==
    ASSUME NEW p \in Policies, BaseInv, BaseInv', Account(p),
           row'[p].attempts = row[p].attempts, InFlight(p)' <=> InFlight(p),
           Has(p)' = Has(p), \A t \in Has(p) : task'[t] = task[t],
           history'.tried[p] = history.tried[p], history'.undone[p] = history.undone[p],
           history'.shared[p] >= history.shared[p]
    PROVE  Account(p)'
<1>1. /\ history.tried[p] \in Nat /\ history.undone[p] \in Nat /\ history.shared[p] \in Nat
      /\ history'.shared[p] \in Nat
  BY Types DEF BaseInv, TypeOK, Histories, Counters
<1>2. Counted(p)' <= Counted(p) /\ Counted(p)' \in Int
  BY <1>1 DEF Counted
<1>3. /\ Counted(p) \in Int /\ row[p].attempts \in Nat /\ Cardinality(Has(p)) \in Nat
      /\ \A t \in Has(p) : Writable(t) \in Nat
  BY Numbers, Constants DEF BaseInv
<1>4. \A t \in Has(p) : Writable(t)' = Writable(t)
  BY DEF Writable
<1> QED
  BY <1>2, <1>3, <1>4 DEF Account

\* A transaction that reports: no task has a delivery, and the rows are not there yet.
LEMMA RoutingAccount ==
    ASSUME BaseInv, NEW n \in Senders, sender[n].pc = "routing"
    PROVE  /\ \A p \in Policies : /\ Has(p) = {} /\ row[p].attempts = 0
                                  /\ InFlight(p) <=> sender[n].rows[p] # Absent
           /\ \A t \in Tasks : ~Working(t)
           /\ \A k \in Senders \ {n} : sender[k].pc # "routing"
           /\ Inserted(sender[n])
<1>1. /\ reported = 0 /\ row = NoRows /\ \A k \in Senders \ {n} : sender[k].pc # "routing"
      /\ Inserted(sender[n])
  BY DEF BaseInv, Transactions
<1>2. \A t \in Tasks : ~Working(t)
  BY <1>1, Types DEF BaseInv, Hands, Working, Senders
<1>3. \A p \in Policies : Has(p) = {} /\ row[p].attempts = 0
  BY <1>1, <1>2, EmptyRows DEF Has, Absent
<1>4. \A p \in Policies : InFlight(p) <=> sender[n].rows[p] # Absent
  BY <1>1, <1>2 DEF InFlight, Working, Writes
<1> QED
  BY <1>1, <1>2, <1>3, <1>4

LEMMA AccountsInit == Init => Accounts
<1> SUFFICES ASSUME Init, NEW p \in Policies PROVE Account(p)
  BY DEF Accounts
<1>1. BaseInv
  BY BaseInit
<1>2. \A t \in Tasks : task[t].pc = "idle"
  BY DEF Init, Idle
<1>3. \A n \in Senders : sender[n].rows = NoRows
  BY DEF Init, Ready
<1>4. ~InFlight(p) /\ Has(p) = {}
  BY <1>2, <1>3, EmptyRows DEF InFlight, Has, Working, Writes
<1>5. history.tried[p] = 0 /\ history.undone[p] = 0 /\ history.shared[p] = 0
  BY DEF Init
<1>6. row[p].attempts = 0 /\ Cardinality(Has(p)) = 0
  <2>1. Cardinality(Has(p)) = 0
    BY <1>1, <1>4, Numbers DEF BaseInv
  <2> QED
    BY <2>1, EmptyRows DEF Init, Absent
<1> QED
  BY <1>4, <1>5, <1>6 DEF Account, Counted

LEMMA SenderKeepsAccounts ==
    ASSUME BaseInv, BaseInv', Accounts, NEW n \in Senders, Beginning(n) \/ Routing(n) \/ Reporting(n)
    PROVE  Accounts'
<1>1. TypeOK /\ Transactions /\ Hands
  BY DEF BaseInv
<1>2. sender \in [Senders -> Routings] /\ history \in Histories /\ UNCHANGED task
  BY <1>1, Types, BeginEffect, RouteEffect, ReportEffect DEF Beginning, Routing, Reporting
<1>3. \A p \in Policies : Has(p)' = Has(p)
  BY <1>2 DEF Has, Working
<1>4. CASE Beginning(n)
  <2>1. PICK s \in Routings :
             /\ sender' = [sender EXCEPT ![n] = s] /\ sender[n].pc \in {"ready", "waiting"}
             /\ \/ s.pc = "done" /\ (reported # 0 \/ ~Reports)
                \/ s.pc = "waiting"
                \/ /\ s.pc = "routing" /\ reported = 0 /\ s.at = 1 /\ s.stopped = {}
                   /\ s.on = enabled /\ s.rows = NoRows
                   /\ \A k \in Senders : sender[k].pc # "routing"
             /\ UNCHANGED <<config, enabled, reported, row, queue, task, history>>
    BY <1>1, <1>4, BeginEffect DEF Beginning
  <2>2. \A p \in Policies, k \in Senders :
           sender'[k].pc = "routing" /\ sender'[k].rows[p] # Absent <=>
              sender[k].pc = "routing" /\ sender[k].rows[p] # Absent
    BY <1>2, <2>1, EmptyRows
  <2>3. \A p \in Policies : InFlight(p)' <=> InFlight(p)
    BY <2>1, <2>2 DEF InFlight, Writes
  <2>4. \A p \in Policies : history.shared[p] \in Nat
    BY <1>1, Types
  <2> QED
    BY <1>2, <1>3, <2>1, <2>3, <2>4, SameAccount DEF Accounts
<1>5. ASSUME Routing(n) \/ Reporting(n)
      PROVE  /\ sender[n].pc = "routing"
             /\ \A p \in Policies : /\ Has(p) = {} /\ row[p].attempts = 0
                                    /\ InFlight(p) <=> sender[n].rows[p] # Absent
             /\ \A t \in Tasks : ~Working(t)
             /\ \A k \in Senders \ {n} : sender[k].pc # "routing"
             /\ Inserted(sender[n])
  <2>1. sender[n].pc = "routing"
    BY <1>1, <1>5, RouteEffect, ReportEffect DEF Routing, Reporting
  <2> QED
    BY <2>1, RoutingAccount
<1>6. CASE Routing(n)
  <2>1. sender[n].at \in Policies /\ UNCHANGED row
    BY <1>1, <1>6, RouteEffect DEF Routing
  <2>2. PICK p \in Policies : p = sender[n].at
    BY <2>1
  <2>3. PICK s \in Routings, r \in Rows : RoutedBy(n, s, r)
    BY <1>1, <1>6, RouteEffect, Zenon DEF Routing
  <2>4. /\ sender' = [sender EXCEPT ![n] = s] /\ s.pc = "routing" /\ s.rows = [sender[n].rows EXCEPT ![p] = r]
        /\ \/ r.status # "absent" /\ history' = Tell(history, p)
           \/ r = Absent /\ UNCHANGED history
    BY <2>2, <2>3 DEF RoutedBy
  <2>5. sender'[n] = s /\ s.rows[p] = r /\ \A q \in Policies \ {p} : s.rows[q] = sender[n].rows[q]
    BY <1>2, <2>4 DEF Routings
  <2>6. \A q \in Policies : InFlight(q)' <=> s.rows[q] # Absent
    <3>1. \A t \in Tasks : task'[t].pc # "write"
      BY <1>2, <1>5, <1>6 DEF Working
    <3>2. \A k \in Senders \ {n} : sender'[k].pc # "routing"
      BY <1>2, <1>5, <1>6, <2>4
    <3> QED
      BY <2>4, <2>5, <3>1, <3>2 DEF InFlight, Writes
  <2>7. sender[n].rows[p] = Absent
    <3>1. ~(p < p)
      BY Constants DEF Policies
    <3> QED
      BY <1>5, <1>6, <2>2, <3>1 DEF Inserted
  <2>8. Absent.status = "absent"
    BY DEF Absent
  <2>9. \A q \in Policies : history.shared[q] \in Nat /\ history.tried[q] \in Nat /\ history.undone[q] \in Nat
    BY <1>1, Types
  <2>10. ASSUME NEW q \in Policies, q # p PROVE Account(q)'
    <3>1. history'.tried[q] = history.tried[q] /\ history'.undone[q] = history.undone[q]
          /\ history'.shared[q] = history.shared[q]
      BY <1>2, <2>4, <2>10, Telling
    <3>2. InFlight(q)' <=> InFlight(q)
      BY <1>5, <1>6, <2>5, <2>6, <2>10
    <3> QED
      BY <1>2, <1>3, <2>1, <2>9, <3>1, <3>2, SameAccount DEF Accounts
  <2>11. Account(p)'
    <3>1. CASE r = Absent /\ UNCHANGED history
      <4>1. InFlight(p)' <=> InFlight(p)
        BY <1>5, <1>6, <2>5, <2>6, <2>7, <3>1
      <4> QED
        BY <1>2, <1>3, <2>1, <2>9, <3>1, <4>1, SameAccount DEF Accounts
    <3>2. CASE r.status # "absent" /\ history' = Tell(history, p)
      <4>1. history'.tried[p] = history.tried[p] + 1 /\ history'.undone[p] = history.undone[p]
            /\ history'.shared[p] = history.shared[p]
        BY <1>2, <3>2, Telling
      <4>2. InFlight(p)' /\ ~InFlight(p)
        BY <1>5, <1>6, <2>5, <2>6, <2>7, <2>8, <3>2
      <4>3. Counted(p)' = Counted(p)
        BY <2>9, <4>1, <4>2 DEF Counted
      <4>4. Account(p) /\ Has(p) = {} /\ UNCHANGED row
        BY <1>5, <1>6, <2>1 DEF Accounts
      <4> QED
        BY <1>3, <4>3, <4>4 DEF Account
    <3> QED
      BY <2>4, <3>1, <3>2
  <2> QED
    BY <2>10, <2>11 DEF Accounts
<1>7. CASE Reporting(n)
  <2>1. PICK s \in Routings :
                 /\ sender' = [sender EXCEPT ![n] = s] /\ s.pc = "done"
                 /\ \/ /\ reported' = n /\ row' = sender[n].rows /\ UNCHANGED history
                       /\ sender[n].at \notin Policies /\ s.on = sender[n].on
                    \/ UNCHANGED <<reported, row>> /\ UseFault(UndoneSender(n))
    BY <1>1, <1>7, ReportEffect DEF Reporting
  <2> SUFFICES ASSUME NEW p \in Policies PROVE Account(p)'
    BY DEF Accounts
  <2>2. ~InFlight(p)'
    <3>1. \A k \in Senders : sender'[k].pc # "routing"
      BY <1>2, <1>5, <1>7, <2>1
    <3>2. \A t \in Tasks : task'[t].pc # "write"
      BY <1>2, <1>5, <1>7 DEF Working
    <3> QED
      BY <3>1, <3>2 DEF InFlight, Writes
  <2>3. history.shared[p] \in Nat /\ history.tried[p] \in Nat /\ history.undone[p] \in Nat
    BY <1>1, Types
  <2>4. /\ Account(p) /\ Has(p) = {} /\ Has(p)' = {} /\ row[p].attempts = 0 /\ Inserted(sender[n])
        /\ InFlight(p) <=> sender[n].rows[p] # Absent
    BY <1>3, <1>5, <1>7 DEF Accounts
  <2>5. Cardinality(Has(p)) = 0 /\ Counted(p) <= 0 /\ Counted(p) \in Int
    BY <1>1, <2>4, Numbers DEF Account
  <2>6. CASE row' = sender[n].rows /\ UNCHANGED history
    <3>1. Counted(p)' = IF InFlight(p) THEN Counted(p) + 1 ELSE Counted(p)
      BY <2>2, <2>3, <2>6 DEF Counted
    <3>2. sender[n].rows[p] # Absent => row'[p].attempts = 1
      BY <2>4, <2>6 DEF Inserted
    <3>3. sender[n].rows[p] = Absent => row'[p].attempts = 0
      BY <2>6 DEF Absent
    <3>4. Counted(p)' <= row'[p].attempts /\ row'[p].attempts \in {0, 1} /\ Counted(p)' \in Int
      <4> HIDE DEF InFlight
      <4> QED
        BY <2>4, <2>5, <3>1, <3>2, <3>3
    <3> QED
      BY <2>4, <2>5, <3>4 DEF Account
  <2>7. CASE UNCHANGED row /\ UseFault(UndoneSender(n))
    <3>1. /\ UndoneSender(n) \in Histories /\ UndoneSender(n).tried = history.tried
          /\ UndoneSender(n).shared = history.shared
          /\ UndoneSender(n).undone[p] =
                 IF sender[n].rows[p] = Absent THEN history.undone[p] ELSE history.undone[p] + 1
      BY <1>1, UndoneRouting
    <3>2. /\ history'.tried = UndoneSender(n).tried /\ history'.undone = UndoneSender(n).undone
          /\ history'.shared = UndoneSender(n).shared
      BY <2>7, <3>1, Faulting
    <3>3. Counted(p)' = Counted(p)
      BY <2>2, <2>3, <2>4, <3>1, <3>2 DEF Counted
    <3> QED
      BY <2>4, <2>5, <2>7, <3>3 DEF Account
  <2> QED
    BY <2>1, <2>6, <2>7
<1> QED
  BY <1>4, <1>6, <1>7

\* While something is reported, an attempt that is not committed is a task's.
LEMMA WorkingAccount ==
    ASSUME BaseInv, NEW t \in Tasks, Working(t)
    PROVE  /\ \A n \in Senders : sender[n].pc # "routing"
           /\ \A p \in Policies : InFlight(p) <=> \E u \in Tasks : Writes(u, p)
<1>1. reported # 0
  BY Types, Constants DEF BaseInv, Hands, Working, Senders
<1> QED
  BY <1>1 DEF BaseInv, Transactions, InFlight

LEMMA ReadKeepsAccounts ==
    ASSUME BaseInv, BaseInv', Accounts, NEW t \in Tasks, NEW m \in Messages, Read(t, m)
    PROVE  Accounts'
<1>1. TypeOK /\ TypeOK'
  BY DEF BaseInv
<1>2. PICK p \in Policies : p = m.to
  BY DEF Messages
<1>3. /\ task[t].pc = "idle" /\ UNCHANGED <<row, sender>>
      /\ \/ Settled(row[p]) /\ task' = [task EXCEPT ![t] = Idle]
         \/ \E j \in Jobs : task' = [task EXCEPT ![t] = j] /\ j.pc = "read" /\ j.message = m /\ j.row = row[p]
      /\ history'.tried = history.tried /\ history'.undone = history.undone
      /\ \A q \in Policies :
            history'.shared[q] = IF q = p /\ InHand(q) THEN history.shared[q] + 1 ELSE history.shared[q]
  BY <1>1, <1>2, ReadEffect
<1>4. \A q \in Policies : history.shared[q] \in Nat /\ history.tried[q] \in Nat /\ history.undone[q] \in Nat
  BY <1>1, Types
<1>5. \A u \in Tasks \ {t} : task'[u] = task[u]
  BY <1>1, <1>3, Types
<1>6. task'[t].pc # "write" /\ (task'[t].pc = "idle" \/ task'[t].message.to = p)
  BY <1>1, <1>2, <1>3, Types DEF Idle
<1>7. \A q \in Policies : InFlight(q)' <=> InFlight(q)
  BY <1>3, <1>5, <1>6 DEF InFlight, Writes
<1>8. \A q \in Policies : Has(q)' = Has(q) \/ (q = p /\ task'[t].pc # "idle")
  BY <1>3, <1>5, <1>6 DEF Has, Working
<1>9. \A q \in Policies : \A u \in Has(q) : task'[u] = task[u]
  BY <1>3, <1>5 DEF Has, Working
<1>10. \A q \in Policies : history'.shared[q] >= history.shared[q]
  BY <1>3, <1>4
<1>11. ASSUME NEW q \in Policies, Has(q)' = Has(q)
       PROVE  Account(q)'
  BY <1>3, <1>7, <1>9, <1>10, <1>11, SameAccount DEF Accounts
<1>12. CASE task'[t].pc # "idle"
  <2>1. task'[t].pc = "read" /\ task'[t].message.to = p /\ task'[t].row = row[p]
    BY <1>1, <1>2, <1>3, <1>12, Types DEF Idle
  <2>2. Has(p)' = Has(p) \cup {t} /\ t \notin Has(p)
    BY <1>3, <1>5, <2>1 DEF Has, Working
  <2>3. /\ Counted(p) \in Int /\ row[p].attempts \in Nat /\ IsFiniteSet(Has(p)) /\ Cardinality(Has(p)) \in Nat
        /\ Cardinality(Has(p)) = 0 <=> Has(p) = {}
        /\ InHand(p) <=> Has(p) # {}
        /\ \A u \in Has(p) : Writable(u) \in Nat
    BY <1>1, Numbers, Constants
  <2>4. Cardinality(Has(p)') = Cardinality(Has(p)) + 1
    BY <2>2, <2>3, FS_AddElement
  <2>5. Counted(p)' = IF InHand(p) THEN Counted(p) - 1 ELSE Counted(p)
    <3>1. history'.shared[p] = IF InHand(p) THEN history.shared[p] + 1 ELSE history.shared[p]
      BY <1>3
    <3> HIDE DEF InHand, InFlight
    <3> QED
      BY <1>3, <1>4, <1>7, <3>1 DEF Counted
  <2>6. Account(p)
    BY DEF Accounts
  <2>7. /\ Counted(p)' <= Counted(p) /\ Counted(p)' \in Int
        /\ Counted(p)' + Cardinality(Has(p)') <= row[p].attempts + 1
        /\ InHand(p) => Counted(p)' + Cardinality(Has(p)') = Counted(p) + Cardinality(Has(p))
    <3> HIDE DEF InHand
    <3> QED
      BY <2>3, <2>4, <2>5, <2>6 DEF Account
  <2>8. ASSUME NEW u \in Has(p)'
        PROVE  Counted(p)' + Cardinality(Has(p)') <= Writable(u)'
    <3>1. CASE u = t
      <4>1. Writable(u)' = row[p].attempts + 1
        BY <2>1, <3>1 DEF Writable
      <4> QED
        BY <2>7, <4>1
    <3>2. CASE u # t
      <4>1. u \in Has(p) /\ Writable(u)' = Writable(u)
        BY <1>9, <2>2, <3>2 DEF Writable
      <4>2. InHand(p)
        BY <2>3, <4>1
      <4> QED
        BY <2>6, <2>7, <4>1, <4>2 DEF Account
    <3> QED
      BY <3>1, <3>2
  <2>9. Account(p)'
    BY <1>3, <2>3, <2>6, <2>7, <2>8 DEF Account
  <2> QED
    BY <1>8, <1>11, <2>9 DEF Accounts
<1>13. CASE task'[t].pc = "idle"
  BY <1>8, <1>11, <1>13 DEF Accounts
<1> QED
  BY <1>12, <1>13

LEMMA SendKeepsAccounts ==
    ASSUME BaseInv, BaseInv', Accounts, NEW t \in Tasks, Sending(t)
    PROVE  Accounts'
<1>1. TypeOK /\ TypeOK' /\ Hands
  BY DEF BaseInv
<1>2. task[t].pc = "read" /\ ~Locked(task[t].message.to) /\ UNCHANGED <<row, sender>>
  BY <1>1, SendEffect DEF Sending
<1>3. PICK p \in Policies : p = task[t].message.to
  BY <1>1, <1>2, Types
<1>4. PICK j \in Jobs : SentBy(t, j)
  BY <1>1, SendEffect, Zenon DEF Sending
<1>5. /\ task'[t] = j /\ \A u \in Tasks \ {t} : task'[u] = task[u]
      /\ j.pc = "write" /\ j.message.to = p
  BY <1>1, <1>3, <1>4, Types DEF SentBy
<1>6. \A q \in Policies : history.shared[q] \in Nat /\ history.tried[q] \in Nat /\ history.undone[q] \in Nat
  BY <1>1, Types
<1>7. /\ Aged(history, t) \in Histories /\ Aged(history, t).tried = history.tried
      /\ Aged(history, t).undone = history.undone /\ Aged(history, t).shared = history.shared
  BY <1>1, <1>2, Aging
<1>8. \/ j.row.attempts = row[p].attempts /\ history' = Aged(history, t)
      \/ j.row.attempts = task[t].row.attempts + 1 /\ history' = Tell(Aged(history, t), p)
  BY <1>3, <1>4 DEF SentBy
<1>9. /\ history'.undone = history.undone /\ history'.shared = history.shared
      /\ \A q \in Policies : q # p => history'.tried[q] = history.tried[q]
  BY <1>7, <1>8, Telling
<1>10. \A q \in Policies : Has(q)' = Has(q)
  BY <1>2, <1>3, <1>5 DEF Has, Working
<1>11. Working(t)
  BY <1>2 DEF Working
<1>12. ASSUME NEW q \in Policies, q # p
       PROVE  Account(q)'
  <2>1. InFlight(q)' <=> InFlight(q)
    BY <1>2, <1>3, <1>5, <1>12 DEF InFlight, Writes
  <2>2. \A u \in Has(q) : task'[u] = task[u]
    BY <1>3, <1>5, <1>12 DEF Has
  <2> QED
    BY <1>2, <1>6, <1>9, <1>10, <1>12, <2>1, <2>2, SameAccount DEF Accounts
<1>13. InFlight(p)' /\ ~InFlight(p)
  <2>1. ~InFlight(p)
    BY <1>2, <1>3, <1>11, WorkingAccount DEF Locked, Writes
  <2> QED
    BY <1>5, <2>1 DEF InFlight, Writes
<1>14. /\ Account(p) /\ Counted(p) \in Int /\ row[p].attempts \in Nat /\ Cardinality(Has(p)) \in Nat
       /\ \A u \in Has(p) : Writable(u) \in Nat
       /\ t \in Has(p)
  <2>1. t \in Has(p)
    BY <1>3, <1>11 DEF Has
  <2>2. Account(p)
    BY DEF Accounts
  <2> QED
    BY <1>1, <2>1, <2>2, Numbers, Constants
<1>15. \A u \in Tasks \ {t} : Writable(u)' = Writable(u)
  BY <1>5 DEF Writable
<1>16. CASE j.row.attempts = row[p].attempts /\ history' = Aged(history, t)
  <2>1. Counted(p)' = Counted(p) - 1
    BY <1>6, <1>7, <1>13, <1>16 DEF Counted
  <2>2. Writable(t)' = row[p].attempts
    BY <1>5, <1>16 DEF Writable
  <2>3. ASSUME NEW u \in Has(p)
        PROVE  Counted(p)' + Cardinality(Has(p)) <= Writable(u)'
    <3>1. CASE u = t
      BY <1>14, <2>1, <2>2, <3>1 DEF Account
    <3>2. CASE u # t
      <4>1. Writable(u)' = Writable(u)
        BY <1>15, <3>2 DEF Has
      <4> QED
        BY <1>14, <2>1, <4>1 DEF Account
    <3> QED
      BY <3>1, <3>2
  <2>4. Account(p)'
    BY <1>2, <1>10, <1>14, <2>1, <2>3 DEF Account
  <2> QED
    BY <1>12, <2>4 DEF Accounts
<1>17. CASE j.row.attempts = task[t].row.attempts + 1 /\ history' = Tell(Aged(history, t), p)
  <2>1. history'.tried[p] = history.tried[p] + 1
    BY <1>7, <1>17, Telling
  <2>2. Counted(p)' = Counted(p)
    BY <1>6, <1>9, <1>13, <2>1 DEF Counted
  <2>3. Writable(t)' = Writable(t)
    BY <1>2, <1>5, <1>17 DEF Writable
  <2>4. \A u \in Has(p) : Writable(u)' = Writable(u)
    BY <1>15, <2>3 DEF Has
  <2>5. Account(p)'
    BY <1>2, <1>10, <1>14, <2>2, <2>4 DEF Account
  <2> QED
    BY <1>12, <2>5 DEF Accounts
<1> QED
  BY <1>8, <1>16, <1>17

LEMMA EndKeepsAccounts ==
    ASSUME BaseInv, BaseInv', Accounts, NEW t \in Tasks, Ending(t)
    PROVE  Accounts'
<1>1. TypeOK /\ TypeOK' /\ Hands
  BY DEF BaseInv
<1>2. task[t].pc # "idle" /\ UNCHANGED sender /\ task' = [task EXCEPT ![t] = Idle]
  BY <1>1, EndEffect DEF Ending
<1>3. PICK p \in Policies : p = task[t].message.to
  BY <1>1, <1>2, Types
<1>4. /\ history'.tried = history.tried /\ history'.shared = history.shared
      /\ \/ /\ task[t].pc = "write" /\ row' = [row EXCEPT ![p] = task[t].row]
            /\ history'.undone = history.undone
         \/ /\ UNCHANGED row
            /\ \A q \in Policies : history'.undone[q] =
                  IF task[t].pc = "write" /\ q = p THEN history.undone[q] + 1 ELSE history.undone[q]
  BY <1>1, <1>3, EndEffect DEF Ending
<1>5. Idle.pc = "idle" /\ task'[t] = Idle /\ \A u \in Tasks \ {t} : task'[u] = task[u]
  BY <1>1, <1>2, Types DEF Idle
<1>6. \A q \in Policies : history.shared[q] \in Nat /\ history.tried[q] \in Nat /\ history.undone[q] \in Nat
  BY <1>1, Types
<1>7. Working(t) /\ row \in [Policies -> Rows] /\ task[t].row \in Rows
  BY <1>1, <1>2, Types DEF Working
<1>8. \A n \in Senders : sender[n].pc # "routing" /\ sender'[n].pc # "routing"
  BY <1>2, <1>7, WorkingAccount
<1>9. \A q \in Policies : /\ InFlight(q) <=> \E u \in Tasks : Writes(u, q)
                          /\ InFlight(q)' <=> \E u \in Tasks : task'[u].pc = "write" /\ task'[u].message.to = q
  BY <1>8 DEF InFlight, Writes
<1>10. ASSUME NEW q \in Policies, q # p
       PROVE  Account(q)'
  <2>1. InFlight(q)' <=> InFlight(q)
    BY <1>3, <1>5, <1>9, <1>10 DEF Writes
  <2>2. Has(q)' = Has(q) /\ \A u \in Has(q) : task'[u] = task[u]
    BY <1>3, <1>5, <1>10 DEF Has, Working
  <2>3. row'[q] = row[q] /\ history'.undone[q] = history.undone[q]
    BY <1>4, <1>7, <1>10
  <2> QED
    BY <1>4, <1>6, <1>10, <2>1, <2>2, <2>3, SameAccount DEF Accounts
<1>11. Has(p)' = Has(p) \ {t} /\ t \in Has(p)
  BY <1>3, <1>5, <1>7 DEF Has, Working
<1>12. /\ Account(p) /\ Counted(p) \in Int /\ row[p].attempts \in Nat
       /\ IsFiniteSet(Has(p)) /\ Cardinality(Has(p)) \in Nat /\ Cardinality(Has(p)) >= 1
       /\ \A u \in Has(p) : Writable(u) \in Nat
  BY <1>1, <1>11, Numbers, Constants DEF Accounts
<1>13. Cardinality(Has(p)') = Cardinality(Has(p)) - 1
  BY <1>11, <1>12, FS_RemoveElement
<1>14. \A u \in Has(p)' : u \in Has(p) /\ Writable(u)' = Writable(u)
  BY <1>5, <1>11 DEF Writable, Has
<1>15. task[t].pc = "write" => InFlight(p) /\ ~InFlight(p)'
  <2> SUFFICES ASSUME task[t].pc = "write" PROVE InFlight(p) /\ ~InFlight(p)'
    OBVIOUS
  <2>1. \A u \in Tasks \ {t} : ~Writes(u, p)
    BY <1>1, <1>3, <1>7 DEF Hands, Writes
  <2> QED
    BY <1>3, <1>5, <1>9, <2>1 DEF Writes
<1>16. task[t].pc # "write" => (InFlight(p)' <=> InFlight(p))
  BY <1>5, <1>9 DEF Writes
<1>17. CASE task[t].pc = "write" /\ row' = [row EXCEPT ![p] = task[t].row] /\ history'.undone = history.undone
  <2>1. Counted(p)' = Counted(p) + 1
    BY <1>4, <1>6, <1>15, <1>17 DEF Counted
  <2>2. row'[p].attempts = Writable(t)
    BY <1>7, <1>17 DEF Writable
  <2>3. Account(p)'
    BY <1>11, <1>12, <1>13, <1>14, <2>1, <2>2 DEF Account
  <2> QED
    BY <1>10, <2>3 DEF Accounts
<1>18. CASE UNCHANGED row /\ history'.undone[p] = IF task[t].pc = "write" THEN history.undone[p] + 1 ELSE history.undone[p]
  <2>1. Counted(p)' = Counted(p)
    <3> HIDE DEF InFlight
    <3>1. CASE task[t].pc = "write"
      BY <1>4, <1>6, <1>15, <1>18, <3>1 DEF Counted
    <3>2. CASE task[t].pc # "write"
      BY <1>4, <1>6, <1>16, <1>18, <3>2 DEF Counted
    <3> QED
      BY <3>1, <3>2
  <2>2. Account(p)'
    BY <1>11, <1>12, <1>13, <1>14, <1>18, <2>1 DEF Account
  <2> QED
    BY <1>10, <2>2 DEF Accounts
<1> QED
  BY <1>4, <1>17, <1>18

LEMMA AccountsStep == BaseInv /\ BaseInv' /\ Accounts /\ [Next]_vars => Accounts'
<1> SUFFICES ASSUME BaseInv, BaseInv', Accounts, [Next]_vars PROVE Accounts'
  OBVIOUS
<1>1. TypeOK
  BY DEF BaseInv
<1>2. \A p \in Policies : history.shared[p] \in Nat
  BY <1>1, Types
<1>3. CASE /\ UNCHANGED <<row, sender, task>> /\ history'.tried = history.tried
           /\ history'.undone = history.undone /\ history'.shared = history.shared
  <2>1. \A p \in Policies : Has(p)' = Has(p) /\ (InFlight(p)' <=> InFlight(p))
    BY <1>3 DEF Has, Working, InFlight, Writes
  <2> QED
    BY <1>2, <1>3, <2>1, SameAccount DEF Accounts
<1>4. ASSUME NEW m \in Messages, Missing(m) PROVE Accounts'
  BY <1>1, <1>3, <1>4, MissEffect DEF Missing
<1>5. CASE Toggling
  BY <1>1, <1>3, <1>5, ToggleEffect DEF Toggling
<1>6. CASE UNCHANGED vars
  BY <1>3, <1>6 DEF vars
<1>7. CASE \E n \in Senders : Beginning(n) \/ Routing(n) \/ Reporting(n)
  BY <1>7, SenderKeepsAccounts, Zenon
<1>8. CASE \E t \in Tasks : Sending(t) \/ Ending(t) \/ \E m \in Messages : Read(t, m)
  BY <1>8, SendKeepsAccounts, EndKeepsAccounts, ReadKeepsAccounts, Zenon
<1> QED
  BY <1>4, <1>5, <1>6, <1>7, <1>8, Steps

LEMMA AccountsSuffice == BaseInv /\ Accounts => AttemptsAreBounded
<1> SUFFICES ASSUME BaseInv, Accounts, NEW p \in Policies
             PROVE  history.tried[p] <= MaxAttempts + history.undone[p] + history.shared[p]
  BY DEF AttemptsAreBounded
<1>1. TypeOK
  BY DEF BaseInv
<1>2. /\ Account(p) /\ Counted(p) \in Int /\ row[p].attempts \in 0..MaxAttempts
      /\ Cardinality(Has(p)) \in Nat /\ \A t \in Has(p) : Cardinality(Has(p)) >= 1
  BY <1>1, Numbers DEF Accounts
<1>3. history.tried[p] \in Nat /\ history.undone[p] \in Nat /\ history.shared[p] \in Nat
  BY <1>1, Types
<1>4. CASE ~InFlight(p)
  <2>1. Counted(p) = history.tried[p] - history.undone[p] - history.shared[p]
    BY <1>3, <1>4 DEF Counted
  <2> QED
    BY <1>2, <1>3, <2>1, Constants DEF Account
<1>5. CASE InFlight(p)
  <2>1. Counted(p) = history.tried[p] - history.undone[p] - history.shared[p] - 1
    BY <1>3, <1>5 DEF Counted
  <2>2. Counted(p) + 1 <= MaxAttempts
    <3>1. ASSUME NEW t \in Tasks, Writes(t, p)
          PROVE  Counted(p) + 1 <= MaxAttempts
      <4>1. t \in Has(p) /\ Writable(t) = task[t].row.attempts /\ task[t].row.attempts \in 0..MaxAttempts
        BY <1>1, <3>1, Types DEF Writes, Has, Working, Writable, Rows
      <4> QED
        BY <1>2, <4>1, Constants DEF Account
    <3>2. ASSUME NEW n \in Senders, sender[n].pc = "routing"
          PROVE  Counted(p) + 1 <= MaxAttempts
      <4>1. row[p].attempts = 0
        BY <3>2, RoutingAccount
      <4> QED
        BY <1>2, <4>1, Constants DEF Account
    <3> QED
      BY <1>5, <3>1, <3>2 DEF InFlight
  <2> QED
    BY <1>2, <1>3, <2>1, <2>2, Constants
<1> QED
  BY <1>4, <1>5

\* However many tasks take one delivery, and whatever they lose: a message is sent at
\* most MaxAttempts times, and once more for each attempt whose transaction was undone
\* and each task that took the delivery while another had it (deliver_notification).
THEOREM AttemptsStayBounded == Spec => []AttemptsAreBounded
<1>1. Init => BaseInv /\ Accounts
  BY BaseInit, AccountsInit
<1>2. BaseInv /\ Accounts /\ [Next]_vars => (BaseInv /\ Accounts)'
  BY BaseStep, AccountsStep
<1>3. BaseInv /\ Accounts => AttemptsAreBounded
  BY AccountsSuffice
<1> QED
  BY <1>1, <1>2, <1>3, PTL DEF Spec
=============================================================================

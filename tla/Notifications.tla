---------------------------- MODULE Notifications ----------------------------
(***************************************************************************)
(* Notifications of backup outcomes: alert_service decides whether to      *)
(* report, notification_routing_service.dispatch_event routes the report   *)
(* through the policies in their order and sends it inside the transaction *)
(* of its caller, and Celery tasks send again what failed.                 *)
(*                                                                         *)
(* One report is modelled: a run's, or a single record's.  A policy has    *)
(* one channel, so a delivery is named by its policy.  A task sees the     *)
(* committed rows; an updated row stays locked until its transaction ends. *)
(***************************************************************************)
EXTENDS Integers, FiniteSets

CONSTANTS
    Items,         \* the records reported
    NumPolicies,   \* how many policies there are
    Configs,       \* the configurations a behaviour may start with
    Plain,         \* the one of them with more than one caller and faults (bound)
    NumSenders,    \* callers that report the same outcomes
    Tasks,         \* Celery tasks that run at once
    MaxAttempts,   \* MAX_ATTEMPTS
    MaxMisses,     \* retries of a task that finds no delivery
    MaxFaults,     \* bound: faults in a behaviour
    MaxShared,     \* bound: how often a task takes a delivery another one has
    MaxToggles     \* bound: how often a channel is switched

Outcomes == {"succeeded", "changed", "backup_failed", "task_cancelled"}

\* list_policies, by priority.
Policies == 1..NumPolicies

Senders  == 1..NumSenders

ASSUME NotificationAssumption ==
    /\ NumPolicies \in Nat /\ NumSenders \in Nat \ {0} /\ IsFiniteSet(Tasks)
    /\ MaxAttempts \in Nat \ {0} /\ MaxMisses \in Nat /\ MaxFaults \in Nat /\ MaxToggles \in Nat /\ MaxShared \in Nat
    /\ Plain \in Configs
    /\ \A c \in Configs :
          /\ c.outcome \in [Items -> Outcomes \cup {"absent"}]
          /\ c.policy \in [Policies -> [events : SUBSET {"backup_summary", "backup_failed",
                                                         "task_cancelled", "config_changed"},
                                        accepts : SUBSET Items, stop : BOOLEAN]]

VARIABLES
    config,     \* outcomes of the records, and the enabled policies
    enabled,    \* channels that are enabled
    reported,   \* the committed NotificationEvent: the sender's number, or 0
    row,        \* the committed deliveries
    sender,     \* each sender's transaction
    queue,      \* Celery messages, as a bag
    task,       \* what each task has in hand
    history     \* what was sent and lost (history), and the bounds used

vars == <<config, enabled, reported, row, sender, queue, task, history>>

Absent   == [status |-> "absent", attempts |-> 0, items |-> {}]
NoRows   == [p \in Policies |-> Absent]
Messages == [to : Policies, of : Senders, misses : 0..MaxMisses]
Ready    == [pc |-> "ready", at |-> 1, stopped |-> {}, on |-> {}, rows |-> NoRows]
Idle     == [pc |-> "idle"]

Reported == {i \in Items : config.outcome[i] # "absent"}

UseFault(h) ==
    /\ config = Plain /\ h.faults < MaxFaults
    /\ history' = [h EXCEPT !.faults = @ + 1]

\* app.deliver_notification is queued, with a countdown.
Push(q, m) == [q EXCEPT ![m] = @ + 1]
Pop(q, m)  == [q EXCEPT ![m] = @ - 1]
Retry(p, n) == [to |-> p, of |-> n, misses |-> 0]

-----------------------------------------------------------------------------
(* What is reported: alert_service. *)

\* The event types an outcome belongs to (_batch_matching_event_types).
EventOf(i) == IF config.outcome[i] = "changed" THEN "config_changed" ELSE config.outcome[i]

SomePolicy(event) == \E p \in Policies : event \in config.policy[p].events

\* check_and_alert for one record, check_and_alert_batch for a run.  Which event
\* type they choose makes no difference to the routes.
Reports ==
    \/ SomePolicy("backup_summary")
    \/ \E i \in Reported : SomePolicy(EventOf(i))

-----------------------------------------------------------------------------
(* dispatch_event. *)

\* The items of the event that interest the policy, before its conditions.
Candidates(p) ==
    LET events == config.policy[p].events
    IN  IF "backup_summary" \in events THEN Reported ELSE {i \in Reported : EventOf(i) \in events}

\* Mutant: a policy that stops processing stops every item.
StopAll(p, stopped) ==
    LET routed == (Candidates(p) \ stopped) \cap config.policy[p].accepts
    IN  [items |-> routed, stopped |-> IF config.policy[p].stop /\ routed # {} THEN Reported ELSE stopped]

\* One policy: what it is sent, and the items no later policy sees.
Route(p, stopped) ==
    LET routed == (Candidates(p) \ stopped) \cap config.policy[p].accepts
    IN  [items |-> routed, stopped |-> IF config.policy[p].stop THEN stopped \cup routed ELSE stopped]

\* Looks the event up and inserts it; the unique source key makes a second
\* sender wait for the first one's transaction.
Begin(n) ==
    /\ sender[n].pc = "ready"
    /\ sender' = [sender EXCEPT ![n] =
                    IF reported # 0 \/ ~Reports THEN [Ready EXCEPT !.pc = "done"]
                    ELSE IF \E k \in Senders : sender[k].pc = "routing" THEN [Ready EXCEPT !.pc = "waiting"]
                    ELSE [Ready EXCEPT !.pc = "routing", !.on = enabled]]
    /\ UNCHANGED <<config, enabled, reported, row, queue, task, history>>

\* The first one has committed: the insert violates the constraint, and with it
\* the caller's transaction fails.  It was rolled back: the insert goes through.
Waited(n) ==
    /\ sender[n].pc = "waiting"
    /\ \A k \in Senders : sender[k].pc # "routing"
    /\ sender' = [sender EXCEPT ![n] = IF reported # 0 THEN [Ready EXCEPT !.pc = "done"]
                                       ELSE [Ready EXCEPT !.pc = "routing", !.on = enabled]]
    /\ UNCHANGED <<config, enabled, reported, row, queue, task, history>>

\* Mutant: one attempt more is promised than retry_delivery makes.
AttemptedOnceMore(attempts, ok) ==
    IF ok THEN "sent" ELSE IF attempts <= MaxAttempts THEN "retrying" ELSE "failed"

\* _send_channel returns, or raises: an incomplete configuration, an address that
\* is not allowed, a status that is not 2xx, a timeout.
Answers == BOOLEAN

\* The status of a delivery after an attempt.
Attempted(attempts, ok) ==
    IF ok THEN "sent" ELSE IF attempts < MaxAttempts THEN "retrying" ELSE "failed"

Tell(h, p) == [h EXCEPT !.tried[p] = @ + 1]

\* The next policy; its delivery is inserted and sent at once, and a failed one is
\* queued before anything is committed.
RoutePolicy(n, ok) ==
    LET p      == sender[n].at
        routed == Route(p, sender[n].stopped)
        sends  == routed.items # {} /\ p \in sender[n].on
        status == Attempted(1, ok)
    IN  /\ sender[n].pc = "routing" /\ p \in Policies
        /\ ok \/ (sends /\ config = Plain)
        /\ sender' = [sender EXCEPT ![n].at = p + 1,
                                    ![n].stopped = routed.stopped,
                                    ![n].rows[p] = IF sends THEN [status |-> status, attempts |-> 1,
                                                                  items |-> routed.items]
                                                   ELSE Absent]
        /\ queue' = IF sends /\ status = "retrying" THEN Push(queue, Retry(p, n)) ELSE queue
        /\ history' = IF sends THEN Tell(history, p) ELSE history
        /\ UNCHANGED <<config, enabled, reported, row, task>>

\* The caller's transaction commits.
Commit(n) ==
    /\ sender[n].pc = "routing" /\ sender[n].at \notin Policies
    /\ reported' = n
    /\ row' = sender[n].rows
    /\ sender' = [sender EXCEPT ![n] = [Ready EXCEPT !.pc = "done", !.on = sender[n].on]]
    /\ UNCHANGED <<config, enabled, queue, task, history>>

\* It fails, or its process dies: the messages it sent stay sent.
Rollback(n) ==
    /\ sender[n].pc = "routing"
    /\ UseFault([history EXCEPT !.undone = [p \in Policies |->
          IF sender[n].rows[p] = Absent THEN @[p] ELSE @[p] + 1]])
    /\ sender' = [sender EXCEPT ![n] = [Ready EXCEPT !.pc = "done"]]
    /\ UNCHANGED <<config, enabled, reported, row, queue, task>>

-----------------------------------------------------------------------------
(* deliver_notification_task. *)

Found(m) == reported = m.of /\ row[m.to].status # "absent"

\* Mutants: only one of the reasons to leave a delivery alone is looked at.
SettledIfSent(r)  == r.status = "sent"
SettledIfTried(r) == r.attempts >= MaxAttempts

\* Nothing to do any more (retry_delivery).
Settled(r) == r.status = "sent" \/ r.attempts >= MaxAttempts

\* The delivery is not there: the message is tried again a few times.
Miss(m) ==
    /\ queue[m] > 0 /\ ~Found(m)
    /\ queue' = IF m.misses < MaxMisses THEN Push(Pop(queue, m), [m EXCEPT !.misses = @ + 1])
                ELSE Pop(queue, m)
    /\ history' = IF m.misses = MaxMisses /\ sender[m.of].pc = "routing"
                  THEN [history EXCEPT !.stranded = @ \cup {m.to}] ELSE history
    /\ UNCHANGED <<config, enabled, reported, row, sender, task>>

InHand(p) == \E t \in Tasks : task[t].pc # "idle" /\ task[t].message.to = p

\* A task reads its delivery; nothing keeps it from one that another task has.
Read(t, m) ==
    /\ task[t].pc = "idle" /\ queue[m] > 0 /\ Found(m)
    /\ queue' = Pop(queue, m)
    /\ task' = [task EXCEPT ![t] = IF Settled(row[m.to]) THEN Idle
                                   ELSE [pc |-> "read", message |-> m, row |-> row[m.to]]]
    /\ IF InHand(m.to) THEN /\ history.shared[m.to] < MaxShared
                            /\ history' = [history EXCEPT !.shared[m.to] = @ + 1]
                       ELSE UNCHANGED history
    /\ UNCHANGED <<config, enabled, reported, row, sender>>

Locked(p) == \E t \in Tasks : task[t].pc = "write" /\ task[t].message.to = p

\* The task goes on from a copy that is no longer what is committed.
Aged(h, t) ==
    LET p == task[t].message.to
    IN  IF task[t].row = row[p] THEN h ELSE [h EXCEPT !.stale = @ \cup {p}]

\* The channel is switched off, and only the status is written; or the delivery is
\* marked as being sent, which locks it, and sent: the attempts are counted from
\* the copy the task read.
Send(t, ok) ==
    /\ task[t].pc = "read"
    /\ LET p        == task[t].message.to
           attempts == task[t].row.attempts + 1
           status   == Attempted(attempts, ok)
       IN  /\ ~Locked(p)
           /\ IF p \notin enabled
              THEN /\ ok
                   /\ task' = [task EXCEPT ![t].pc = "write",
                     ![t].row = IF task[t].row.status = "failed" THEN row[p]
                                ELSE [row[p] EXCEPT !.status = "failed"]]
                   /\ history' = Aged(history, t)
                   /\ UNCHANGED queue
              ELSE /\ task' = [task EXCEPT ![t].pc = "write", ![t].row.status = status,
                                           ![t].row.attempts = attempts]
                   /\ queue' = IF status = "retrying" THEN Push(queue, Retry(p, task[t].message.of))
                               ELSE queue
                   /\ history' = Tell(Aged(history, t), p)
    /\ UNCHANGED <<config, enabled, reported, row, sender>>

\* The task ends well.
Write(t) ==
    /\ task[t].pc = "write"
    /\ row' = [row EXCEPT ![task[t].message.to] = task[t].row]
    /\ task' = [task EXCEPT ![t] = Idle]
    /\ UNCHANGED <<config, enabled, reported, sender, queue, history>>

Undo(t) ==
    [history EXCEPT !.undone[task[t].message.to] = IF task[t].pc = "write" THEN @ + 1 ELSE @]

\* Mutant: the message is acknowledged when it is delivered.
CrashAckedEarly(t, committed) ==
    /\ task[t].pc # "idle"
    /\ committed => task[t].pc = "write"
    /\ UseFault(IF committed THEN history ELSE Undo(t))
    /\ row' = IF committed THEN [row EXCEPT ![task[t].message.to] = task[t].row] ELSE row
    /\ task' = [task EXCEPT ![t] = Idle]
    /\ UNCHANGED <<config, enabled, reported, sender, queue>>

\* The worker dies, before or after its transaction is committed: the message,
\* acknowledged late, is delivered again.
Crash(t, committed) ==
    /\ task[t].pc # "idle"
    /\ committed => task[t].pc = "write"
    /\ UseFault(IF committed THEN history ELSE Undo(t))
    /\ queue' = Push(queue, task[t].message)
    /\ row' = IF committed THEN [row EXCEPT ![task[t].message.to] = task[t].row] ELSE row
    /\ task' = [task EXCEPT ![t] = Idle]
    /\ UNCHANGED <<config, enabled, reported, sender>>

\* The transaction fails: the task ends with an error and is not repeated.
Fail(t) ==
    /\ task[t].pc # "idle"
    /\ UseFault([Undo(t) EXCEPT !.stranded = @ \cup {task[t].message.to}])
    /\ task' = [task EXCEPT ![t] = Idle]
    /\ UNCHANGED <<config, enabled, reported, row, sender, queue>>

\* _queue_retry could not reach the broker, or the broker lost the message.
Lose(m) ==
    /\ queue[m] > 0
    /\ UseFault([history EXCEPT !.stranded = @ \cup {m.to}])
    /\ queue' = Pop(queue, m)
    /\ UNCHANGED <<config, enabled, reported, row, sender, task>>

\* set_channel_enabled.
Toggle(p) ==
    /\ config = Plain /\ history.toggles < MaxToggles
    /\ history' = [history EXCEPT !.toggles = @ + 1]
    /\ enabled' = IF p \in enabled THEN enabled \ {p} ELSE enabled \cup {p}
    /\ UNCHANGED <<config, reported, row, sender, queue, task>>

-----------------------------------------------------------------------------
Init ==
    /\ config \in Configs
    /\ enabled \in SUBSET Policies
    /\ reported = 0
    /\ row = NoRows
    /\ sender = [n \in Senders |-> IF n = 1 \/ config = Plain THEN Ready ELSE [Ready EXCEPT !.pc = "done"]]
    /\ queue = [m \in Messages |-> 0]
    /\ task = [t \in Tasks |-> Idle]
    /\ history = [tried |-> [p \in Policies |-> 0], undone |-> [p \in Policies |-> 0],
                  shared |-> [p \in Policies |-> 0], stranded |-> {}, stale |-> {},
                  faults |-> 0, toggles |-> 0]

Dispatch(n) == Begin(n) \/ Waited(n) \/ Commit(n) \/ \E ok \in Answers : RoutePolicy(n, ok)

Deliver == \/ \E m \in Messages : Miss(m) \/ \E t \in Tasks : Read(t, m)
           \/ \E t \in Tasks : Write(t) \/ \E ok \in Answers : Send(t, ok)

Environment == \/ \E n \in Senders : Rollback(n)
               \/ \E t \in Tasks : Fail(t) \/ \E committed \in BOOLEAN : Crash(t, committed)
               \/ \E m \in Messages : Lose(m)
               \/ \E p \in Policies : Toggle(p)

Next == Deliver \/ Environment \/ \E n \in Senders : Dispatch(n)

Spec == Init /\ [][Next]_vars

\* Senders and tasks keep going: device alerts and sends have timeouts.
FairSpec ==
    /\ Spec
    /\ \A n \in Senders : WF_vars(Dispatch(n))
    /\ WF_vars(Deliver)

-----------------------------------------------------------------------------
(* Properties. *)

\* The items of a policy, by the order of the policies alone.
Interests(p, i) ==
    /\ config.policy[p].events \cap {"backup_summary", EventOf(i)} # {}
    /\ i \in config.policy[p].accepts
Expected(p) ==
    {i \in Reported : /\ Interests(p, i)
                      /\ ~\E q \in Policies : q < p /\ config.policy[q].stop /\ Interests(q, i)}

\* Once reported, each delivery holds exactly the records its policy is interested
\* in that no earlier policy stopped, and only a policy nobody is left for, or whose
\* channel was off, has none (dispatch_event's running selection).
\* When all callers are through, what somebody was to be told was reported, unless
\* the transaction failed: the decision to report never hides a route.
RoutesAreExact ==
    /\ reported # 0 =>
          \A p \in Policies :
              IF row[p] = Absent THEN Expected(p) = {} \/ p \notin sender[reported].on
              ELSE Expected(p) # {} /\ row[p].items = Expected(p)
    /\ (\A n \in Senders : sender[n].pc = "done") /\ reported = 0 =>
          (\A p \in Policies : Expected(p) = {}) \/ history.faults > 0

\* A message is sent at most MaxAttempts times, and once more for every attempt
\* whose transaction was undone and every task that took the delivery while another
\* had it, however stale the copy it counts from (deliver_notification).
AttemptsAreBounded ==
    \A p \in Policies :
        history.tried[p] <= MaxAttempts + history.undone[p] + history.shared[p]

\* A delivery that was sent stays so and is not sent again, crashes, repeated
\* messages and tasks that have it at once included, unless a task goes on from a
\* copy read before (retry_delivery checks its copy only).
SentStaysSent ==
    [][\A p \in Policies :
          row[p].status = "sent" /\ p \notin history'.stale =>
              row'[p] = row[p] /\ history'.tried[p] = history.tried[p]]_vars

\* A delivery that waits for its retry has a message or a task, unless the message
\* was lost or gave up, or a task wrote from a stale copy (_queue_retry's countdown).
RetryIsQueued ==
    \A p \in Policies :
        row[p].status = "retrying" =>
            \/ \E m \in Messages : queue[m] > 0 /\ m.to = p /\ m.of = reported
            \/ InHand(p)
            \/ p \in history.stranded \cup history.stale

\* Every delivery is sent or fails for good in the end, with the same exceptions.
DeliveriesSettle ==
    <>[](\A p \in Policies : row[p].status # "retrying" \/ p \in history.stranded \cup history.stale)
=============================================================================

---------------------------- MODULE TaskEventLog ----------------------------
(***************************************************************************)
(* The task event log of one process (task_observability_service) and the  *)
(* event bus that carries what it stores (task_event_bus_service): events  *)
(* are appended to a buffer under a lock, threads take the buffer as a     *)
(* batch, store it in one transaction, and publish the rows after the      *)
(* commit.  A batch that could not be stored goes back to the front of the *)
(* buffer; the buffer drops its oldest events at its limit.                *)
(***************************************************************************)
EXTENDS Integers, Sequences, FiniteSets

CONSTANTS
    MaxEvents,    \* bound: events logged, numbered in the order they are logged
    Immediate,    \* those of _TASK_EVENT_IMMEDIATE_PERSIST_EVENTS
    Threads,      \* threads of the process
    BufferSize,   \* _TASK_EVENT_BUFFER_MAX_SIZE
    BatchSize,    \* _TASK_EVENT_BUFFER_BATCH_SIZE
    MaxFaults     \* bound: database, Redis and process faults in a behaviour

ASSUME LogAssumption ==
    /\ MaxEvents \in Nat /\ Immediate \subseteq 1..MaxEvents
    /\ BatchSize \in Nat \ {0} /\ BufferSize \in Nat /\ BatchSize <= BufferSize
    /\ MaxFaults \in Nat

VARIABLES
    logged,       \* how many events were logged so far
    buffer,       \* _TASK_EVENT_BUFFER
    thread,       \* what each thread has in hand inside _persist_task_events
    rows,         \* the task_events table; a row's id is its index
    bus,          \* ids published and received, but not handled yet
    listening,    \* the hub's pump is subscribed to the channel
    faults,       \* faults used so far (bound)
    dropped,      \* events given up, and ids nobody will hear of (history)
    doubled,      \* events stored by a commit that reported an error (history)
    raced         \* two threads held batches at once (history)

vars == <<logged, buffer, thread, rows, bus, listening, faults, dropped, doubled, raced>>

Free    == [pc |-> "idle", batch |-> <<>>, requeue |-> FALSE, ids |-> <<>>, next |-> <<>>]
Holding(batch, requeue, next) ==
    [pc |-> "insert", batch |-> batch, requeue |-> requeue, ids |-> <<>>, next |-> next]
RowIds  == DOMAIN rows
Stored  == {i \in RowIds : rows[i].state = "committed"}
Elements(s) == {s[i] : i \in DOMAIN s}


\* A thread takes the buffer while another has a batch, and both may put theirs back.
NoteRace(t) ==
    raced' = (raced \/ /\ thread'[t].requeue
                       /\ \E u \in Threads \ {t} : thread[u].requeue)

UseFault == faults < MaxFaults /\ faults' = faults + 1

\* The newest events that fit, and the ones that do not.
Excess(s)  == IF Len(s) > BufferSize THEN Len(s) - BufferSize ELSE 0
Newest(s)  == SubSeq(s, Excess(s) + 1, Len(s))
Oldest(s)  == Elements(SubSeq(s, 1, Excess(s)))

-----------------------------------------------------------------------------
(* Logging. *)

\* _buffer_task_event, one lock section; due: the flush interval has elapsed.
Buffer(t, e, due) ==
    LET kept == Newest(Append(buffer, e))
    IN  /\ dropped' = [dropped EXCEPT !.events = @ \cup Oldest(Append(buffer, e))]
        /\ IF Len(kept) >= BatchSize \/ due
           THEN /\ buffer' = <<>>
                /\ thread' = [thread EXCEPT ![t] = Holding(kept, TRUE, <<>>)]
           ELSE buffer' = kept /\ UNCHANGED thread

\* Forced flush: the thread takes the buffer; next is what it stores afterwards.
TakeBuffer(t, requeue, next) ==
    /\ buffer' = <<>>
    /\ thread' = [thread EXCEPT ![t] = IF buffer = <<>> THEN Holding(next, FALSE, <<>>)
                                       ELSE Holding(buffer, requeue, next)]

\* log_task_event: buffered, or stored at once after what is waiting.
LogEvent(t) ==
    /\ thread[t].pc = "idle" /\ logged < MaxEvents
    /\ logged' = logged + 1
    /\ IF logged + 1 \in Immediate
       THEN TakeBuffer(t, TRUE, <<logged + 1>>) /\ UNCHANGED dropped
       ELSE \E due \in BOOLEAN : Buffer(t, logged + 1, due)
    /\ NoteRace(t)
    /\ UNCHANGED <<rows, bus, listening, faults, doubled>>

\* flush_task_event_buffer(force=True), as every task does at its end.
Flush(t) ==
    /\ thread[t].pc = "idle" /\ buffer # <<>>
    /\ TakeBuffer(t, TRUE, <<>>)
    /\ NoteRace(t)
    /\ UNCHANGED <<logged, rows, bus, listening, faults, dropped, doubled>>

\* atexit: the last thread flushes and nothing is put back; another process
\* takes this one's place.
Exit(t) ==
    /\ \A u \in Threads : thread[u].pc = "idle"
    /\ buffer # <<>>
    /\ TakeBuffer(t, FALSE, <<>>)
    /\ UNCHANGED <<logged, rows, bus, listening, faults, dropped, doubled, raced>>

-----------------------------------------------------------------------------
(* _persist_task_events. *)

\* session.add and session.flush of every event: ids are given, in order.
Insert(t) ==
    /\ thread[t].pc = "insert"
    /\ rows' = rows \o [i \in DOMAIN thread[t].batch |->
                          [event |-> thread[t].batch[i], state |-> "open"]]
    /\ thread' = [thread EXCEPT ![t].pc = "commit",
                                ![t].ids = [i \in DOMAIN thread[t].batch |-> Len(rows) + i]]
    /\ UNCHANGED <<logged, buffer, bus, listening, faults, dropped, doubled, raced>>

SetRows(ids, state) ==
    rows' = [i \in RowIds |-> IF i \in Elements(ids) THEN [rows[i] EXCEPT !.state = state]
                              ELSE rows[i]]

\* Mutant: an immediate event ends with the flush before it.
Stop(t) == Free

\* What the thread does when it is through with its batch.
Proceed(t) == IF thread[t].next = <<>> THEN Free ELSE Holding(thread[t].next, FALSE, <<>>)

\* Mutant: the events are published as soon as they have ids.
InsertAndPublish(t) ==
    /\ thread[t].pc = "commit"
    /\ thread' = [thread EXCEPT ![t].pc = "publish"]
    /\ UNCHANGED <<logged, buffer, rows, bus, listening, faults, dropped, doubled, raced>>

Commit(t) ==
    /\ thread[t].pc = "commit"
    /\ SetRows(thread[t].ids, "committed")
    /\ thread' = [thread EXCEPT ![t].pc = "publish"]
    /\ UNCHANGED <<logged, buffer, bus, listening, faults, dropped, doubled, raced>>

\* Mutant: a failed batch is put back behind what was logged since.
PutBehind(t) == buffer \o thread[t].batch

\* _requeue_task_events.
PutBack(t) == thread[t].batch \o buffer

\* SQLAlchemyError: the batch is put back, or given up; silent are the rows that
\* are visible all the same.
NotStored(t, silent) ==
    LET requeue == thread[t].requeue
        lost    == IF requeue THEN Oldest(PutBack(t)) ELSE Elements(thread[t].batch)
    IN  /\ buffer' = IF requeue THEN Newest(PutBack(t)) ELSE buffer
        /\ dropped' = [events  |-> dropped.events \cup lost,
                       unheard |-> dropped.unheard \cup silent]
        /\ thread' = [thread EXCEPT ![t] = Proceed(t)]

StoreFails(t) ==
    /\ thread[t].pc \in {"insert", "commit"}
    /\ UseFault
    /\ SetRows(thread[t].ids, "void")
    /\ NotStored(t, {})
    /\ UNCHANGED <<logged, bus, listening, doubled, raced>>

\* The commit succeeds and its answer is lost.
CommitAmbiguous(t) ==
    /\ thread[t].pc = "commit"
    /\ UseFault
    /\ SetRows(thread[t].ids, "committed")
    /\ NotStored(t, Elements(thread[t].ids))
    /\ doubled' = doubled \cup Elements(thread[t].batch)
    /\ UNCHANGED <<logged, bus, listening, raced>>

\* publish_task_events, one message at a time; without a listener, or with the
\* event bus disabled, nobody hears it.
Publish(t) ==
    /\ thread[t].pc = "publish"
    /\ thread' = [thread EXCEPT ![t] = IF Len(thread[t].ids) = 1 THEN Proceed(t)
                                       ELSE [thread[t] EXCEPT !.ids = Tail(@)]]
    /\ IF listening THEN bus' = Append(bus, Head(thread[t].ids)) /\ UNCHANGED dropped
       ELSE /\ dropped' = [dropped EXCEPT !.unheard = @ \cup {Head(thread[t].ids)}]
            /\ UNCHANGED bus
    /\ UNCHANGED <<logged, buffer, rows, listening, faults, doubled, raced>>

\* A Redis error: the rest of the batch is not published.
PublishFails(t) ==
    /\ thread[t].pc = "publish"
    /\ UseFault
    /\ dropped' = [dropped EXCEPT !.unheard = @ \cup Elements(thread[t].ids)]
    /\ thread' = [thread EXCEPT ![t] = Proceed(t)]
    /\ UNCHANGED <<logged, buffer, rows, bus, listening, doubled, raced>>

\* The process dies: its buffer and its open transactions are gone.
Crash ==
    /\ UseFault
    /\ \E t \in Threads : thread[t].pc # "idle" \/ buffer # <<>>
    /\ LET open == {t \in Threads : thread[t].pc \in {"insert", "commit"}}
           inHand == (UNION {Elements(thread[t].next) : t \in Threads})
                     \cup (UNION {Elements(thread[t].batch) : t \in open})
       IN  dropped' = [events  |-> dropped.events \cup Elements(buffer) \cup inHand,
                       unheard |-> dropped.unheard
                                   \cup UNION {Elements(thread[t].ids) : t \in Threads \ open}]
    /\ rows' = [i \in RowIds |-> IF rows[i].state = "open" THEN [rows[i] EXCEPT !.state = "void"]
                                 ELSE rows[i]]
    /\ buffer' = <<>>
    /\ thread' = [t \in Threads |-> Free]
    /\ UNCHANGED <<logged, bus, listening, doubled, raced>>

-----------------------------------------------------------------------------
(* pump_task_events: the connection breaks, and is made again 2 s later.     *)
StopListening ==
    /\ listening /\ UseFault
    /\ listening' = FALSE
    /\ bus' = <<>>
    /\ dropped' = [dropped EXCEPT !.unheard = @ \cup Elements(bus)]
    /\ UNCHANGED <<logged, buffer, thread, rows, doubled, raced>>

\* The hub's handler takes the next message.
Hear ==
    /\ bus # <<>> /\ bus' = Tail(bus)
    /\ UNCHANGED <<logged, buffer, thread, rows, listening, faults, dropped, doubled, raced>>

Listen ==
    /\ ~listening
    /\ listening' = TRUE
    /\ UNCHANGED <<logged, buffer, thread, rows, bus, faults, dropped, doubled, raced>>

-----------------------------------------------------------------------------
Init ==
    /\ logged = 0
    /\ buffer = <<>>
    /\ thread = [t \in Threads |-> Free]
    /\ rows = <<>>
    /\ bus = <<>>
    /\ listening \in BOOLEAN
    /\ faults = 0
    /\ dropped = [events |-> {}, unheard |-> {}]
    /\ doubled = {}
    /\ raced = FALSE

Next ==
    \/ \E t \in Threads :
          \/ LogEvent(t) \/ Flush(t) \/ Exit(t)
          \/ Insert(t) \/ Commit(t) \/ Publish(t)
          \/ StoreFails(t) \/ CommitAmbiguous(t) \/ PublishFails(t)
    \/ Crash \/ Hear \/ StopListening \/ Listen

Spec == Init /\ [][Next]_vars

-----------------------------------------------------------------------------
(* Properties. *)

TypeOK ==
    /\ logged \in 0..MaxEvents
    /\ buffer \in Seq(1..MaxEvents) /\ Len(buffer) <= BufferSize
    /\ thread \in [Threads -> [pc : {"idle", "insert", "commit", "publish"},
                               batch : Seq(1..MaxEvents), requeue : BOOLEAN,
                               ids : Seq(Nat), next : Seq(1..MaxEvents)]]
    /\ rows \in Seq([event : 1..MaxEvents, state : {"open", "committed", "void"}])
    /\ bus \in Seq(Nat) /\ listening \in BOOLEAN /\ faults \in 0..MaxFaults
    /\ dropped \in [events : SUBSET (1..MaxEvents), unheard : SUBSET Nat]
    /\ doubled \subseteq 1..MaxEvents /\ raced \in BOOLEAN

InHand(t) == Elements(thread[t].next)
             \cup (IF thread[t].pc \in {"insert", "commit"} THEN Elements(thread[t].batch) ELSE {})

\* A logged event is waiting, in a thread's hands, stored, or was given up where
\* the code gives up: nothing falls between the lock, the transactions and the
\* requeueing (log_task_event, _persist_task_events, _requeue_task_events).  And it
\* is stored twice only when a commit succeeded and reported an error.
NoEventVanishes ==
    /\ 1..logged \subseteq Elements(buffer) \cup (UNION {InHand(t) : t \in Threads})
                          \cup {rows[i].event : i \in Stored} \cup dropped.events
    /\ \A i, j \in Stored : rows[i].event = rows[j].event => i = j \/ rows[i].event \in doubled

\* Unless two threads held batches at once, what waits is in the order it was
\* logged, so that the events dropped at the limit are the oldest ones.
BufferInOrder ==
    raced \/ \A i, j \in DOMAIN buffer : i < j => buffer[i] < buffer[j]

\* Refinement: the readers of the table and of the bus see an EventStore.  In
\* particular what is published is committed, and is announced once.
Store == INSTANCE EventStore WITH
    rows        <- [i \in RowIds |-> rows[i].state],
    unannounced <- UNION {Elements(thread[t].ids) : t \in {u \in Threads : thread[u].pc = "publish"}},
    unheard     <- dropped.unheard

IsEventStore == Store!Spec
=============================================================================

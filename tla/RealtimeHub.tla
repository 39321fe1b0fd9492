----------------------------- MODULE RealtimeHub -----------------------------
(***************************************************************************)
(* The realtime hub of a web process (task_realtime_service) and the pages *)
(* connected to it.  A page watches the snapshots of a run, which all its  *)
(* viewers share as one scope, or the log of a task.  With the event bus   *)
(* the hub reacts to what it hears; without it, it polls.  The table and   *)
(* the bus are those of EventStore; the state a snapshot shows is changed  *)
(* before the event that reports it is stored, so it is represented by the *)
(* number of stored events.                                                *)
(*                                                                         *)
(* The hub is one asyncio loop: between two awaits that yield, a handler   *)
(* is one action.  Loads run in a thread pool; their result is kept until  *)
(* the handler continues.                                                  *)
(***************************************************************************)
EXTENDS EventStore, FiniteSetsExt

CONSTANTS
    Pages,            \* the connections
    InitialLimit,     \* rows of a log's first load
    UpdateLimit,      \* rows of a log's load after a cursor
    MaxRows,          \* bound: rows of the table
    MaxConnects       \* bound: how often the pages connect, together

ASSUME HubAssumption ==
    /\ IsFiniteSet(Pages)
    /\ InitialLimit \in Nat \ {0} /\ UpdateLimit \in Nat \ {0}
    /\ MaxRows \in Nat /\ MaxConnects \in Nat

None == -1       \* no snapshot

VARIABLES
    mode,      \* event_bus_enabled(): "bus" or "watch"
    kind,      \* what the pages of this behaviour watch: "snapshot" or "log"
    conn,      \* each page's subscription and the load it waits for
    page,      \* what each page shows: its snapshot, or its log items and cursor
    last,      \* _last_payloads of the scope
    teller,    \* the handler that refreshes the scope: the pump's, or _watch_scope
    tail,      \* _watch_logs of each page
    history    \* pages left behind, log ids passed over, connections used

hubVars == <<mode, kind, conn, page, last, teller, tail, history>>
vars    == <<store, hubVars>>

NoLoad   == [items |-> {}, next |-> 0, reset |-> FALSE]
Gone     == [on |-> FALSE, pc |-> "idle", starts |-> FALSE, after |-> 0, load |-> NoLoad, snapshot |-> None]
Quiet    == [pc |-> "off", load |-> None, to |-> {}]
Stopped  == [pc |-> "off", after |-> 0, load |-> NoLoad]
Blank    == [snapshot |-> None, items |-> {}, cursor |-> 0]

Snapshot == Cardinality(Visible)     \* _load_subscription_snapshot
hubButTeller == <<mode, kind, conn, page, last, tail, history>>

Scope    == {p \in Pages : conn[p].on}   \* _scope_connections

-----------------------------------------------------------------------------
(* Snapshots. *)

\* Without the bus, the subscriber starts the scope's watcher if there is none.
NeedsWatcher == mode = "watch" /\ teller.pc = "off"

\* Mutant: only the first page of a scope starts its watcher.
JoinFirst(p) == conn' = [conn EXCEPT ![p] = [Gone EXCEPT !.on = TRUE, !.pc = "loading",
                                             !.starts = NeedsWatcher /\ Scope = {}]]

\* subscribe under the lock: join the scope, and load its snapshot.
Join(p) == conn' = [conn EXCEPT ![p] = [Gone EXCEPT !.on = TRUE, !.pc = "loading",
                                        !.starts = NeedsWatcher]]

Subscribe(p) ==
    /\ kind = "snapshot" /\ conn[p] = Gone /\ history.connects < MaxConnects
    /\ Join(p)
    /\ history' = [history EXCEPT !.connects = @ + 1]
    /\ UNCHANGED <<store, mode, kind, page, last, teller, tail>>

LoadSnapshot(p) ==
    /\ kind = "snapshot" /\ conn[p].pc = "loading"
    /\ conn' = [conn EXCEPT ![p].pc = "loaded", ![p].snapshot = Snapshot]
    /\ UNCHANGED <<store, mode, kind, page, last, teller, tail, history>>

\* _cache_scope_snapshot, also when the page has left meanwhile, and the watcher's
\* start if there is still none.
CacheSnapshot(p) ==
    /\ kind = "snapshot" /\ conn[p].pc = "loaded"
    /\ last' = conn[p].snapshot
    /\ conn' = [conn EXCEPT ![p] = IF conn[p].on THEN [@ EXCEPT !.pc = "cached"] ELSE Gone]
    /\ teller' = IF conn[p].starts /\ teller.pc = "off" THEN [Quiet EXCEPT !.pc = "waiting"]
                 ELSE teller
    /\ UNCHANGED <<store, mode, kind, page, tail, history>>

\* A page is left behind when it is sent an older snapshot than the one it shows.
Overtaken(p, snapshot) == IF snapshot < page[p].snapshot THEN {p} ELSE {}

\* The page's own snapshot, after the "task_subscribed" message.
SendSnapshot(p) ==
    /\ kind = "snapshot" /\ conn[p].pc = "cached"
    /\ IF conn[p].on
       THEN /\ page' = [page EXCEPT ![p].snapshot = conn[p].snapshot]
            /\ history' = [history EXCEPT !.behind = @ \cup Overtaken(p, conn[p].snapshot)]
            /\ conn' = [conn EXCEPT ![p] = [Gone EXCEPT !.on = TRUE]]
       ELSE conn' = [conn EXCEPT ![p] = Gone] /\ UNCHANGED <<page, history>>
    /\ UNCHANGED <<store, mode, kind, last, teller, tail>>

\* handle_event_bus_payload: a message starts a refresh of the scope, if somebody
\* watches it; the next message waits until the refresh is through.
StartRefresh ==
    /\ kind = "snapshot" /\ teller.pc = "off" /\ Hear
    /\ teller' = IF Scope = {} THEN teller ELSE [Quiet EXCEPT !.pc = "loading"]
    /\ UNCHANGED hubButTeller

\* _watch_scope: the watcher ends with the scope.
StartPoll ==
    /\ teller.pc = "waiting"
    /\ IF Scope = {} THEN teller' = Quiet /\ last' = None
       ELSE teller' = [teller EXCEPT !.pc = "loading"] /\ UNCHANGED last
    /\ UNCHANGED <<store, mode, kind, conn, page, tail, history>>

TellerLoads ==
    /\ teller.pc = "loading"
    /\ teller' = [teller EXCEPT !.pc = "loaded", !.load = Snapshot]
    /\ UNCHANGED <<store, hubButTeller>>

Rest == IF mode = "bus" THEN Quiet ELSE [pc |-> "waiting", load |-> teller.load, to |-> {}]

\* Mutant: a snapshot loaded when none is cached is only cached.
CompareFirst ==
    IF last = None \/ teller.load = last
    THEN /\ teller' = Rest
         /\ history' = [history EXCEPT
                          !.behind = @ \cup {p \in Scope : last # None /\ page[p].snapshot # teller.load}]
         /\ last' = teller.load
    ELSE /\ teller' = IF Scope = {} THEN Rest ELSE [teller EXCEPT !.pc = "telling", !.to = Scope]
         /\ last' = teller.load
         /\ UNCHANGED history

\* A snapshot equal to the cached one is sent to nobody: who still shows another
\* one is left behind.
Compare ==
    IF teller.load = last
    THEN /\ teller' = Rest
         /\ history' = [history EXCEPT
                          !.behind = @ \cup {p \in Scope : page[p].snapshot # teller.load}]
         /\ UNCHANGED last
    ELSE /\ teller' = IF Scope = {} THEN Rest ELSE [teller EXCEPT !.pc = "telling", !.to = Scope]
         /\ last' = teller.load
         /\ UNCHANGED history

TellerCompares ==
    /\ teller.pc = "loaded"
    /\ Compare
    /\ UNCHANGED <<store, mode, kind, conn, page, tail>>

\* _broadcast: one connection after the other.
Tell(p) ==
    /\ teller.pc = "telling" /\ p \in teller.to
    /\ teller' = IF teller.to = {p} THEN Rest ELSE [teller EXCEPT !.to = @ \ {p}]
    /\ IF conn[p].on
       THEN /\ page' = [page EXCEPT ![p].snapshot = teller.load]
            /\ history' = [history EXCEPT !.behind = (@ \ {p}) \cup Overtaken(p, teller.load)]
       ELSE UNCHANGED <<page, history>>
    /\ UNCHANGED <<store, mode, kind, conn, last, tail>>

\* The snapshot cannot be loaded: the scope is told of an error instead.
TellerFails ==
    /\ teller.pc = "loading"
    /\ teller' = IF mode = "bus" THEN Quiet ELSE [teller EXCEPT !.pc = "waiting"]
    /\ history' = [history EXCEPT !.behind = @ \cup {p \in Scope : page[p].snapshot # Snapshot}]
    /\ UNCHANGED <<store, mode, kind, conn, page, last, tail>>

-----------------------------------------------------------------------------
(* Logs. *)

Lowest(S, n)  == {i \in S : Cardinality({j \in S : j < i}) < n}
Highest(S, n) == {i \in S : Cardinality({j \in S : j > i}) < n}

\* _load_log_payload: the newest rows, or the next ones after the cursor.  A
\* page sends its cursor only when it is positive, so 0 is "no after_id".
LoadAfter(after) ==
    LET items == IF after > 0 THEN Lowest({i \in Visible : i > after}, UpdateLimit)
                 ELSE Highest(Visible, InitialLimit)
    IN  [items |-> items, next |-> IF items = {} THEN after ELSE Max(items), reset |-> after = 0]

\* What a load passes over for good: what its cursor had passed already, rows of
\* transactions still open below the new cursor, and what a first load omits.
PassedOver(p, after, load) ==
    {i \in RowIds \ (load.items \cup page[p].items) :
        \/ i <= after
        \/ i <= load.next /\ (rows[i] = "open" \/ after = 0)}
BeyondLimit(p, load) == Visible \ (load.items \cup page[p].items)

\* applyTaskLogs: known ids are skipped, a reset empties the list first, and the
\* cursor follows the message (next_after_id 0 leaves it).
Shown(p, load) ==
    [page[p] EXCEPT !.items  = (IF load.reset THEN {} ELSE @) \cup load.items,
                    !.cursor = IF load.next > 0 THEN load.next ELSE @]

ShowLog(p, load) ==
    /\ page' = [page EXCEPT ![p] = Shown(p, load)]
    /\ history' = [history EXCEPT !.passed[p] = @ \cup (page[p].items \ Shown(p, load).items)]

\* Mutant: the subscription is attached once its first load is there.
AttachLate(p) ==
    conn' = [conn EXCEPT ![p] = [Gone EXCEPT !.pc = "loading", !.after = page[p].cursor]]

\* subscribe_logs under the lock.
Attach(p) ==
    conn' = [conn EXCEPT ![p] = [Gone EXCEPT !.on = TRUE, !.pc = "loading",
                                             !.after = page[p].cursor]]

SubscribeLogs(p) ==
    /\ kind = "log" /\ conn[p] = Gone /\ history.connects < MaxConnects
    /\ Attach(p)
    /\ tail' = [tail EXCEPT ![p] = IF mode = "watch"
                                   THEN [Stopped EXCEPT !.pc = "waiting", !.after = page[p].cursor]
                                   ELSE Stopped]
    /\ history' = [history EXCEPT !.connects = @ + 1]
    /\ UNCHANGED <<store, mode, kind, page, last, teller>>

LoadLogs(p) ==
    /\ kind = "log" /\ conn[p].pc = "loading"
    /\ LET load == LoadAfter(conn[p].after)
       IN  /\ conn' = [conn EXCEPT ![p].pc = "loaded", ![p].load = load]
           /\ history' = [history EXCEPT !.passed[p] = @ \cup PassedOver(p, conn[p].after, load)
                                                      \cup BeyondLimit(p, load)]
    /\ UNCHANGED <<store, mode, kind, page, last, teller, tail>>

SendLogs(p) ==
    /\ kind = "log" /\ conn[p].pc = "loaded"
    /\ ShowLog(p, conn[p].load)
    /\ conn' = [conn EXCEPT ![p] = [Gone EXCEPT !.on = TRUE]]
    /\ UNCHANGED <<store, mode, kind, last, teller, tail>>

\* _broadcast_log_event.
ForwardEvent ==
    /\ kind = "log" /\ Hear
    /\ LET event == [items |-> {Head(bus)}, next |-> Head(bus), reset |-> FALSE]
       IN  page' = [p \in Pages |-> IF conn[p].on THEN Shown(p, event) ELSE page[p]]
    /\ UNCHANGED <<mode, kind, conn, last, teller, tail, history>>

\* _watch_logs: a load after its own cursor; an empty one is not sent.
WatchLogs(p) ==
    /\ tail[p].pc = "waiting"
    /\ LET load == LoadAfter(tail[p].after)
       IN  /\ tail' = [tail EXCEPT ![p].pc = "loaded", ![p].load = load]
           /\ history' = [history EXCEPT !.passed[p] = @ \cup PassedOver(p, tail[p].after, load)]
    /\ UNCHANGED <<store, mode, kind, conn, page, last, teller>>

SendTail(p) ==
    /\ tail[p].pc = "loaded"
    /\ IF tail[p].load.items = {} THEN UNCHANGED <<page, history>>
       ELSE ShowLog(p, [tail[p].load EXCEPT !.reset = FALSE])
    /\ tail' = [tail EXCEPT ![p] = [Stopped EXCEPT !.pc = "waiting", !.after = tail[p].load.next]]
    /\ UNCHANGED <<store, mode, kind, conn, last, teller>>

-----------------------------------------------------------------------------
\* The socket closes: unregister detaches the page.  The handler of a subscribe
\* still waiting for its snapshot goes on, unless it is its load that failed and
\* closed the socket; a log load is sent to nobody.
Disconnect(p) ==
    /\ conn[p].on
    /\ \/ /\ conn[p].pc = "idle" \/ conn[p].pc = "loading" \/ kind = "log"
          /\ conn' = [conn EXCEPT ![p] = Gone]
       \/ /\ conn[p].pc # "idle" /\ kind = "snapshot"
          /\ conn' = [conn EXCEPT ![p].on = FALSE]
    /\ last' = IF Scope = {p} THEN None ELSE last
    /\ page' = [page EXCEPT ![p].snapshot = None]
    /\ tail' = [tail EXCEPT ![p] = Stopped]
    /\ history' = [history EXCEPT !.behind = @ \ {p}]
    /\ UNCHANGED <<store, mode, kind, teller>>

HubInit ==
    /\ Init
    /\ mode \in {"bus", "watch"} /\ kind \in {"snapshot", "log"}
    /\ listening = (mode = "bus")
    /\ conn = [p \in Pages |-> Gone]
    /\ page = [p \in Pages |-> Blank]
    /\ last = None
    /\ teller = Quiet
    /\ tail = [p \in Pages |-> Stopped]
    /\ history = [behind |-> {}, passed |-> [p \in Pages |-> {}], connects |-> 0]

\* The store's steps; without the event bus nothing is announced.
StoreStep ==
    /\ \/ Len(rows) < MaxRows /\ Open(1)
       \/ \E i \in RowIds : \/ Commit({i}) /\ (mode = "watch" => i \in unheard')
                            \/ rows[i] = "open" /\ Abandon({i}, {})
                            \/ i \in unannounced /\ Abandon({}, {i})
                            \/ Announce(i)
       \/ mode = "bus" /\ listening /\ LoseBus
       \/ mode = "bus" /\ ~listening /\ Rejoin
    /\ UNCHANGED hubVars

SnapshotStep ==
    \/ \E p \in Pages : Subscribe(p) \/ LoadSnapshot(p) \/ CacheSnapshot(p) \/ SendSnapshot(p) \/ Tell(p)
    \/ StartRefresh \/ StartPoll \/ TellerLoads \/ TellerCompares \/ TellerFails

LogStep ==
    \/ \E p \in Pages : \/ SubscribeLogs(p) \/ LoadLogs(p) \/ SendLogs(p)
                        \/ WatchLogs(p) \/ SendTail(p)
    \/ ForwardEvent

HubNext == StoreStep \/ SnapshotStep \/ LogStep \/ \E p \in Pages : Disconnect(p)

HubSpec == HubInit /\ [][HubNext]_vars

-----------------------------------------------------------------------------
(* Properties. *)

\* The bus has nothing more to say.
Settled == unannounced = {} /\ bus = <<>> /\ unheard = {}

\* With the event bus, when everything announced is handled and nothing was lost,
\* every page shows the current snapshot, unless its own late snapshot overtook a
\* newer one or somebody else's snapshot made the refresh look unchanged: joining
\* the scope before loading leaves no gap (subscribe, handle_event_bus_payload).
\* Without the bus, what the watcher last compared is what every page shows, with
\* the same exceptions (_watch_scope).
PagesAreCurrent ==
    \A p \in Scope : conn[p].pc = "idle" /\ p \notin history.behind =>
        /\ mode = "bus" /\ Settled /\ teller.pc = "off" => kind = "log" \/ page[p].snapshot = Snapshot
        /\ mode = "watch" /\ teller.pc = "waiting" /\ teller.load # None => page[p].snapshot >= teller.load

\* A scope somebody is subscribed to without the bus has its watcher, or all its
\* pages are about to start it: none of them may rely on another that fails
\* (subscribe, _watch_scope's end).
ScopeIsWatched ==
    mode = "watch" /\ kind = "snapshot" /\ teller.pc = "off" =>
        \A p \in Scope : conn[p].starts /\ conn[p].pc \in {"loading", "loaded"}

\* With the event bus and no load under way, every stored event that was heard is
\* in the log, unless a late first load erased it or the cursor had passed it:
\* attaching before loading leaves no gap (subscribe_logs, _broadcast_log_event).
\* Without the bus, the log shows everything up to the watcher's cursor, with the
\* same exceptions (_watch_logs).
LogIsComplete ==
    \A p \in Pages : conn[p].pc = "idle" =>
        /\ mode = "bus" /\ kind = "log" /\ conn[p].on =>
              Visible \subseteq page[p].items \cup history.passed[p] \cup unheard \cup unannounced
                                \cup Elements(bus)
        /\ tail[p].pc = "waiting" =>
              {i \in Visible : i <= tail[p].after} \subseteq page[p].items \cup history.passed[p]
=============================================================================

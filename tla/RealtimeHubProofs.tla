-------------------------- MODULE RealtimeHubProofs --------------------------
(***************************************************************************)
(* The pages of the hub.  Without the event bus, a scope somebody is       *)
(* subscribed to has a watcher, or every one of its pages is about to      *)
(* start it; with or without it, the pages of a scope show what they were  *)
(* told last, and those of a log hold every row they should: for every set *)
(* of pages, every table, every limit and every number of connections.     *)
(***************************************************************************)
EXTENDS RealtimeHub, FiniteSetTheorems, WellFoundedInduction, SequenceTheorems, TLAPS

RowStates == {"open", "committed", "void"}

Subscription == [on : BOOLEAN, pc : {"idle", "loading", "loaded", "cached"}, starts : BOOLEAN,
                 after : {0}, load : {NoLoad}, snapshot : Int]

Teller == [pc : {"off", "waiting", "loading", "loaded", "telling"}, load : Int, to : SUBSET Pages]

\* The variables a watcher's life depends on.
SnapshotTypes ==
    /\ rows \in Seq(RowStates)
    /\ conn \in [Pages -> Subscription]
    /\ teller \in Teller

\* Without the bus nothing is heard, so that only _watch_scope is a teller.
Silent == mode = "watch" => ~listening /\ bus = <<>>

WatchInv ==
    /\ mode \in {"bus", "watch"} /\ kind \in {"snapshot", "log"}
    /\ Silent
    /\ kind = "snapshot" => SnapshotTypes /\ ScopeIsWatched

-----------------------------------------------------------------------------
(* The table. *)

\* How many rows are visible is a number.
LEMMA SnapshotIsNumber ==
    ASSUME rows \in Seq(RowStates)
    PROVE  Snapshot \in Int
<1>1. RowIds = 1..Len(rows) /\ Len(rows) \in Nat
  BY DEF RowIds
<1>2. IsFiniteSet(RowIds)
  BY <1>1, FS_Interval
<1>3. IsFiniteSet(Visible)
  BY <1>2, FS_Subset DEF Visible
<1> QED
  BY <1>3, FS_CardinalityType DEF Snapshot

\* Rows that change their state are still a table.
LEMMA CloseKeepsTable ==
    ASSUME rows \in Seq(RowStates), NEW S, NEW state \in RowStates, Close(S, state)
    PROVE  rows' \in Seq(RowStates)
<1>1. RowIds = 1..Len(rows) /\ Len(rows) \in Nat
  BY DEF RowIds
<1>2. \A i \in 1..Len(rows) : rows[i] \in RowStates
  BY DEF RowStates
<1>3. rows' \in [1..Len(rows) -> RowStates]
  BY <1>1, <1>2 DEF Close
<1> QED
  BY <1>1, <1>3

LEMMA OpenKeepsTable ==
    ASSUME rows \in Seq(RowStates), NEW n \in Nat, Open(n)
    PROVE  rows' \in Seq(RowStates)
<1>1. [i \in 1..n |-> "open"] \in Seq(RowStates)
  BY DEF RowStates
<1> QED
  BY <1>1 DEF Open

LEMMA StoreStepKeeps ==
    ASSUME WatchInv, StoreStep
    PROVE  WatchInv'
<1> USE DEF WatchInv, Silent, StoreStep, hubVars
<1>1. kind = "snapshot" => rows' \in Seq(RowStates)
  <2> SUFFICES ASSUME kind = "snapshot" PROVE rows' \in Seq(RowStates)
    OBVIOUS
  <2>1. rows \in Seq(RowStates)
    BY DEF SnapshotTypes
  <2>2. CASE Open(1)
    BY <2>1, <2>2, OpenKeepsTable
  <2>3. ASSUME NEW S, Close(S, "committed") PROVE rows' \in Seq(RowStates)
    BY <2>1, <2>3, CloseKeepsTable DEF RowStates
  <2>4. ASSUME NEW S, Close(S, "void") PROVE rows' \in Seq(RowStates)
    BY <2>1, <2>4, CloseKeepsTable DEF RowStates
  <2>5. CASE rows' = rows
    BY <2>1, <2>5
  <2> QED
    BY <2>2, <2>3, <2>4, <2>5 DEF Commit, Abandon, Announce, LoseBus, Rejoin
<1>2. Silent'
  BY DEF Open, Commit, Abandon, Announce, LoseBus, Rejoin, RowIds
<1>3. UNCHANGED <<conn, teller, mode, kind>>
  OBVIOUS
<1>4. kind = "snapshot" => (SnapshotTypes /\ ScopeIsWatched)'
  BY <1>1, <1>3 DEF SnapshotTypes, ScopeIsWatched, Scope
<1> QED
  BY <1>2, <1>3, <1>4

-----------------------------------------------------------------------------
(* The handlers. *)

LEMMA SnapshotStepKeeps ==
    ASSUME WatchInv, SnapshotStep
    PROVE  WatchInv'
<1>1. /\ UNCHANGED <<mode, kind, rows, listening>>
      /\ bus' = bus \/ Hear
  BY DEF SnapshotStep, Subscribe, LoadSnapshot, CacheSnapshot, SendSnapshot, Tell, StartRefresh,
         StartPoll, TellerLoads, TellerCompares, TellerFails, store, hubButTeller, Hear
<1>2. Silent'
  BY <1>1 DEF WatchInv, Silent, Hear
<1> SUFFICES ASSUME kind = "snapshot"
             PROVE  (SnapshotTypes /\ ScopeIsWatched)'
  BY <1>1, <1>2 DEF WatchInv
<1>3. SnapshotTypes /\ ScopeIsWatched /\ Silent
  BY DEF WatchInv
<1>4. rows' \in Seq(RowStates)
  BY <1>1, <1>3 DEF SnapshotTypes
<1>5. Snapshot \in Int
  BY <1>3, SnapshotIsNumber DEF SnapshotTypes
<1>6. Gone \in Subscription /\ Quiet \in Teller /\ [Quiet EXCEPT !.pc = "waiting"] \in Teller
      /\ [Quiet EXCEPT !.pc = "loading"] \in Teller /\ None \in Int
  BY DEF Gone, Quiet, Subscription, Teller, None
<1>7. Rest \in Teller /\ (mode = "watch" => Rest.pc = "waiting")
  BY <1>3, <1>6 DEF Rest, SnapshotTypes, Teller
<1> USE <1>3, <1>4, <1>5, <1>6, <1>7 DEF SnapshotTypes, ScopeIsWatched, Scope
\* Who keeps the teller running, or leaves a page that starts it, keeps the scope watched.
<1>8. ASSUME NEW p \in Pages, Subscribe(p) PROVE (SnapshotTypes /\ ScopeIsWatched)'
  BY <1>8 DEF Subscribe, Join, NeedsWatcher, Gone, Subscription
<1>9. ASSUME NEW p \in Pages, LoadSnapshot(p) PROVE (SnapshotTypes /\ ScopeIsWatched)'
  BY <1>9 DEF LoadSnapshot, Subscription
<1>10. ASSUME NEW p \in Pages, CacheSnapshot(p) PROVE (SnapshotTypes /\ ScopeIsWatched)'
  BY <1>10, <1>1 DEF CacheSnapshot, Subscription, Gone, Quiet
<1>11. ASSUME NEW p \in Pages, SendSnapshot(p) PROVE (SnapshotTypes /\ ScopeIsWatched)'
  <2> DEFINE on == [Gone EXCEPT !.on = TRUE]
  <2>1. on \in Subscription /\ Gone.on = FALSE
    BY DEF Subscription, Gone
  <2>2. \/ conn' = [conn EXCEPT ![p] = on] /\ conn[p].on
       \/ conn' = [conn EXCEPT ![p] = Gone]
    BY <1>11 DEF SendSnapshot
  <2>3. conn' \in [Pages -> Subscription]
    BY <2>1, <2>2
  <2>4. teller' = teller /\ mode' = mode /\ kind' = kind /\ conn[p].pc = "cached"
    BY <1>11 DEF SendSnapshot
  <2>5. ScopeIsWatched'
    BY <2>1, <2>2, <2>4
  <2> QED
    BY <2>3, <2>4, <2>5
<1>12. ASSUME NEW p \in Pages, Tell(p) PROVE (SnapshotTypes /\ ScopeIsWatched)'
  <2>1. teller' \in Teller /\ (mode = "watch" => teller'.pc # "off")
    BY <1>12 DEF Tell, Teller
  <2> QED
    BY <2>1, <1>12 DEF Tell
<1>13. CASE StartRefresh
  BY <1>13 DEF StartRefresh, hubButTeller, Hear, Silent
<1>14. CASE StartPoll
  BY <1>14 DEF StartPoll, Teller
<1>15. CASE TellerLoads
  BY <1>15 DEF TellerLoads, hubButTeller, Teller
<1>16. CASE TellerCompares
  <2> DEFINE telling == [teller EXCEPT !.pc = "telling", !.to = Scope]
  <2>1. telling \in Teller /\ telling.pc = "telling"
    BY DEF Teller
  <2>2. teller' = Rest \/ teller' = telling
    BY <1>16 DEF TellerCompares, Compare
  <2>3. teller' \in Teller /\ (mode = "watch" => teller'.pc # "off")
    BY <2>1, <2>2
  <2> QED
    BY <2>3, <1>16 DEF TellerCompares
<1>17. CASE TellerFails
  BY <1>17, <1>1 DEF TellerFails, Teller
<1> QED
  BY <1>8, <1>9, <1>10, <1>11, <1>12, <1>13, <1>14, <1>15, <1>16, <1>17 DEF SnapshotStep

\* A step for the logs leaves the snapshots alone.
LEMMA LogStepKeeps ==
    ASSUME WatchInv, LogStep
    PROVE  WatchInv'
<1>1. UNCHANGED <<mode, kind, rows, listening, teller>> /\ (bus' = bus \/ Hear)
  BY DEF LogStep, SubscribeLogs, LoadLogs, SendLogs, WatchLogs, SendTail, ForwardEvent, store, Hear
<1>2. kind = "snapshot" => conn' = conn
  BY DEF LogStep, SubscribeLogs, LoadLogs, SendLogs, WatchLogs, SendTail, ForwardEvent
<1>3. Silent'
  BY <1>1 DEF WatchInv, Silent, Hear
<1> QED
  BY <1>1, <1>2, <1>3 DEF WatchInv, SnapshotTypes, ScopeIsWatched, Scope

LEMMA DisconnectKeeps ==
    ASSUME WatchInv, NEW p \in Pages, Disconnect(p)
    PROVE  WatchInv'
<1>1. UNCHANGED <<mode, kind, rows, listening, bus, teller>>
  BY DEF Disconnect, store
<1>2. kind = "snapshot" =>
        \/ conn' = [conn EXCEPT ![p] = Gone]
        \/ conn' = [conn EXCEPT ![p].on = FALSE]
  BY DEF Disconnect
<1>3. Gone \in Subscription /\ Gone.on = FALSE
  BY DEF Gone, Subscription, None
<1>4. ASSUME kind = "snapshot" PROVE (SnapshotTypes /\ ScopeIsWatched)'
  <2>1. SnapshotTypes /\ ScopeIsWatched
    BY <1>4 DEF WatchInv
  <2>2. [conn[p] EXCEPT !.on = FALSE] \in Subscription /\ [conn[p] EXCEPT !.on = FALSE].on = FALSE
    BY <2>1 DEF SnapshotTypes, Subscription
  <2>3. PICK gone \in Subscription : gone.on = FALSE /\ conn' = [conn EXCEPT ![p] = gone]
    BY <1>2, <1>3, <1>4, <2>2
  <2>4. SnapshotTypes'
    BY <1>1, <2>1, <2>3 DEF SnapshotTypes
  <2>5. ScopeIsWatched'
    BY <1>1, <2>1, <2>3 DEF ScopeIsWatched, Scope, SnapshotTypes
  <2> QED
    BY <2>4, <2>5
<1> QED
  BY <1>1, <1>4 DEF WatchInv, Silent

-----------------------------------------------------------------------------
LEMMA WatchInit == HubInit => WatchInv
<1> SUFFICES ASSUME HubInit PROVE WatchInv
  OBVIOUS
<1>1. rows \in Seq(RowStates)
  BY DEF HubInit, Init
<1>2. conn \in [Pages -> Subscription] /\ teller \in Teller
  BY DEF HubInit, Gone, Quiet, Subscription, Teller, None
<1>3. Silent
  BY DEF HubInit, Init, Silent
<1>4. ScopeIsWatched
  BY DEF HubInit, ScopeIsWatched, Scope, Gone
<1> QED
  BY <1>1, <1>2, <1>3, <1>4 DEF HubInit, WatchInv, SnapshotTypes

LEMMA WatchStep == WatchInv /\ [HubNext]_vars => WatchInv'
<1> SUFFICES ASSUME WatchInv, [HubNext]_vars PROVE WatchInv'
  OBVIOUS
<1>1. CASE UNCHANGED vars
  BY <1>1 DEF vars, store, hubVars, WatchInv, Silent, SnapshotTypes, ScopeIsWatched, Scope
<1> QED
  BY <1>1, StoreStepKeeps, SnapshotStepKeeps, LogStepKeeps, DisconnectKeeps DEF HubNext

\* Without the event bus, no page waits for a watcher that nobody starts: for every
\* set of pages that join, load, leave and fail in any order (subscribe,
\* _cache_scope_snapshot, _watch_scope, unregister).
THEOREM ScopeStaysWatched == HubSpec => []ScopeIsWatched
<1>1. WatchInv => ScopeIsWatched
  BY DEF WatchInv, ScopeIsWatched
<1> QED
  BY <1>1, WatchInit, WatchStep, PTL DEF HubSpec

-----------------------------------------------------------------------------
(* What the table and the bus do to those who read them. *)

TableTypes == rows \in Seq(RowStates) /\ bus \in Seq(Nat)

\* The ids whose message is to come, or is lost.
Pending == unheard \cup unannounced \cup Elements(bus)

Live == {i \in RowIds : rows[i] # "void"}

LEMMA ElementsAppended ==
    ASSUME NEW s \in Seq(Nat), NEW i \in Nat
    PROVE  Append(s, i) \in Seq(Nat) /\ Elements(Append(s, i)) = Elements(s) \cup {i}
<1>1. /\ Append(s, i) \in Seq(Nat) /\ Len(Append(s, i)) = Len(s) + 1 /\ Len(s) \in Nat
      /\ \A k \in 1..Len(s) : Append(s, i)[k] = s[k]
      /\ Append(s, i)[Len(s) + 1] = i
  OBVIOUS
<1>2. DOMAIN s = 1..Len(s) /\ DOMAIN Append(s, i) = 1..(Len(s) + 1)
  BY <1>1
<1>3. 1..(Len(s) + 1) = 1..Len(s) \cup {Len(s) + 1}
  BY <1>1
<1> QED
  BY <1>1, <1>2, <1>3 DEF Elements

LEMMA ElementsHeard ==
    ASSUME NEW s \in Seq(Nat), s # <<>>
    PROVE  /\ Tail(s) \in Seq(Nat) /\ Head(s) \in Nat
           /\ Elements(s) = {Head(s)} \cup Elements(Tail(s))
<1>1. /\ Tail(s) \in Seq(Nat) /\ Head(s) = s[1] /\ Len(Tail(s)) = Len(s) - 1 /\ Len(s) \in Nat \ {0}
      /\ \A k \in 1..(Len(s) - 1) : Tail(s)[k] = s[k + 1]
  OBVIOUS
<1>2. DOMAIN s = 1..Len(s) /\ DOMAIN Tail(s) = 1..(Len(s) - 1)
  BY <1>1
<1>3. Elements(s) \subseteq {Head(s)} \cup Elements(Tail(s))
  <2> SUFFICES ASSUME NEW k \in 1..Len(s), k # 1
               PROVE  s[k] \in Elements(Tail(s))
    BY <1>1, <1>2 DEF Elements
  <2>1. k - 1 \in 1..(Len(s) - 1) /\ (k - 1) + 1 = k
    BY <1>1
  <2> QED
    BY <1>1, <1>2, <2>1 DEF Elements
<1>4. {Head(s)} \cup Elements(Tail(s)) \subseteq Elements(s)
  <2>1. \A k \in 1..(Len(s) - 1) : k + 1 \in 1..Len(s)
    BY <1>1
  <2>2. 1 \in 1..Len(s)
    BY <1>1
  <2> QED
    BY <1>1, <1>2, <2>1, <2>2 DEF Elements
<1> QED
  BY <1>1, <1>3, <1>4

LEMMA Table ==
    ASSUME TableTypes
    PROVE  /\ RowIds = 1..Len(rows) /\ Len(rows) \in Nat
           /\ IsFiniteSet(Visible) /\ Snapshot \in Nat /\ Visible \subseteq Live /\ Live \subseteq RowIds
<1>1. RowIds = 1..Len(rows) /\ Len(rows) \in Nat
  BY DEF RowIds, TableTypes
<1>2. IsFiniteSet(RowIds)
  BY <1>1, FS_Interval
<1>3. IsFiniteSet(Visible)
  BY <1>2, FS_Subset DEF Visible
<1> QED
  BY <1>1, <1>3, FS_CardinalityType DEF Snapshot, Visible, Live

\* A step of the log's side: rows end or appear, and what becomes visible is to be
\* announced, or is announced to nobody.
StoreMoves ==
    /\ TableTypes' /\ Len(rows) <= Len(rows')
    /\ RowIds \subseteq RowIds' /\ \A i \in Live' : i \in Live \/ i > Len(rows)
    /\ Visible \subseteq Visible' /\ Visible' \subseteq Visible \cup Pending' /\ Pending \subseteq Pending'
    /\ Settled' => Settled /\ Visible' = Visible

LEMMA TableMoves ==
    ASSUME TableTypes, StoreStep
    PROVE  StoreMoves /\ UNCHANGED hubVars
<1> USE Table
<1>0. UNCHANGED hubVars
  BY DEF StoreStep
<1>1. CASE Open(1)
  <2>1. rows' = Append(rows, "open") /\ UNCHANGED <<unannounced, bus, unheard>>
    <3>1. [i \in 1..1 |-> "open"] = <<"open">>
      OBVIOUS
    <3>2. rows' = rows \o <<"open">> /\ rows \in Seq(RowStates) /\ "open" \in RowStates
      BY <1>1, <3>1 DEF Open, TableTypes, RowStates
    <3>3. rows \o <<"open">> = Append(rows, "open")
      BY <3>2, AppendIsConcat
    <3> QED
      BY <1>1, <3>2, <3>3 DEF Open
  <2>2. /\ rows' \in Seq(RowStates) /\ Len(rows') = Len(rows) + 1
        /\ \A i \in 1..Len(rows) : rows'[i] = rows[i]
        /\ rows'[Len(rows) + 1] = "open"
    BY <2>1 DEF TableTypes, RowStates
  <2>3. RowIds' = 1..(Len(rows) + 1)
    BY <2>2 DEF RowIds
  <2>4. Visible' = Visible /\ RowIds \subseteq RowIds' /\ \A i \in Live' : i \in Live \/ i > Len(rows)
    BY <2>2, <2>3 DEF Visible, Live
  <2>5. Pending' = Pending /\ (Settled' => Settled)
    BY <2>1 DEF Pending, Settled
  <2> QED
    BY <1>0, <2>1, <2>2, <2>4, <2>5 DEF StoreMoves, TableTypes
<1>2. ASSUME NEW S, NEW state \in RowStates \ {"open"}, Close(S, state), \A i \in S : rows[i] = "open"
      PROVE  /\ rows' \in Seq(RowStates) /\ Len(rows') = Len(rows) /\ RowIds' = RowIds
             /\ Live' \subseteq Live /\ Visible \subseteq Visible'
             /\ Visible' \subseteq Visible \cup (IF state = "committed" THEN S ELSE {})
  <2>1. rows' \in Seq(RowStates)
    BY <1>2, CloseKeepsTable DEF TableTypes
  <2>2. DOMAIN rows' = RowIds /\ \A i \in RowIds : rows'[i] = IF i \in S THEN state ELSE rows[i]
    BY <1>2 DEF Close
  <2>3. Len(rows') = Len(rows) /\ RowIds' = RowIds
    BY <2>1, <2>2 DEF RowIds
  <2> QED
    BY <1>2, <2>1, <2>2, <2>3 DEF Live, Visible
<1>3. ASSUME NEW i \in RowIds, Commit({i})
      PROVE  StoreMoves
  <2>1. Close({i}, "committed") /\ rows[i] = "open" /\ bus' = bus
        /\ ((unannounced' = unannounced \cup {i} /\ unheard' = unheard)
              \/ (unheard' = unheard \cup {i} /\ unannounced' = unannounced))
    BY <1>3 DEF Commit, Opened
  <2>2. i \in Pending' /\ Pending \subseteq Pending' /\ ~Settled'
    BY <2>1 DEF Pending, Settled
  <2>3. /\ rows' \in Seq(RowStates) /\ Len(rows') = Len(rows) /\ RowIds' = RowIds
        /\ Live' \subseteq Live /\ Visible \subseteq Visible' /\ Visible' \subseteq Visible \cup {i}
    BY <1>2, <2>1 DEF RowStates
  <2> QED
    BY <2>1, <2>2, <2>3 DEF StoreMoves, TableTypes
<1>4. ASSUME NEW S, NEW silent, Abandon(S, silent)
      PROVE  StoreMoves
  <2>1. Close(S, "void") /\ (\A i \in S : rows[i] = "open") /\ silent \subseteq unannounced /\ bus' = bus
        /\ unannounced' = unannounced \ silent /\ unheard' = unheard \cup silent
    BY <1>4 DEF Abandon
  <2>2. Pending \subseteq Pending' /\ (Settled' => Settled)
    BY <2>1 DEF Pending, Settled
  <2>3. /\ rows' \in Seq(RowStates) /\ Len(rows') = Len(rows) /\ RowIds' = RowIds
        /\ Live' \subseteq Live /\ Visible \subseteq Visible' /\ Visible' \subseteq Visible
    BY <1>2, <2>1 DEF RowStates
  <2> QED
    BY <2>1, <2>2, <2>3 DEF StoreMoves, TableTypes
<1>5. ASSUME rows' = rows, bus' \in Seq(Nat), Pending \subseteq Pending', Settled' => Settled
      PROVE  StoreMoves
  <2>1. RowIds' = RowIds /\ Live' = Live /\ Visible' = Visible
    BY <1>5 DEF RowIds, Live, Visible
  <2> QED
    BY <1>5, <2>1 DEF StoreMoves, TableTypes
<1>6. ASSUME NEW i \in RowIds, Announce(i)
      PROVE  StoreMoves
  <2>1. CASE listening
    <3>1. bus' = Append(bus, i) /\ unannounced' = unannounced \ {i} /\ unheard' = unheard /\ rows' = rows
      BY <1>6, <2>1 DEF Announce
    <3>2. bus' \in Seq(Nat) /\ Elements(bus') = Elements(bus) \cup {i}
      BY <3>1, ElementsAppended DEF TableTypes
    <3>3. Pending \subseteq Pending'
      <4>1. Pending' = unheard \cup (unannounced \ {i}) \cup Elements(bus')
        BY <3>1 DEF Pending, Elements
      <4> QED
        BY <3>2, <4>1 DEF Pending
    <3>4. bus' # <<>>
      BY <3>1 DEF TableTypes
    <3>5. ~Settled'
      BY <3>4 DEF Settled
    <3> QED
      BY <1>5, <3>1, <3>2, <3>3, <3>5
  <2>2. CASE ~listening
    <3>1. unheard' = unheard \cup {i} /\ unannounced' = unannounced \ {i} /\ UNCHANGED <<bus, rows>>
      BY <1>6, <2>2 DEF Announce
    <3>2. Pending \subseteq Pending' /\ ~Settled'
      BY <3>1 DEF Pending, Settled
    <3> QED
      BY <1>5, <3>1, <3>2 DEF TableTypes
  <2> QED
    BY <2>1, <2>2
<1>7. ASSUME LoseBus PROVE StoreMoves
  <2>1. bus' = <<>> /\ unheard' = unheard \cup Elements(bus) /\ UNCHANGED <<rows, unannounced>>
    BY <1>7 DEF LoseBus
  <2>2. Pending \subseteq Pending' /\ bus' \in Seq(Nat)
    BY <2>1 DEF Pending
  <2>3. Elements(bus) = {} => bus = <<>>
    BY ElementsHeard DEF TableTypes
  <2>4. Settled' => Settled
    BY <2>1, <2>3 DEF Settled
  <2> QED
    BY <1>5, <2>1, <2>2, <2>4
<1>8. ASSUME Rejoin PROVE StoreMoves
  <2>1. UNCHANGED <<rows, unannounced, bus, unheard>>
    BY <1>8 DEF Rejoin
  <2>2. Pending' = Pending /\ Settled' = Settled
    BY <2>1 DEF Pending, Elements, Settled
  <2> QED
    BY <1>5, <2>1, <2>2 DEF TableTypes
<1>9. /\ \A i \in RowIds : Commit({i}) => StoreMoves
      /\ \A i \in RowIds : Announce(i) => StoreMoves
      /\ \A i : Abandon({i}, {}) \/ Abandon({}, {i}) => StoreMoves
  BY <1>3, <1>4, <1>6
<1> QED
  BY <1>0, <1>1, <1>7, <1>8, <1>9 DEF StoreStep

LEMMA SnapshotGrows ==
    ASSUME TableTypes, StoreMoves
    PROVE  Snapshot' \in Nat /\ Snapshot <= Snapshot' /\ (Settled' => Snapshot' = Snapshot)
<1>1. TableTypes' /\ Visible \subseteq Visible'
  BY DEF StoreMoves
<1>2. IsFiniteSet(Visible') /\ Snapshot' \in Nat
  <2>1. RowIds' = 1..Len(rows') /\ Len(rows') \in Nat
    BY <1>1 DEF RowIds, TableTypes
  <2>2. IsFiniteSet(RowIds')
    BY <2>1, FS_Interval
  <2>3. IsFiniteSet(Visible')
    BY <2>2, FS_Subset DEF Visible
  <2> QED
    BY <2>3, FS_CardinalityType DEF Snapshot
<1>3. Cardinality(Visible) <= Cardinality(Visible')
  BY <1>1, <1>2, FS_Subset
<1> QED
  BY <1>2, <1>3 DEF Snapshot, StoreMoves

-----------------------------------------------------------------------------
(* What the pages of a scope show. *)

Picture == [snapshot : Int, items : SUBSET Nat, cursor : Nat]

Pictures ==
    /\ page \in [Pages -> Picture]
    /\ history \in [behind : SUBSET Pages, passed : [Pages -> SUBSET Nat], connects : Int]

Known == None..Snapshot

\* A page shows snapshot n or a later one, or will once its own is sent, or is
\* left behind.
Shows(p, n) ==
    \/ p \in history.behind
    \/ conn[p].pc = "loading"
    \/ conn[p].pc = "idle" /\ page[p].snapshot >= n
    \/ conn[p].pc \in {"loaded", "cached"} /\ (conn[p].snapshot >= n \/ conn[p].snapshot < page[p].snapshot)

\* Nobody shows or sends what was not there to be loaded.
Loads ==
    /\ teller.load \in Known
    /\ \A p \in Pages : conn[p].snapshot \in Known /\ page[p].snapshot \in Known
    /\ teller.pc # "telling" => teller.to = {}
    /\ mode = "bus" => teller.pc # "waiting" /\ \A p \in Pages : ~conn[p].starts

Claimed(n) == \A p \in Scope : p \in teller.to \/ Shows(p, n)

\* With the bus, who is not told the current snapshot knows it once the bus is
\* silent; without it, who is not told what the watcher loaded last knows that.
Told ==
    /\ mode = "bus" /\ Settled =>
         /\ teller.pc \in {"loaded", "telling"} => teller.load = Snapshot
         /\ teller.pc \in {"telling", "off"} => Claimed(Snapshot)
    /\ mode = "watch" /\ teller.pc \in {"waiting", "loading", "telling"} => Claimed(teller.load)

ScopeInv == SnapshotTypes /\ Pictures /\ Loads /\ Told

PagesInv ==
    /\ WatchInv /\ TableTypes
    /\ kind = "log" => teller = Quiet
    /\ kind = "snapshot" => ScopeInv /\ tail = [p \in Pages |-> Stopped]

\* What a page's own steps do to the scope: whoever is in it shows what it showed.
PageMoves ==
    \A q \in Scope', n \in Known : (q \in Scope => Shows(q, n)) => Shows(q, n)'

\* Everything shows the empty snapshot, and a page what it was just sent.
LEMMA ShowsNone ==
    ASSUME SnapshotTypes, Pictures, Loads, NEW p \in Pages
    PROVE  Shows(p, None)
<1>1. /\ conn[p].pc \in {"idle", "loading", "loaded", "cached"}
      /\ conn[p].snapshot >= None /\ page[p].snapshot >= None
  BY SnapshotIsNumber DEF SnapshotTypes, Subscription, Pictures, Picture, Loads, Known, None
<1> QED
  BY <1>1 DEF Shows

LEMMA ShowsSent ==
    ASSUME NEW p \in Pages, conn[p].pc \in {"idle", "loading", "loaded", "cached"},
           conn[p].snapshot \in Int, page[p].snapshot \in Int
    PROVE  Shows(p, page[p].snapshot)
BY DEF Shows

LEMMA PagesKeepClaims ==
    ASSUME PageMoves, UNCHANGED <<teller, mode, rows, bus, unannounced, unheard>>, Loads, Told,
           Snapshot \in Nat
    PROVE  Told'
<1>1. Snapshot' = Snapshot /\ Settled' = Settled
  BY DEF Snapshot, Visible, RowIds, Settled
<1>2. Snapshot \in Known /\ teller.load \in Known
  BY DEF Known, Loads, None
<1>3. \A n \in Known : Claimed(n) => Claimed(n)'
  BY DEF PageMoves, Claimed, Scope
<1>4. Claimed(Snapshot) => \A p \in Scope' : p \in teller'.to \/ Shows(p, Snapshot)'
  BY <1>1, <1>2 DEF PageMoves, Claimed, Scope
<1> QED
  BY <1>1, <1>2, <1>3, <1>4 DEF Told, Claimed

\* What a page's steps start from, and must leave.
LEMMA PageStepKeeps ==
    ASSUME ScopeInv, TableTypes, mode \in {"bus", "watch"}, kind = "snapshot", SnapshotTypes', NEW p \in Pages,
           Subscribe(p) \/ LoadSnapshot(p) \/ CacheSnapshot(p) \/ SendSnapshot(p) \/ Disconnect(p)
    PROVE  ScopeInv'
<1> USE DEF ScopeInv
<1>1. Snapshot \in Nat /\ Known = None..Snapshot /\ None \in Int /\ None <= Snapshot
      /\ None \in Known /\ Snapshot \in Known
  BY Table DEF Known, None
<1>2. UNCHANGED <<mode, kind, rows, bus, unannounced, unheard>>
  BY DEF Subscribe, LoadSnapshot, CacheSnapshot, SendSnapshot, Disconnect, store
<1>3. Snapshot' = Snapshot /\ Settled' = Settled /\ Known' = Known
  BY <1>2 DEF Snapshot, Visible, RowIds, Settled, Known
<1>4. \A q \in Pages : /\ conn[q].pc \in {"idle", "loading", "loaded", "cached"}
                       /\ conn[q].snapshot \in Known /\ page[q].snapshot \in Known
                       /\ conn[q].snapshot \in Int /\ page[q].snapshot \in Int
  BY <1>1 DEF SnapshotTypes, Subscription, Pictures, Picture, Loads
<1>5. Gone.snapshot = None /\ ~Gone.starts /\ ~Gone.on /\ Gone.pc = "idle"
  BY DEF Gone
\* The other pages are where they were.
<1>6. ASSUME NEW q \in Pages, q # p
      PROVE  /\ conn'[q] = conn[q] /\ page'[q] = page[q]
             /\ q \in history.behind' <=> q \in history.behind
  BY <1>6 DEF Subscribe, Join, LoadSnapshot, CacheSnapshot, SendSnapshot, Disconnect, Overtaken,
              SnapshotTypes, Pictures
<1>7. Pictures'
  <2>1. page' \in [Pages -> Picture]
    <3>1. page' = page \/ \E x \in Int : page' = [page EXCEPT ![p].snapshot = x]
      BY <1>1, <1>4 DEF Subscribe, LoadSnapshot, CacheSnapshot, SendSnapshot, Disconnect
    <3>2. ASSUME NEW x \in Int PROVE [page EXCEPT ![p].snapshot = x] \in [Pages -> Picture]
      BY DEF Pictures, Picture
    <3> QED
      BY <3>1, <3>2 DEF Pictures
  <2>2. \/ history' = history
        \/ history' = [history EXCEPT !.connects = @ + 1]
        \/ \E S \in SUBSET Pages : history' = [history EXCEPT !.behind = S]
    <3>1. Overtaken(p, conn[p].snapshot) \subseteq Pages /\ history.behind \subseteq Pages
      BY DEF Overtaken, Pictures
    <3> QED
      BY <3>1 DEF Subscribe, LoadSnapshot, CacheSnapshot, SendSnapshot, Disconnect
  <2>3. history' \in [behind : SUBSET Pages, passed : [Pages -> SUBSET Nat], connects : Int]
    BY <2>2 DEF Pictures
  <2> QED
    BY <2>1, <2>3 DEF Pictures
<1>8. PageMoves
  <2> SUFFICES ASSUME NEW q \in Scope', NEW n \in Known, q \in Scope => Shows(q, n)
               PROVE  Shows(q, n)'
    BY DEF PageMoves
  <2>0. q \in Pages /\ conn'[q].on /\ n \in Int /\ n <= Snapshot
    BY <1>1 DEF Scope
  <2>1. CASE q # p
    BY <1>6, <2>0, <2>1 DEF Shows, Scope
  <2>2. CASE q = p /\ Subscribe(p)
    BY <2>2 DEF Subscribe, Join, Shows, SnapshotTypes, Gone
  <2>3. CASE q = p /\ LoadSnapshot(p)
    BY <2>0, <2>3, <1>1 DEF LoadSnapshot, Shows, SnapshotTypes, Subscription
  <2>4. CASE q = p /\ CacheSnapshot(p)
    <3>1. conn[p].on /\ conn' = [conn EXCEPT ![p].pc = "cached"] /\ UNCHANGED <<page, history>>
      BY <2>0, <2>4, <1>5 DEF CacheSnapshot, SnapshotTypes
    <3>2. conn'[p].pc = "cached" /\ conn'[p].snapshot = conn[p].snapshot /\ conn[p].pc = "loaded"
      BY <2>4, <3>1 DEF SnapshotTypes, Subscription, CacheSnapshot
    <3>3. Shows(p, n)
      BY <2>0, <2>4, <3>1 DEF Scope
    <3> QED
      BY <2>4, <3>1, <3>2, <3>3 DEF Shows
  <2>5. CASE q = p /\ SendSnapshot(p)
    <3>1. /\ conn[p].on /\ conn[p].pc = "cached"
          /\ page' = [page EXCEPT ![p].snapshot = conn[p].snapshot]
          /\ history' = [history EXCEPT !.behind = @ \cup Overtaken(p, conn[p].snapshot)]
          /\ conn' = [conn EXCEPT ![p] = [Gone EXCEPT !.on = TRUE]]
      BY <2>0, <2>5, <1>5 DEF SendSnapshot, SnapshotTypes
    <3>2. /\ page'[p].snapshot = conn[p].snapshot /\ conn'[p].pc = "idle"
          /\ history'.behind = history.behind \cup Overtaken(p, conn[p].snapshot)
      BY <3>1 DEF Pictures, Picture, SnapshotTypes, Gone
    <3>3. Shows(p, n)
      BY <2>0, <2>5, <3>1 DEF Scope
    <3> QED
      BY <1>4, <2>0, <2>5, <3>1, <3>2, <3>3 DEF Shows, Overtaken
  <2>6. CASE q = p /\ Disconnect(p)
    <3>1. conn' = [conn EXCEPT ![p] = Gone] \/ conn' = [conn EXCEPT ![p].on = FALSE]
      BY <2>6 DEF Disconnect
    <3> QED
      BY <2>0, <2>6, <3>1, <1>5 DEF SnapshotTypes, Subscription
  <2> QED
    BY <2>1, <2>2, <2>3, <2>4, <2>5, <2>6
<1>9. \/ UNCHANGED teller
      \/ mode = "watch" /\ teller'.pc = "waiting" /\ teller'.load = None /\ teller'.to = {}
  <2>1. UNCHANGED teller \/ (conn[p].starts /\ teller' = [Quiet EXCEPT !.pc = "waiting"])
    BY DEF Subscribe, LoadSnapshot, CacheSnapshot, SendSnapshot, Disconnect
  <2>2. conn[p].starts => mode = "watch"
    BY DEF Loads, SnapshotTypes, Subscription
  <2> QED
    BY <2>1, <2>2 DEF Quiet
<1>10. conn'[p].snapshot \in Known /\ page'[p].snapshot \in Known /\ (mode = "bus" => ~conn'[p].starts)
  <2>1. CASE Subscribe(p)
    BY <2>1, <1>1, <1>4, <1>5 DEF Subscribe, Join, NeedsWatcher, Gone, SnapshotTypes, Loads
  <2>2. CASE LoadSnapshot(p)
    BY <2>2, <1>1, <1>4 DEF LoadSnapshot, SnapshotTypes, Subscription, Loads
  <2>3. CASE CacheSnapshot(p)
    BY <2>3, <1>1, <1>4, <1>5 DEF CacheSnapshot, SnapshotTypes, Subscription, Loads
  <2>4. CASE SendSnapshot(p)
    <3>1. conn'[p].snapshot = None /\ ~conn'[p].starts
      BY <2>4, <1>5 DEF SendSnapshot, SnapshotTypes, Gone
    <3>2. page'[p].snapshot \in {page[p].snapshot, conn[p].snapshot}
      BY <2>4 DEF SendSnapshot, Pictures, Picture
    <3> QED
      BY <3>1, <3>2, <1>1, <1>4
  <2>5. CASE Disconnect(p)
    <3>1. \/ conn' = [conn EXCEPT ![p] = Gone]
          \/ conn' = [conn EXCEPT ![p].on = FALSE]
      BY <2>5 DEF Disconnect
    <3>2. conn'[p].snapshot \in {None, conn[p].snapshot} /\ (conn'[p].starts => conn[p].starts)
      BY <3>1, <1>5 DEF SnapshotTypes, Subscription
    <3>3. page'[p].snapshot = None
      BY <2>5 DEF Disconnect, Pictures, Picture
    <3> QED
      BY <3>2, <3>3, <1>1, <1>4 DEF Loads
  <2> QED
    BY <2>1, <2>2, <2>3, <2>4, <2>5
<1>11. Loads'
  BY <1>1, <1>2, <1>3, <1>6, <1>9, <1>10 DEF Loads
<1>12. Told'
  <2>1. CASE UNCHANGED teller
    BY <1>1, <1>2, <1>8, <2>1, PagesKeepClaims
  <2>2. CASE mode = "watch" /\ teller'.pc = "waiting" /\ teller'.load = None /\ teller'.to = {}
    <3>1. \A q \in Scope : Shows(q, None)
      BY ShowsNone DEF Scope
    <3>2. \A q \in Scope' : Shows(q, None)'
      BY <1>1, <1>8, <3>1 DEF PageMoves
    <3>3. Claimed(None)'
      BY <3>2 DEF Claimed
    <3> QED
      BY <1>2, <2>2, <3>3 DEF Told, Claimed
  <2> QED
    BY <1>9, <2>1, <2>2
<1> QED
  BY <1>7, <1>11, <1>12

\* Who is not told a snapshot because it did not change shows it or is left behind.
LEMMA LeavingBehindClaims ==
    ASSUME ScopeInv, NEW n \in Int, UNCHANGED <<conn, page>>,
           \A p \in Scope : page[p].snapshot = n \/ p \in history.behind'
    PROVE  \A p \in Scope' : Shows(p, n)'
<1> SUFFICES ASSUME NEW p \in Scope PROVE Shows(p, n)'
  BY DEF Scope
<1>1. /\ conn[p].pc \in {"idle", "loading", "loaded", "cached"}
      /\ conn[p].snapshot \in Int /\ page[p].snapshot \in Int
  BY DEF ScopeInv, SnapshotTypes, Subscription, Pictures, Picture, Scope
<1> QED
  BY <1>1 DEF Shows

LEMMA TellerStepKeeps ==
    ASSUME ScopeInv, WatchInv, TableTypes, kind = "snapshot", SnapshotTypes',
           \/ StartRefresh \/ StartPoll \/ TellerLoads \/ TellerCompares \/ TellerFails
           \/ \E p \in Pages : Tell(p)
    PROVE  ScopeInv'
<1> USE DEF ScopeInv
<1>1. Snapshot \in Nat /\ Known = None..Snapshot /\ None \in Int /\ None <= Snapshot
      /\ None \in Known /\ Snapshot \in Known
  BY Table DEF Known, None
<1>2. UNCHANGED <<mode, kind, rows, conn>>
  BY DEF StartRefresh, StartPoll, TellerLoads, TellerCompares, TellerFails, Tell, store, hubButTeller, Hear
<1>3. Snapshot' = Snapshot /\ Known' = Known /\ Scope' = Scope
  BY <1>2 DEF Snapshot, Visible, RowIds, Known, Scope
<1>4. mode \in {"bus", "watch"} /\ Silent
  BY DEF WatchInv
<1>5. teller.load \in Known /\ teller.load \in Int /\ teller \in Teller
  BY <1>1 DEF Loads, SnapshotTypes
<1>6. Rest.load \in {None, teller.load} /\ Rest.to = {} /\ (mode = "bus" => Rest.pc = "off")
      /\ (mode = "watch" => Rest.pc = "waiting" /\ Rest.load = teller.load)
  BY <1>4 DEF Rest, Quiet
<1>7. ASSUME UNCHANGED page PROVE \A p \in Pages : conn'[p].snapshot \in Known /\ page'[p].snapshot \in Known
  BY <1>2, <1>7 DEF Loads
<1>8. ASSUME UNCHANGED <<page, history>>
      PROVE  Pictures' /\ \A p \in Pages : \A n : Shows(p, n)' = Shows(p, n)
  BY <1>2, <1>8 DEF Pictures, Shows
<1>9. ASSUME NEW S \in SUBSET Pages, history' = [history EXCEPT !.behind = @ \cup S], UNCHANGED page
      PROVE  Pictures' /\ history'.behind = history.behind \cup S
  BY <1>9 DEF Pictures
<1>10. CASE StartRefresh
  <2>1. mode = "bus" /\ teller.pc = "off" /\ UNCHANGED <<page, history>>
        /\ teller' = IF Scope = {} THEN teller ELSE [Quiet EXCEPT !.pc = "loading"]
    BY <1>4, <1>10 DEF StartRefresh, Hear, Silent, hubButTeller
  <2>2. Pictures'
    BY <1>8, <2>1
  <2>3. CASE Scope = {}
    <3>1. teller' = teller
      BY <2>1, <2>3
    <3> QED
      BY <1>2, <1>3, <1>7, <2>1, <2>2, <2>3, <3>1 DEF Loads, Told, Claimed
  <2>4. CASE Scope # {}
    <3>1. teller'.pc = "loading" /\ teller'.load = None /\ teller'.to = {}
      BY <2>1, <2>4 DEF Quiet
    <3> QED
      BY <1>1, <1>2, <1>3, <1>7, <2>1, <2>2, <3>1 DEF Loads, Told
  <2> QED
    BY <2>3, <2>4
<1>11. CASE StartPoll
  <2>1. mode = "watch" /\ teller.pc = "waiting" /\ UNCHANGED <<page, history>>
    BY <1>4, <1>11 DEF StartPoll, Loads
  <2>2. Pictures' /\ \A p \in Pages : \A n : Shows(p, n)' = Shows(p, n)
    BY <1>8, <2>1
  <2>3. CASE teller' = Quiet
    BY <1>1, <1>2, <1>3, <1>7, <2>1, <2>2, <2>3 DEF Loads, Told, Quiet
  <2>4. CASE teller' = [teller EXCEPT !.pc = "loading"]
    <3>1. teller'.pc = "loading" /\ teller'.load = teller.load /\ teller'.to = teller.to
      BY <1>5, <2>4 DEF Teller
    <3>2. Claimed(teller.load)
      BY <2>1 DEF Told
    <3>3. Claimed(teller.load)'
      BY <1>2, <1>3, <2>1, <3>1, <3>2 DEF Claimed, Shows
    <3> QED
      BY <1>2, <1>3, <1>7, <2>1, <2>2, <3>1, <3>3 DEF Loads, Told, Claimed
  <2> QED
    BY <1>11, <2>3, <2>4 DEF StartPoll
<1>12. CASE TellerLoads
  <2>1. teller'.pc = "loaded" /\ teller'.load = Snapshot /\ teller'.to = {} /\ UNCHANGED <<page, history>>
    BY <1>5, <1>12 DEF TellerLoads, Teller, Loads, hubButTeller
  <2>2. Pictures'
    BY <1>8, <2>1
  <2> QED
    BY <1>1, <1>2, <1>3, <1>7, <2>1, <2>2 DEF Loads, Told
<1>13. CASE TellerCompares
  <2>1. UNCHANGED <<page, bus, unannounced, unheard>> /\ teller.pc = "loaded" /\ teller.to = {}
    BY <1>13 DEF TellerCompares, store, Loads
  <2>2. Settled' = Settled /\ (mode = "bus" /\ Settled => teller.load = Snapshot)
    BY <2>1 DEF Settled, Told
  <2>3. CASE teller.load = last
    <3> DEFINE behind == {p \in Scope : page[p].snapshot # teller.load}
    <3>1. teller' = Rest /\ history' = [history EXCEPT !.behind = @ \cup behind] /\ behind \subseteq Pages
      BY <1>13, <2>3 DEF TellerCompares, Compare, Scope
    <3>2. Pictures' /\ history'.behind = history.behind \cup behind
      BY <1>9, <2>1, <3>1
    <3>3. PICK load \in Int : load = teller.load
      BY <1>5
    <3>4. \A p \in Scope' : Shows(p, load)'
      BY <1>2, <2>1, <3>2, <3>3, LeavingBehindClaims
    <3>5. Loads'
      BY <1>1, <1>2, <1>3, <1>4, <1>5, <1>6, <1>7, <2>1, <3>1 DEF Loads
    <3>6. CASE mode = "bus"
      <4>1. Settled' => Snapshot' = load
        BY <1>3, <2>2, <3>3, <3>6
      <4>2. Settled' => Claimed(Snapshot)'
        BY <3>4, <4>1 DEF Claimed
      <4> QED
        BY <1>2, <1>6, <3>1, <3>2, <3>5, <3>6, <4>2 DEF Told
    <3>7. CASE mode = "watch"
      <4>1. teller'.load = load
        BY <1>6, <3>1, <3>3, <3>7
      <4>2. Claimed(teller.load)'
        BY <3>4, <4>1 DEF Claimed
      <4> QED
        BY <1>2, <3>2, <3>5, <3>7, <4>2 DEF Told
    <3> QED
      BY <1>4, <3>6, <3>7
  <2>4. CASE teller.load # last
    <3>1. teller' = (IF Scope = {} THEN Rest ELSE [teller EXCEPT !.pc = "telling", !.to = Scope])
          /\ UNCHANGED history
      BY <1>13, <2>4 DEF TellerCompares, Compare
    <3>2. Pictures'
      BY <1>8, <2>1, <3>1
    <3>3. CASE Scope = {}
      <4>1. teller' = Rest
        BY <3>1, <3>3
      <4> QED
        BY <1>1, <1>2, <1>3, <1>4, <1>6, <1>7, <2>1, <3>2, <3>3, <4>1 DEF Loads, Told, Claimed
    <3>4. CASE Scope # {}
      <4>1. teller'.pc = "telling" /\ teller'.load = teller.load /\ teller'.to = Scope
        BY <1>5, <3>1, <3>4 DEF Teller
      <4> QED
        BY <1>2, <1>3, <1>7, <2>1, <2>2, <3>2, <4>1 DEF Loads, Told, Claimed
    <3> QED
      BY <3>3, <3>4
  <2> QED
    BY <2>3, <2>4
<1>14. CASE TellerFails
  <2> DEFINE behind == {p \in Scope : page[p].snapshot # Snapshot}
  <2>1. /\ UNCHANGED <<page, bus, unannounced, unheard>> /\ teller.pc = "loading" /\ teller.to = {}
        /\ history' = [history EXCEPT !.behind = @ \cup behind] /\ behind \subseteq Pages
        /\ teller' = IF mode = "bus" THEN Quiet ELSE [teller EXCEPT !.pc = "waiting"]
    BY <1>14 DEF TellerFails, store, Loads, Scope
  <2>2. Pictures' /\ history'.behind = history.behind \cup behind
    BY <1>9, <2>1
  <2>3. CASE mode = "bus"
    <3>1. teller' = Quiet
      BY <2>1, <2>3
    <3>2. PICK now \in Int : now = Snapshot
      BY <1>1
    <3>3. \A p \in Scope' : Shows(p, now)'
      BY <1>2, <2>1, <2>2, <3>2, LeavingBehindClaims
    <3>4. Claimed(Snapshot)'
      BY <1>3, <3>2, <3>3 DEF Claimed
    <3> QED
      BY <1>1, <1>2, <1>3, <1>7, <2>1, <2>2, <2>3, <3>1, <3>4 DEF Loads, Told, Quiet
  <2>4. CASE mode = "watch"
    <3>1. teller'.pc = "waiting" /\ teller'.load = teller.load /\ teller'.to = {}
      BY <1>5, <2>1, <2>4 DEF Teller
    <3>2. PICK load : load = teller.load
      OBVIOUS
    <3>3. \A p \in Scope : Shows(p, load) => Shows(p, load)'
      BY <1>2, <2>1, <2>2 DEF Shows
    <3>4. \A p \in Scope : Shows(p, load)
      BY <2>1, <2>4, <3>2 DEF Told, Claimed
    <3>5. Claimed(teller.load)'
      BY <1>3, <3>1, <3>2, <3>3, <3>4 DEF Claimed
    <3> QED
      BY <1>2, <1>3, <1>7, <2>1, <2>2, <2>4, <3>1, <3>5 DEF Loads, Told
  <2> QED
    BY <1>4, <2>3, <2>4
<1>15. ASSUME NEW p \in Pages, Tell(p) PROVE ScopeInv'
  <2>1. teller.pc = "telling" /\ p \in teller.to /\ UNCHANGED <<bus, unannounced, unheard>>
        /\ teller' = IF teller.to = {p} THEN Rest ELSE [teller EXCEPT !.to = @ \ {p}]
    BY <1>15 DEF Tell, store
  <2>2. Settled' = Settled /\ (mode = "bus" /\ Settled => teller.load = Snapshot)
    BY <2>1 DEF Settled, Told
  <2>3. PICK load \in Known : load = teller.load
    BY <1>5
  <2>4. load \in Int /\ page[p].snapshot \in Int
    BY <1>5, <2>3 DEF Pictures, Picture
  \* Whoever it is told to shows it, and the others show what they showed.
  <2>5. /\ Pictures' /\ \A q \in Pages : page'[q].snapshot \in Known
        /\ \A q \in Scope : (q = p \/ Shows(q, load)) => Shows(q, load)'
    <3>1. CASE ~conn[p].on
      <4>1. UNCHANGED <<page, history>> /\ p \notin Scope
        BY <1>15, <3>1 DEF Tell, Scope
      <4>2. \A q \in Scope : Shows(q, load) => Shows(q, load)'
        BY <1>2, <4>1 DEF Shows
      <4> QED
        BY <1>2, <1>8, <4>1, <4>2 DEF Loads
    <3>2. CASE conn[p].on
      <4>1. /\ page' = [page EXCEPT ![p].snapshot = load]
            /\ history' = [history EXCEPT !.behind = (@ \ {p}) \cup Overtaken(p, load)]
        BY <1>15, <2>3, <3>2 DEF Tell
      <4>2. page' \in [Pages -> Picture] /\ page'[p].snapshot = load
            /\ \A q \in Pages \ {p} : page'[q] = page[q]
        BY <2>4, <4>1 DEF Pictures, Picture
      <4>3. /\ history' \in [behind : SUBSET Pages, passed : [Pages -> SUBSET Nat], connects : Int]
            /\ history'.behind = (history.behind \ {p}) \cup Overtaken(p, load)
        BY <4>1 DEF Pictures, Overtaken
      <4>4. Shows(p, load)'
        <5>1. conn[p].pc \in {"idle", "loading", "loaded", "cached"} /\ conn[p].snapshot \in Int
          BY DEF SnapshotTypes, Subscription
        <5> QED
          BY <1>2, <2>4, <4>2, <5>1 DEF Shows
      <4>5. \A q \in Scope \ {p} : Shows(q, load) => Shows(q, load)'
        BY <1>2, <4>2, <4>3 DEF Shows, Scope
      <4> QED
        BY <4>2, <4>3, <4>4, <4>5 DEF Pictures, Loads
    <3> QED
      BY <3>1, <3>2
  <2>6. mode = "watch" \/ Settled => \A q \in Scope : q \in teller.to \/ Shows(q, load)
    BY <1>4, <2>1, <2>2, <2>3 DEF Told, Claimed
  <2>7. CASE teller.to = {p}
    <3>1. teller' = Rest
      BY <2>1, <2>7
    <3>2. mode = "watch" \/ Settled => \A q \in Scope' : Shows(q, load)'
      BY <1>3, <2>5, <2>6, <2>7
    <3>3. Loads'
      BY <1>1, <1>2, <1>3, <1>4, <1>5, <1>6, <2>5, <3>1 DEF Loads
    <3>4. mode = "watch" => teller'.load = load
      BY <1>6, <2>3, <3>1
    <3>5. mode = "bus" /\ Settled => Snapshot' = load
      BY <1>3, <2>2, <2>3
    <3>6. Told'
      BY <1>2, <1>6, <2>2, <3>1, <3>2, <3>4, <3>5 DEF Told, Claimed
    <3> QED
      BY <2>5, <3>3, <3>6
  <2>8. CASE teller.to # {p}
    <3>1. teller'.pc = "telling" /\ teller'.load = load /\ teller'.to = teller.to \ {p}
      BY <1>5, <2>1, <2>3, <2>8 DEF Teller
    <3>2. mode = "watch" \/ Settled => \A q \in Scope' : q \in teller'.to \/ Shows(q, load)'
      BY <1>3, <2>5, <2>6, <3>1
    <3>3. Loads'
      BY <1>1, <1>2, <1>3, <1>4, <1>5, <2>3, <2>5, <3>1 DEF Loads
    <3>4. mode = "bus" /\ Settled => Snapshot' = load
      BY <1>3, <2>2, <2>3
    <3>5. Told'
      BY <1>2, <2>2, <3>1, <3>2, <3>4 DEF Told, Claimed
    <3> QED
      BY <2>5, <3>3, <3>5
  <2> QED
    BY <2>7, <2>8
<1> QED
  BY <1>10, <1>11, <1>12, <1>13, <1>14, <1>15

\* No step but the store's changes the table.
LEMMA HandlersKeepTable ==
    ASSUME TableTypes, UNCHANGED rows, UNCHANGED bus \/ Hear
    PROVE  TableTypes'
BY ElementsHeard DEF TableTypes, Hear

LEMMA PagesInit == HubInit => PagesInv
<1> SUFFICES ASSUME HubInit PROVE PagesInv
  OBVIOUS
<1>1. TableTypes
  BY DEF HubInit, Init, TableTypes
<1>2. Snapshot \in Nat /\ Known = None..Snapshot /\ None \in Known
  BY <1>1, Table DEF Known, None
<1>3. WatchInv
  BY WatchInit
<1>4. Pictures
  BY DEF HubInit, Pictures, Picture, Blank, None
<1>5. Loads
  BY <1>2 DEF HubInit, Loads, Gone, Blank, Quiet
<1>6. Told
  BY DEF HubInit, Told, Claimed, Scope, Gone, Quiet
<1> QED
  BY <1>1, <1>3, <1>4, <1>5, <1>6 DEF PagesInv, ScopeInv, WatchInv, HubInit

LEMMA PagesStep == PagesInv /\ [HubNext]_vars => PagesInv'
<1> SUFFICES ASSUME PagesInv, [HubNext]_vars PROVE PagesInv'
  OBVIOUS
<1>1. WatchInv'
  BY WatchStep DEF PagesInv
<1>2. mode \in {"bus", "watch"} /\ kind \in {"snapshot", "log"} /\ TableTypes /\ WatchInv
  BY DEF PagesInv, WatchInv
<1>3. CASE UNCHANGED vars
  <2>1. UNCHANGED <<rows, unannounced, bus, listening, unheard, mode, kind, conn, page, last, teller, tail, history>>
    BY <1>3 DEF vars, store, hubVars
  <2>2. TableTypes' /\ Snapshot' = Snapshot /\ Settled' = Settled
    BY <1>2, <2>1 DEF TableTypes, Snapshot, Visible, RowIds, Settled
  <2> QED
    BY <1>1, <2>1, <2>2 DEF PagesInv, ScopeInv, SnapshotTypes, Pictures, Loads, Known, Told, Claimed,
                            Scope, Shows, WatchInv
<1>4. CASE StoreStep
  <2>1. StoreMoves /\ UNCHANGED hubVars
    BY <1>2, <1>4, TableMoves
  <2>2. UNCHANGED <<mode, kind, conn, page, teller, tail, history>> /\ TableTypes'
    BY <2>1 DEF hubVars, StoreMoves
  <2>3. Snapshot' \in Nat /\ Snapshot \in Nat /\ Snapshot <= Snapshot' /\ (Settled' => Settled /\ Snapshot' = Snapshot)
    BY <1>2, <2>1, SnapshotGrows, Table DEF StoreMoves
  <2>4. ASSUME kind = "snapshot" PROVE ScopeInv'
    <3>1. ScopeInv /\ SnapshotTypes'
      BY <1>1, <2>2, <2>4 DEF PagesInv, WatchInv
    <3>2. Pictures'
      BY <2>2, <3>1 DEF ScopeInv, Pictures
    <3>3. Loads'
      <4>1. \A n \in Known : n \in Known'
        BY <2>3 DEF Known, None
      <4> QED
        BY <2>2, <3>1, <4>1 DEF ScopeInv, Loads
    <3>4. Told'
      BY <2>2, <2>3, <3>1 DEF ScopeInv, Told, Claimed, Scope, Shows
    <3> QED
      BY <3>1, <3>2, <3>3, <3>4 DEF ScopeInv
  <2> QED
    BY <1>1, <2>2, <2>4 DEF PagesInv
<1>5. CASE \E p \in Pages : Subscribe(p) \/ LoadSnapshot(p) \/ CacheSnapshot(p) \/ SendSnapshot(p)
  <2>1. kind = "snapshot" /\ UNCHANGED <<rows, bus, kind, tail>>
    BY <1>5 DEF Subscribe, LoadSnapshot, CacheSnapshot, SendSnapshot, store
  <2>2. ScopeInv /\ SnapshotTypes'
    BY <1>1, <2>1 DEF PagesInv, WatchInv
  <2>3. ScopeInv'
    BY <1>2, <1>5, <2>1, <2>2, PageStepKeeps
  <2> QED
    BY <1>1, <1>2, <2>1, <2>3, HandlersKeepTable DEF PagesInv
<1>6. ASSUME NEW p \in Pages, Disconnect(p) PROVE PagesInv'
  <2>1. UNCHANGED <<rows, bus, kind, teller>> /\ TableTypes'
    BY <1>2, <1>6, HandlersKeepTable DEF Disconnect, store
  <2>2. ASSUME kind = "snapshot" PROVE ScopeInv'
    <3>1. ScopeInv /\ SnapshotTypes'
      BY <1>1, <2>1, <2>2 DEF PagesInv, WatchInv
    <3> QED
      BY <1>2, <1>6, <2>2, <3>1, PageStepKeeps
  <2>3. kind = "snapshot" => tail' = [q \in Pages |-> Stopped]
    BY <1>6 DEF Disconnect, PagesInv
  <2> QED
    BY <1>1, <2>1, <2>2, <2>3 DEF PagesInv
<1>7. CASE \/ StartRefresh \/ StartPoll \/ TellerLoads \/ TellerCompares \/ TellerFails
           \/ \E p \in Pages : Tell(p)
  <2>1. kind = "snapshot"
    BY <1>2, <1>7 DEF StartRefresh, StartPoll, TellerLoads, TellerCompares, TellerFails, Tell, PagesInv, Quiet
  <2>2. UNCHANGED <<rows, kind, tail>> /\ (UNCHANGED bus \/ Hear)
    BY <1>7 DEF StartRefresh, StartPoll, TellerLoads, TellerCompares, TellerFails, Tell, store, hubButTeller, Hear
  <2>3. ScopeInv /\ SnapshotTypes'
    BY <1>1, <2>1, <2>2 DEF PagesInv, WatchInv
  <2>4. ScopeInv'
    BY <1>2, <1>7, <2>1, <2>3, TellerStepKeeps
  <2> QED
    BY <1>1, <1>2, <2>1, <2>2, <2>4, HandlersKeepTable DEF PagesInv
<1>8. CASE LogStep
  <2>1. UNCHANGED <<rows, kind, teller>> /\ (UNCHANGED bus \/ Hear)
    BY <1>8 DEF LogStep, SubscribeLogs, LoadLogs, SendLogs, WatchLogs, SendTail, ForwardEvent, store, Hear
  <2>2. kind = "log"
    <3>1. kind = "snapshot" => \A p \in Pages : tail[p].pc = "off"
      BY DEF PagesInv, Stopped
    <3> QED
      BY <1>2, <1>8, <3>1 DEF LogStep, SubscribeLogs, LoadLogs, SendLogs, WatchLogs, SendTail, ForwardEvent
  <2> QED
    BY <1>1, <1>2, <2>1, <2>2, HandlersKeepTable DEF PagesInv
<1> QED
  BY <1>3, <1>4, <1>5, <1>6, <1>7, <1>8 DEF HubNext, SnapshotStep

\* Every page that waits for nothing shows the current snapshot once the bus has
\* said everything, and without the bus what the watcher loaded last, unless it is
\* left behind: for every set of pages, every table and every order of the loads,
\* the refreshes and the messages (subscribe, handle_event_bus_payload, _watch_scope,
\* _broadcast).
THEOREM PagesStayCurrent == HubSpec => []PagesAreCurrent
<1>1. PagesInv => PagesAreCurrent
  <2> SUFFICES ASSUME PagesInv, NEW p \in Scope, conn[p].pc = "idle", p \notin history.behind
               PROVE  /\ mode = "bus" /\ Settled /\ teller.pc = "off" => kind = "log" \/ page[p].snapshot = Snapshot
                      /\ mode = "watch" /\ teller.pc = "waiting" /\ teller.load # None =>
                            page[p].snapshot >= teller.load
    BY DEF PagesAreCurrent
  <2>1. CASE kind = "log"
    BY <2>1 DEF PagesInv, Quiet
  <2>2. CASE kind = "snapshot"
    <3>1. ScopeInv /\ Snapshot \in Nat /\ p \in Pages
      BY <2>2, Table DEF PagesInv, Scope
    <3>2. page[p].snapshot \in Int /\ page[p].snapshot <= Snapshot
      BY <3>1 DEF ScopeInv, Loads, Known, None
    <3>3. \A n : Shows(p, n) => page[p].snapshot >= n
      BY DEF Shows
    <3> QED
      BY <3>1, <3>2, <3>3 DEF ScopeInv, Told, Claimed, Loads
  <2> QED
    BY <2>1, <2>2 DEF PagesInv, WatchInv
<1> QED
  BY <1>1, PagesInit, PagesStep, PTL DEF HubSpec

-----------------------------------------------------------------------------
(* What a load of the log finds. *)

\* A set of numbers has a least member, a bounded one a greatest.
LEMMA LeastExists ==
    ASSUME NEW S, S \subseteq Nat, S # {}
    PROVE  \E m \in S : \A k \in S : m <= k
<1>1. \E m \in S : \A k \in S : ~(<<k, m>> \in OpToRel(<, Nat))
  BY NatLessThanWellFounded, WFMin
<1>2. \A k \in S, m \in S : <<k, m>> \in OpToRel(<, Nat) <=> k < m
  BY DEF OpToRel
<1>3. \A k \in S, m \in S : ~(k < m) => m <= k
  OBVIOUS
<1> QED
  BY <1>1, <1>2, <1>3

LEMMA GreatestExists ==
    ASSUME NEW n \in Nat, NEW S, S \subseteq 0..n, S # {}
    PROVE  \E m \in S : \A k \in S : k <= m
<1> DEFINE D == {n - k : k \in S}
<1>1. \A k \in S : k \in 0..n
  OBVIOUS
<1>2. \A k \in S : n - k \in Nat
  BY <1>1
<1>3. D \subseteq Nat /\ D # {}
  BY <1>2
<1>4. PICK d \in D : \A e \in D : d <= e
  BY <1>3, LeastExists
<1>5. PICK m \in S : d = n - m
  OBVIOUS
<1>6. \A k \in S : n - m <= n - k
  BY <1>4, <1>5
<1>7. \A k \in S : k <= m
  <2> SUFFICES ASSUME NEW k \in S PROVE k <= m
    OBVIOUS
  <2>1. n - m <= n - k /\ k \in Int /\ m \in Int
    BY <1>6, <1>1
  <2> QED
    BY <2>1
<1> QED
  BY <1>7

LEMMA MaxOf ==
    ASSUME NEW n \in Nat, NEW S, S \subseteq 0..n, S # {}
    PROVE  Max(S) \in S /\ \A k \in S : k <= Max(S)
<1>1. \E m \in S : \A k \in S : m >= k
  BY GreatestExists
<1> QED
  BY <1>1 DEF Max

LogLoad == [items : SUBSET Nat, next : Nat, reset : BOOLEAN]

\* The rows a limit keeps are the first ones: who is below one of them is kept.
LEMMA LowestIsPrefix ==
    ASSUME NEW S, IsFiniteSet(S), S \subseteq Nat, NEW n \in Nat,
           NEW i \in S, NEW k \in Lowest(S, n), i <= k
    PROVE  i \in Lowest(S, n)
<1> DEFINE below(m) == {j \in S : j < m}
<1>1. k \in S /\ Cardinality(below(k)) < n
  BY DEF Lowest
<1>2. below(i) \subseteq below(k)
  <2>1. i \in Nat /\ k \in Nat /\ \A j \in S : j \in Nat
    BY <1>1
  <2>2. \A j \in S : j < i => j < k
    BY <2>1
  <2> QED
    BY <2>2
<1>3. IsFiniteSet(below(k))
  BY FS_Subset
<1>4. /\ IsFiniteSet(below(i)) /\ Cardinality(below(i)) <= Cardinality(below(k))
      /\ Cardinality(below(i)) \in Nat /\ Cardinality(below(k)) \in Nat
  <2>1. IsFiniteSet(below(i)) /\ Cardinality(below(i)) <= Cardinality(below(k))
    BY <1>2, <1>3, FS_Subset
  <2> QED
    BY <1>3, <2>1, FS_CardinalityType
<1>5. Cardinality(below(i)) < n
  BY <1>1, <1>4
<1> QED
  BY <1>5 DEF Lowest

LEMMA LoadFacts ==
    ASSUME TableTypes, NEW after \in 0..Len(rows)
    PROVE  /\ LoadAfter(after) \in LogLoad /\ LoadAfter(after).items \subseteq Visible
           /\ LoadAfter(after).next \in 0..Len(rows)
<1> DEFINE load == LoadAfter(after)
<1>1. RowIds = 1..Len(rows) /\ Len(rows) \in Nat /\ Visible \subseteq RowIds
  BY Table
<1>6. RowIds \subseteq 0..Len(rows) /\ RowIds \subseteq Nat
  BY <1>1
<1>2. load.items \subseteq Visible
  BY DEF LoadAfter, Lowest, Highest
<1>3. load.next = (IF load.items = {} THEN after ELSE Max(load.items)) /\ load.reset \in BOOLEAN
      /\ load = [items |-> load.items, next |-> load.next, reset |-> load.reset]
  BY DEF LoadAfter
<1>4. load.next \in 0..Len(rows)
  <2>1. CASE load.items = {}
    BY <1>3, <2>1
  <2>2. CASE load.items # {}
    <3>1. load.items \subseteq 0..Len(rows)
      BY <1>1, <1>2, <1>6, Zenon
    <3>2. Max(load.items) \in load.items
      BY <1>1, <2>2, <3>1, MaxOf
    <3> QED
      BY <1>3, <2>2, <3>1, <3>2
  <2> QED
    BY <2>1, <2>2
<1>5. load.items \subseteq Nat /\ load.next \in Nat
  <2>1. load.items \subseteq Nat
    BY <1>1, <1>2, <1>6, Zenon
  <2>2. load.next \in Nat
    BY <1>1, <1>4
  <2> QED
    BY <2>1, <2>2
<1> QED
  BY <1>2, <1>3, <1>4, <1>5 DEF LogLoad

\* What is at or below the cursor of a load is in it, on the page, or passed over.
LEMMA LoadPasses ==
    ASSUME TableTypes, HubAssumption, NEW p, NEW after \in 0..Len(rows), NEW i \in Live,
           i <= LoadAfter(after).next
    PROVE  i \in LoadAfter(after).items \cup page[p].items \cup PassedOver(p, after, LoadAfter(after))
<1> DEFINE load == LoadAfter(after)
           S == {j \in Visible : j > after}
<1>1. RowIds = 1..Len(rows) /\ Len(rows) \in Nat /\ Visible \subseteq RowIds /\ i \in RowIds
      /\ IsFiniteSet(Visible)
  BY Table
<1>2. rows[i] \in {"open", "committed"}
  BY <1>1 DEF TableTypes, RowStates, Live
<1>3. CASE i <= after \/ after = 0 \/ rows[i] = "open"
  BY <1>1, <1>3 DEF PassedOver
<1>4. CASE i > after /\ after # 0 /\ rows[i] = "committed"
  <2>1. i \in S /\ IsFiniteSet(S) /\ S \subseteq Nat
    <3>1. IsFiniteSet(S)
      BY <1>1, FS_Subset
    <3> QED
      BY <1>1, <1>4, <3>1 DEF Visible
  <2>2. load.items = Lowest(S, UpdateLimit) /\ load.next = IF load.items = {} THEN after ELSE Max(load.items)
    BY <1>4 DEF LoadAfter
  <2>3. load.items # {}
    BY <1>1, <1>4, <2>2
  <2>4. load.items \subseteq 0..Len(rows)
    <3>1. RowIds \subseteq 0..Len(rows)
      BY <1>1
    <3>2. load.items \subseteq Visible
      BY LoadFacts
    <3> QED
      BY <1>1, <3>1, <3>2, Zenon
  <2>5. load.next \in load.items
    BY <1>1, <2>2, <2>3, <2>4, MaxOf
  <2>6. UpdateLimit \in Nat
    BY DEF HubAssumption
  <2>7. i \in load.items
    BY <2>1, <2>2, <2>5, <2>6, LowestIsPrefix
  <2> QED
    BY <2>7
<1> QED
  BY <1>1, <1>2, <1>3, <1>4

-----------------------------------------------------------------------------
(* What the pages of a log show. *)

LogConnection == [on : BOOLEAN, pc : {"idle", "loading", "loaded"}, starts : BOOLEAN,
                  after : Nat, load : LogLoad, snapshot : Int]

LogTail == [pc : {"off", "waiting", "loaded"}, after : Nat, load : LogLoad]

LogTypes == conn \in [Pages -> LogConnection] /\ tail \in [Pages -> LogTail] /\ Pictures

\* What a page shows, is about to show, or has passed over.
Holding(p) ==
    page[p].items \cup history.passed[p] \cup (IF conn[p].pc = "loaded" THEN conn[p].load.items ELSE {})

Cursors(p) ==
    /\ page[p].cursor \in 0..Len(rows)
    /\ tail[p].after \in 0..Len(rows) /\ tail[p].load.next \in 0..Len(rows)
    /\ conn[p].after \in 0..Len(rows) /\ conn[p].load.next \in 0..Len(rows)
    /\ conn[p].pc # "idle" => conn[p].on

\* Between the first load and a loss of the page nothing heard is missing; a watcher's
\* cursor leaves nothing below it that the page does not hold, except what the first
\* load is still to find.
Caught(p) ==
    /\ mode = "bus" /\ conn[p].on /\ conn[p].pc # "loading" => Visible \subseteq Holding(p) \cup Pending
    /\ tail[p].pc = "waiting" =>
          {i \in Live : i <= tail[p].after /\ (conn[p].pc = "loading" => i > conn[p].after)} \subseteq Holding(p)
    /\ tail[p].pc = "loaded" =>
          {i \in Live : i <= tail[p].load.next} \subseteq
              tail[p].load.items \cup page[p].items \cup history.passed[p]

LogsKept == LogTypes /\ \A p \in Pages : Cursors(p) /\ Caught(p)

LogsInv == PagesInv /\ Elements(bus) \subseteq RowIds /\ (kind = "log" => LogsKept)

\* A page that a step leaves alone.
LEMMA LogUntouched ==
    ASSUME NEW p, Cursors(p), Caught(p), UNCHANGED <<rows, mode>>, Pending \subseteq Pending',
           conn'[p] = conn[p], page'[p] = page[p], tail'[p] = tail[p],
           history'.passed[p] = history.passed[p]
    PROVE  Cursors(p)' /\ Caught(p)'
<1>1. Visible' = Visible /\ Live' = Live /\ Holding(p)' = Holding(p)
  BY DEF Visible, Live, RowIds, Holding
<1>2. Cursors(p)'
  BY DEF Cursors
<1>3. Caught(p)'
  BY <1>1 DEF Caught
<1> QED
  BY <1>2, <1>3

\* Rows that end or appear are to be heard of, and are beyond every cursor.
LEMMA LogKeepsUp ==
    ASSUME NEW p, TableTypes, Cursors(p), Caught(p), StoreMoves,
           UNCHANGED <<mode, conn, page, tail, history>>
    PROVE  Cursors(p)' /\ Caught(p)'
<1>1. /\ Len(rows) <= Len(rows') /\ Len(rows) \in Nat /\ Len(rows') \in Nat
      /\ \A i \in Live' : i \in Live \/ i > Len(rows)
      /\ Visible' \subseteq Visible \cup Pending' /\ Pending \subseteq Pending'
  BY DEF StoreMoves, TableTypes
<1>2. Holding(p)' = Holding(p)
  BY DEF Holding
<1>3. Cursors(p)'
  BY <1>1 DEF Cursors
<1>4. \A i \in Live' : \/ i \in Live
                       \/ ~(i <= tail[p].after) /\ ~(i <= tail[p].load.next)
  <2> SUFFICES ASSUME NEW i \in Live', i > Len(rows)
               PROVE  ~(i <= tail[p].after) /\ ~(i <= tail[p].load.next)
    BY <1>1
  <2>1. i \in Nat
    BY DEF Live, RowIds, StoreMoves, TableTypes
  <2> QED
    BY <1>1, <2>1 DEF Cursors
<1>5. Caught(p)'
  BY <1>1, <1>2, <1>4 DEF Caught
<1> QED
  BY <1>3, <1>5

LEMMA HeardAreRows ==
    ASSUME TableTypes, StoreStep, Elements(bus) \subseteq RowIds
    PROVE  Elements(bus') \subseteq RowIds'
<1>1. RowIds \subseteq RowIds'
  BY TableMoves DEF StoreMoves
<1>2. \/ bus' = bus \/ bus' = <<>> \/ \E i \in RowIds : bus' = Append(bus, i)
  BY DEF StoreStep, Open, Commit, Abandon, Announce, LoseBus, Rejoin
<1>3. Elements(<<>>) = {}
  BY DEF Elements
<1>4. \A i \in RowIds : Elements(Append(bus, i)) = Elements(bus) \cup {i}
  BY ElementsAppended DEF TableTypes, RowIds
<1> QED
  BY <1>1, <1>2, <1>3, <1>4

LEMMA ShownFacts ==
    ASSUME Pictures, NEW p \in Pages, NEW load \in LogLoad
    PROVE  /\ Shown(p, load) \in Picture /\ load.items \subseteq Shown(p, load).items
           /\ Shown(p, load).cursor \in {page[p].cursor, load.next}
           /\ ~load.reset => Shown(p, load).items = page[p].items \cup load.items
<1> DEFINE items  == (IF load.reset THEN {} ELSE page[p].items) \cup load.items
           cursor == IF load.next > 0 THEN load.next ELSE page[p].cursor
<1>1. /\ page[p] \in Picture /\ load.items \subseteq Nat /\ load.next \in Nat
      /\ page[p].items \subseteq Nat /\ page[p].cursor \in Nat
  BY DEF Pictures, Picture, LogLoad
<1>2. items \subseteq Nat /\ cursor \in Nat
  BY <1>1
<1>3. Shown(p, load) = [page[p] EXCEPT !.items = items, !.cursor = cursor]
  BY <1>1 DEF Shown, Picture
<1> HIDE DEF items, cursor
<1>4. Shown(p, load) \in Picture /\ Shown(p, load).items = items /\ Shown(p, load).cursor = cursor
  BY <1>1, <1>2, <1>3 DEF Picture
<1> USE DEF items, cursor
<1> QED
  BY <1>4

\* A load that is shown loses nothing: what a reset erases is passed over.
LEMMA ShowFacts ==
    ASSUME Pictures, NEW p \in Pages, NEW load \in LogLoad, ShowLog(p, load)
    PROVE  /\ Pictures' /\ page'[p].cursor \in {page[p].cursor, load.next}
           /\ page[p].items \cup history.passed[p] \cup load.items \subseteq
                  page'[p].items \cup history'.passed[p]
           /\ \A q \in Pages \ {p} : page'[q] = page[q] /\ history'.passed[q] = history.passed[q]
<1> DEFINE lost == page[p].items \ Shown(p, load).items
<1>1. /\ Shown(p, load) \in Picture /\ load.items \subseteq Shown(p, load).items
      /\ Shown(p, load).cursor \in {page[p].cursor, load.next}
  BY ShownFacts
<1>2. page' = [page EXCEPT ![p] = Shown(p, load)] /\ history' = [history EXCEPT !.passed[p] = @ \cup lost]
  BY DEF ShowLog
<1>3. lost \subseteq Nat
  BY DEF Pictures, Picture
<1> HIDE DEF lost
<1>4. /\ page' \in [Pages -> Picture] /\ page'[p] = Shown(p, load)
      /\ \A q \in Pages \ {p} : page'[q] = page[q]
  BY <1>1, <1>2 DEF Pictures
<1>5. /\ history' \in [behind : SUBSET Pages, passed : [Pages -> SUBSET Nat], connects : Int]
      /\ history'.passed[p] = history.passed[p] \cup lost
      /\ \A q \in Pages \ {p} : history'.passed[q] = history.passed[q]
  BY <1>2, <1>3 DEF Pictures
<1> USE DEF lost
<1> QED
  BY <1>1, <1>4, <1>5 DEF Pictures

\* What a load passes over is remembered.
LEMMA PassFacts ==
    ASSUME Pictures, NEW p \in Pages, NEW S \in SUBSET Nat, history' = [history EXCEPT !.passed[p] = @ \cup S],
           UNCHANGED page
    PROVE  /\ Pictures' /\ history'.passed[p] = history.passed[p] \cup S
           /\ \A q \in Pages \ {p} : history'.passed[q] = history.passed[q]
BY DEF Pictures

\* A step of one page: the other pages are untouched.
LEMMA LogPageKeeps ==
    ASSUME LogsKept, TableTypes, HubAssumption, NEW p \in Pages, kind = "log",
           \/ SubscribeLogs(p) \/ LoadLogs(p) \/ SendLogs(p) \/ WatchLogs(p) \/ SendTail(p) \/ Disconnect(p)
    PROVE  LogsKept'
<1>1. UNCHANGED <<mode, kind, rows, bus, unannounced, unheard>>
  BY DEF SubscribeLogs, LoadLogs, SendLogs, WatchLogs, SendTail, Disconnect, store
<1>2. Visible' = Visible /\ Live' = Live /\ Pending' = Pending
  BY <1>1 DEF Visible, Live, RowIds, Pending, Elements
<1>3. /\ conn[p] \in LogConnection /\ tail[p] \in LogTail /\ page[p] \in Picture /\ LogTypes
      /\ history.passed[p] \subseteq Nat /\ Cursors(p) /\ Caught(p)
      /\ conn \in [Pages -> LogConnection] /\ tail \in [Pages -> LogTail] /\ Pictures
  BY DEF LogsKept, LogTypes, Pictures
<1>4. Len(rows) \in Nat /\ 0 \in 0..Len(rows) /\ RowIds = 1..Len(rows) /\ RowIds \subseteq Nat
  <2>1. Len(rows) \in Nat /\ RowIds = 1..Len(rows)
    BY Table
  <2> QED
    BY <2>1
<1>5. NoLoad \in LogLoad /\ NoLoad.next = 0 /\ Gone \in LogConnection /\ Stopped \in LogTail /\ None \in Int
  BY DEF NoLoad, LogLoad, Gone, LogConnection, Stopped, LogTail, None
<1>6. /\ Gone.pc = "idle" /\ ~Gone.on /\ Gone.after = 0 /\ Gone.load.next = 0
      /\ Stopped.pc = "off" /\ Stopped.after = 0 /\ Stopped.load.next = 0
  BY DEF Gone, Stopped, NoLoad
<1>7. ASSUME LogTypes', Cursors(p)', Caught(p)',
             \A q \in Pages \ {p} : /\ conn'[q] = conn[q] /\ page'[q] = page[q] /\ tail'[q] = tail[q]
                                    /\ history'.passed[q] = history.passed[q]
      PROVE  LogsKept'
  <2>1. \A q \in Pages \ {p} : Cursors(q)' /\ Caught(q)'
    BY <1>1, <1>2, <1>7, LogUntouched DEF LogsKept
  <2> QED
    BY <1>7, <2>1 DEF LogsKept
<1>8. CASE SubscribeLogs(p)
  <2>1. /\ conn' = [conn EXCEPT ![p] = [Gone EXCEPT !.on = TRUE, !.pc = "loading", !.after = page[p].cursor]]
        /\ tail' = [tail EXCEPT ![p] = IF mode = "watch"
                                   THEN [Stopped EXCEPT !.pc = "waiting", !.after = page[p].cursor]
                                   ELSE Stopped]
        /\ history' = [history EXCEPT !.connects = @ + 1] /\ UNCHANGED page
    BY <1>8 DEF SubscribeLogs, Attach
  <2>2. page[p].cursor \in Nat
    BY <1>3 DEF Picture
  <2>3. [Gone EXCEPT !.on = TRUE, !.pc = "loading", !.after = page[p].cursor] \in LogConnection
        /\ [Stopped EXCEPT !.pc = "waiting", !.after = page[p].cursor] \in LogTail
    BY <1>5, <2>2 DEF LogConnection, LogTail
  <2>4. conn' \in [Pages -> LogConnection] /\ tail' \in [Pages -> LogTail]
    BY <1>3, <1>5, <2>1, <2>3
  <2>5. Pictures' /\ history'.passed = history.passed
    BY <1>3, <2>1 DEF Pictures
  <2>6. /\ conn'[p].on /\ conn'[p].pc = "loading" /\ conn'[p].after = page[p].cursor /\ conn'[p].load.next = 0
        /\ tail'[p].pc # "loaded" /\ tail'[p].load.next = 0
        /\ tail'[p].pc = "waiting" => tail'[p].after = page[p].cursor
        /\ tail'[p].after \in {0, page[p].cursor}
    BY <1>3, <1>6, <2>1 DEF Gone, Stopped
  <2>7. Cursors(p)'
    BY <1>1, <1>3, <1>4, <2>1, <2>6 DEF Cursors
  <2>8. Caught(p)'
    <3>1. \A i \in Nat, c \in Nat : ~(i <= c /\ i > c)
      OBVIOUS
    <3>2. Live' \subseteq Nat
      BY <1>2, <1>4 DEF Live
    <3> QED
      BY <2>2, <2>6, <3>1, <3>2 DEF Caught
  <2> QED
    BY <1>7, <2>1, <2>4, <2>5, <2>7, <2>8 DEF LogTypes
<1>9. CASE LoadLogs(p)
  <2> DEFINE after == conn[p].after
             load  == LoadAfter(after)
             lost  == PassedOver(p, after, load) \cup BeyondLimit(p, load)
  <2>1. conn[p].pc = "loading" /\ conn' = [conn EXCEPT ![p].pc = "loaded", ![p].load = load]
        /\ history' = [history EXCEPT !.passed[p] = @ \cup lost] /\ UNCHANGED <<page, tail>>
    BY <1>9 DEF LoadLogs
  <2>2. after \in 0..Len(rows) /\ after \in Nat
    BY <1>3 DEF Cursors, LogConnection
  <2>3. load \in LogLoad /\ load.next \in 0..Len(rows)
    BY <2>2, LoadFacts
  <2>4. lost \subseteq Nat
    BY <1>4 DEF PassedOver, BeyondLimit, Visible
  <2>5. Visible \subseteq load.items \cup page[p].items \cup lost
    BY DEF BeyondLimit
  <2>6. \A i \in Live : i <= after => i \in load.items \cup page[p].items \cup lost
    BY DEF PassedOver, Live
  <2> HIDE DEF lost, load
  <2>7. Pictures' /\ history'.passed[p] = history.passed[p] \cup lost
        /\ \A q \in Pages \ {p} : history'.passed[q] = history.passed[q]
    BY <1>3, <2>1, <2>4, PassFacts
  <2>8. /\ conn' \in [Pages -> LogConnection] /\ \A q \in Pages \ {p} : conn'[q] = conn[q]
        /\ conn'[p].pc = "loaded" /\ conn'[p].load = load /\ conn'[p].on = conn[p].on
        /\ conn'[p].after = after
    BY <1>3, <2>1, <2>3 DEF LogConnection
  <2>9. Cursors(p)'
    BY <1>1, <1>3, <2>1, <2>2, <2>3, <2>8 DEF Cursors
  <2>10. Holding(p)' = page[p].items \cup history.passed[p] \cup lost \cup load.items
    BY <2>1, <2>7, <2>8 DEF Holding
  <2>11. Holding(p) = page[p].items \cup history.passed[p]
    BY <2>1 DEF Holding
  <2>12. \A i \in Live : i \in Nat
    BY <1>4 DEF Live
  <2>13. \A i \in Live : i <= after \/ i > after
    BY <2>2, <2>12
  <2>14. Caught(p)'
    BY <1>1, <1>2, <1>3, <2>1, <2>5, <2>6, <2>7, <2>8, <2>10, <2>11, <2>13 DEF Caught
  <2> QED
    BY <1>3, <1>7, <2>1, <2>7, <2>8, <2>9, <2>14 DEF LogTypes
<1>10. CASE SendLogs(p)
  <2>1. conn[p].pc = "loaded" /\ ShowLog(p, conn[p].load) /\ UNCHANGED tail
        /\ conn' = [conn EXCEPT ![p] = [Gone EXCEPT !.on = TRUE]]
    BY <1>10 DEF SendLogs
  <2>2. conn[p].load \in LogLoad
    BY <1>3 DEF LogConnection
  <2>3. /\ Pictures' /\ page'[p].cursor \in {page[p].cursor, conn[p].load.next}
        /\ page[p].items \cup history.passed[p] \cup conn[p].load.items \subseteq
               page'[p].items \cup history'.passed[p]
        /\ \A q \in Pages \ {p} : page'[q] = page[q] /\ history'.passed[q] = history.passed[q]
    BY <1>3, <2>1, <2>2, ShowFacts
  <2>4. [Gone EXCEPT !.on = TRUE] \in LogConnection
    BY <1>5 DEF LogConnection
  <2>5. /\ conn' \in [Pages -> LogConnection] /\ \A q \in Pages \ {p} : conn'[q] = conn[q]
        /\ conn'[p].pc = "idle" /\ conn'[p].after = 0 /\ conn'[p].load.next = 0
    BY <1>3, <1>6, <2>1, <2>4 DEF Gone
  <2>6. Cursors(p)'
    BY <1>1, <1>3, <1>4, <2>1, <2>3, <2>5 DEF Cursors
  <2>7. Holding(p) \subseteq Holding(p)' /\ conn[p].on
    BY <1>3, <2>1, <2>3 DEF Holding, Cursors
  <2>8. Caught(p)'
    BY <1>1, <1>2, <1>3, <2>1, <2>3, <2>5, <2>7 DEF Caught
  <2> QED
    BY <1>3, <1>7, <2>1, <2>3, <2>5, <2>6, <2>8 DEF LogTypes
<1>11. CASE WatchLogs(p)
  <2> DEFINE after == tail[p].after
             load  == LoadAfter(after)
             lost  == PassedOver(p, after, load)
  <2>1. tail[p].pc = "waiting" /\ tail' = [tail EXCEPT ![p].pc = "loaded", ![p].load = load]
        /\ history' = [history EXCEPT !.passed[p] = @ \cup lost] /\ UNCHANGED <<page, conn>>
    BY <1>11 DEF WatchLogs
  <2>2. after \in 0..Len(rows)
    BY <1>3 DEF Cursors
  <2>3. load \in LogLoad /\ load.next \in 0..Len(rows)
    BY <2>2, LoadFacts
  <2>4. lost \subseteq Nat
    BY <1>4 DEF PassedOver
  <2>5. \A i \in Live : i <= load.next => i \in load.items \cup page[p].items \cup lost
    BY <2>2, LoadPasses
  <2> HIDE DEF lost, load
  <2>6. Pictures' /\ history'.passed[p] = history.passed[p] \cup lost
        /\ \A q \in Pages \ {p} : history'.passed[q] = history.passed[q]
    BY <1>3, <2>1, <2>4, PassFacts
  <2>7. /\ tail' \in [Pages -> LogTail] /\ \A q \in Pages \ {p} : tail'[q] = tail[q]
        /\ tail'[p].pc = "loaded" /\ tail'[p].load = load /\ tail'[p].after = after
    BY <1>3, <2>1, <2>3 DEF LogTail
  <2>8. Cursors(p)'
    BY <1>1, <1>3, <2>1, <2>2, <2>3, <2>7 DEF Cursors
  <2>9. Holding(p) \subseteq Holding(p)'
    BY <2>1, <2>6 DEF Holding
  <2>10. Caught(p)'
    BY <1>1, <1>2, <1>3, <2>1, <2>5, <2>6, <2>7, <2>9 DEF Caught
  <2> QED
    BY <1>3, <1>7, <2>1, <2>6, <2>7, <2>8, <2>10 DEF LogTypes
<1>12. CASE SendTail(p)
  <2> DEFINE load == tail[p].load
             news == [load EXCEPT !.reset = FALSE]
  <2>1. tail[p].pc = "loaded" /\ UNCHANGED conn
        /\ tail' = [tail EXCEPT ![p] = [Stopped EXCEPT !.pc = "waiting", !.after = load.next]]
        /\ IF load.items = {} THEN UNCHANGED <<page, history>> ELSE ShowLog(p, news)
    BY <1>12 DEF SendTail
  <2>2. load \in LogLoad /\ load.next \in Nat
    BY <1>3 DEF LogTail, LogLoad
  <2>3. news \in LogLoad /\ news.items = load.items /\ news.next = load.next
    BY <2>2 DEF LogLoad
  <2> HIDE DEF news
  <2>4. /\ Pictures' /\ page'[p].cursor \in {page[p].cursor, load.next}
        /\ page[p].items \cup history.passed[p] \cup load.items \subseteq
               page'[p].items \cup history'.passed[p]
        /\ \A q \in Pages \ {p} : page'[q] = page[q] /\ history'.passed[q] = history.passed[q]
    <3>1. CASE load.items = {}
      BY <1>3, <2>1, <3>1 DEF Pictures
    <3>2. CASE load.items # {}
      BY <1>3, <2>1, <2>3, <3>2, ShowFacts
    <3> QED
      BY <3>1, <3>2
  <2>5. [Stopped EXCEPT !.pc = "waiting", !.after = load.next] \in LogTail
    BY <1>5, <2>2 DEF LogTail
  <2>6. /\ tail' \in [Pages -> LogTail] /\ \A q \in Pages \ {p} : tail'[q] = tail[q]
        /\ tail'[p].pc = "waiting" /\ tail'[p].after = load.next /\ tail'[p].load.next = 0
    BY <1>3, <1>6, <2>1, <2>5 DEF Stopped
  <2>7. Cursors(p)'
    BY <1>1, <1>3, <1>4, <2>1, <2>4, <2>6 DEF Cursors
  <2>8. Holding(p) \subseteq Holding(p)'
    BY <2>1, <2>4 DEF Holding
  <2>9. load.items \cup page[p].items \cup history.passed[p] \subseteq Holding(p)'
    BY <2>4 DEF Holding
  <2>10. Caught(p)'
    BY <1>1, <1>2, <1>3, <2>1, <2>6, <2>8, <2>9 DEF Caught
  <2> QED
    BY <1>3, <1>7, <2>1, <2>4, <2>6, <2>7, <2>10 DEF LogTypes
<1>13. CASE Disconnect(p)
  <2>1. conn' = [conn EXCEPT ![p] = Gone] /\ tail' = [tail EXCEPT ![p] = Stopped]
        /\ page' = [page EXCEPT ![p].snapshot = None]
        /\ history' = [history EXCEPT !.behind = @ \ {p}]
    BY <1>13 DEF Disconnect
  <2>2. /\ conn' \in [Pages -> LogConnection] /\ tail' \in [Pages -> LogTail]
        /\ conn'[p] = Gone /\ tail'[p] = Stopped
        /\ \A q \in Pages \ {p} : conn'[q] = conn[q] /\ tail'[q] = tail[q]
    BY <1>3, <1>5, <2>1
  <2>3. /\ page' \in [Pages -> Picture] /\ page'[p].cursor = page[p].cursor
        /\ \A q \in Pages \ {p} : page'[q] = page[q]
    BY <1>3, <1>5, <2>1 DEF Pictures, Picture
  <2>4. history' \in [behind : SUBSET Pages, passed : [Pages -> SUBSET Nat], connects : Int]
        /\ history'.passed = history.passed
    BY <1>3, <2>1 DEF Pictures
  <2>5. Cursors(p)'
    BY <1>1, <1>3, <1>4, <1>6, <2>2, <2>3 DEF Cursors
  <2>6. Caught(p)'
    BY <1>6, <2>2 DEF Caught
  <2> QED
    BY <1>7, <2>2, <2>3, <2>4, <2>5, <2>6 DEF LogTypes, Pictures
<1> QED
  BY <1>8, <1>9, <1>10, <1>11, <1>12, <1>13

\* A message reaches every page of the log.
LEMMA ForwardKeeps ==
    ASSUME LogsKept, TableTypes, Elements(bus) \subseteq RowIds, ForwardEvent
    PROVE  LogsKept'
<1> DEFINE id    == Head(bus)
           event == [items |-> {id}, next |-> id, reset |-> FALSE]
<1>1. /\ UNCHANGED <<mode, rows, unannounced, unheard, conn, tail, history>>
      /\ bus # <<>> /\ bus' = Tail(bus)
      /\ page' = [p \in Pages |-> IF conn[p].on THEN Shown(p, event) ELSE page[p]]
  BY DEF ForwardEvent, Hear
<1>2. /\ id \in Nat /\ Elements(bus) = {id} \cup Elements(bus')
  BY <1>1, ElementsHeard DEF TableTypes
<1>3. Visible' = Visible /\ Live' = Live /\ Pending \subseteq Pending' \cup {id}
  <2>1. Pending' = unheard \cup unannounced \cup Elements(bus')
    BY <1>1 DEF Pending, Elements
  <2> QED
    BY <1>1, <1>2, <2>1 DEF Visible, Live, RowIds, Pending
<1>4. RowIds = 1..Len(rows) /\ Len(rows) \in Nat /\ id \in 0..Len(rows)
  <2>1. RowIds = 1..Len(rows) /\ Len(rows) \in Nat /\ id \in RowIds
    BY <1>2, Table
  <2> QED
    BY <2>1
<1>5. event \in LogLoad /\ event.items = {id} /\ event.next = id /\ ~event.reset
  BY <1>2 DEF LogLoad
<1> HIDE DEF event, id
<1>6. ASSUME NEW p \in Pages
      PROVE  /\ page'[p] \in Picture /\ page'[p].cursor \in {page[p].cursor, id}
             /\ page[p].items \subseteq page'[p].items
             /\ conn[p].on => id \in page'[p].items
  <2>1. /\ Shown(p, event) \in Picture /\ Shown(p, event).cursor \in {page[p].cursor, id}
        /\ Shown(p, event).items = page[p].items \cup {id}
    BY <1>5, ShownFacts DEF LogsKept, LogTypes
  <2> QED
    BY <1>1, <2>1 DEF LogsKept, LogTypes, Pictures
<1>7. LogTypes'
  BY <1>1, <1>6 DEF LogsKept, LogTypes, Pictures
<1>8. ASSUME NEW p \in Pages PROVE Cursors(p)' /\ Caught(p)'
  <2>1. Cursors(p) /\ Caught(p)
    BY DEF LogsKept
  <2>2. Cursors(p)'
    BY <1>1, <1>4, <1>6, <2>1 DEF Cursors
  <2>3. Holding(p) \subseteq Holding(p)' /\ (conn[p].on => id \in Holding(p)')
    BY <1>1, <1>6 DEF Holding
  <2>4. Caught(p)'
    BY <1>1, <1>3, <1>6, <2>1, <2>3 DEF Caught
  <2> QED
    BY <2>2, <2>4
<1> QED
  BY <1>7, <1>8 DEF LogsKept

LEMMA LogsInit == HubInit => LogsInv
<1> SUFFICES ASSUME HubInit PROVE LogsInv
  OBVIOUS
<1>1. PagesInv
  BY PagesInit
<1>2. rows = <<>> /\ bus = <<>> /\ Len(rows) = 0 /\ 0 \in 0..Len(rows)
  BY DEF HubInit, Init
<1>3. NoLoad \in LogLoad /\ NoLoad.next = 0 /\ Gone \in LogConnection /\ Stopped \in LogTail
      /\ Blank \in Picture
  BY DEF NoLoad, LogLoad, Gone, LogConnection, Stopped, LogTail, None, Blank, Picture
<1>4. LogTypes
  BY <1>3 DEF HubInit, LogTypes, Pictures
<1>5. \A p \in Pages : Cursors(p) /\ Caught(p)
  BY <1>2, <1>3 DEF HubInit, Cursors, Caught, Gone, Stopped, Blank
<1> QED
  BY <1>1, <1>2, <1>4, <1>5 DEF LogsInv, LogsKept, Elements

LEMMA LogsStep == HubAssumption /\ LogsInv /\ [HubNext]_vars => LogsInv'
<1> SUFFICES ASSUME HubAssumption, LogsInv, [HubNext]_vars PROVE LogsInv'
  OBVIOUS
<1>1. PagesInv /\ PagesInv' /\ TableTypes /\ Elements(bus) \subseteq RowIds
      /\ kind \in {"snapshot", "log"} /\ (kind = "log" => LogsKept)
  BY PagesStep DEF LogsInv, PagesInv, WatchInv, LogsKept
<1>2. ASSUME UNCHANGED <<rows, kind>>, UNCHANGED bus \/ Hear, kind = "log" => LogsKept'
      PROVE  LogsInv'
  <2>1. bus' = bus \/ (bus # <<>> /\ bus' = Tail(bus))
    BY <1>2 DEF Hear
  <2>2. Elements(bus') \subseteq Elements(bus)
    BY <1>1, <2>1, ElementsHeard DEF TableTypes
  <2>3. Elements(bus)' = Elements(bus') /\ RowIds' = RowIds
    BY <1>2 DEF Elements, RowIds
  <2> QED
    BY <1>1, <1>2, <2>2, <2>3 DEF LogsInv, LogsKept
<1>3. CASE UNCHANGED vars
  <2>1. UNCHANGED <<rows, unannounced, bus, listening, unheard, mode, kind, conn, page, last, teller, tail, history>>
    BY <1>3 DEF vars, store, hubVars
  <2>2. Pending' = Pending
    BY <2>1 DEF Pending, Elements
  <2>3. kind = "log" => LogsKept'
    BY <1>1, <2>1, <2>2, LogUntouched DEF LogsKept, LogTypes, Pictures
  <2> QED
    BY <1>2, <2>1, <2>3
<1>4. CASE StoreStep
  <2>1. StoreMoves /\ UNCHANGED hubVars
    BY <1>1, <1>4, TableMoves
  <2>2. UNCHANGED <<mode, kind, conn, page, tail, history>>
    BY <2>1 DEF hubVars
  <2>3. Elements(bus') \subseteq RowIds' /\ Elements(bus)' = Elements(bus')
    BY <1>1, <1>4, HeardAreRows DEF Elements
  <2>4. kind = "log" => \A p \in Pages : Cursors(p)' /\ Caught(p)'
    BY <1>1, <2>1, <2>2, LogKeepsUp DEF LogsKept
  <2>5. kind = "log" => LogTypes'
    BY <1>1, <2>2 DEF LogsKept, LogTypes, Pictures
  <2> QED
    BY <1>1, <2>2, <2>3, <2>4, <2>5 DEF LogsInv, LogsKept
<1>5. CASE SnapshotStep
  <2>1. UNCHANGED <<rows, kind>> /\ (UNCHANGED bus \/ Hear)
    BY <1>5 DEF SnapshotStep, Subscribe, LoadSnapshot, CacheSnapshot, SendSnapshot, Tell, StartRefresh,
                StartPoll, TellerLoads, TellerCompares, TellerFails, store, hubButTeller, Hear
  <2>2. kind = "snapshot"
    <3>1. kind = "log" => teller.pc = "off"
      BY <1>1 DEF PagesInv, Quiet
    <3> QED
      BY <1>1, <1>5, <3>1 DEF SnapshotStep, Subscribe, LoadSnapshot, CacheSnapshot, SendSnapshot, Tell,
                              StartRefresh, StartPoll, TellerLoads, TellerCompares, TellerFails
  <2> QED
    BY <1>2, <2>1, <2>2
<1>6. ASSUME NEW p \in Pages,
             \/ SubscribeLogs(p) \/ LoadLogs(p) \/ SendLogs(p) \/ WatchLogs(p) \/ SendTail(p) \/ Disconnect(p)
      PROVE  LogsInv'
  <2>1. UNCHANGED <<rows, kind, bus>>
    BY <1>6 DEF SubscribeLogs, LoadLogs, SendLogs, WatchLogs, SendTail, Disconnect, store
  <2>2. kind = "log" => LogsKept'
    BY <1>1, <1>6, LogPageKeeps
  <2> QED
    BY <1>2, <2>1, <2>2
<1>7. CASE ForwardEvent
  <2>1. UNCHANGED <<rows, kind>> /\ Hear
    BY <1>7 DEF ForwardEvent, Hear
  <2>2. kind = "log" => LogsKept'
    BY <1>1, <1>7, ForwardKeeps
  <2> QED
    BY <1>2, <2>1, <2>2
<1> QED
  BY <1>3, <1>4, <1>5, <1>6, <1>7 DEF HubNext, LogStep

\* No heard event and no row below a watcher's cursor is missing from a page that
\* waits for nothing, except what its loads passed over: for every set of pages,
\* every pair of limits, every table and every order of commits, messages, loads
\* and reconnections (subscribe_logs, _broadcast_log_event, _watch_logs).
THEOREM LogStaysComplete == HubSpec => []LogIsComplete
<1>1. LogsInv => LogIsComplete
  <2> SUFFICES ASSUME LogsInv, NEW p \in Pages, conn[p].pc = "idle"
               PROVE  /\ mode = "bus" /\ kind = "log" /\ conn[p].on =>
                            Visible \subseteq page[p].items \cup history.passed[p] \cup unheard \cup unannounced
                                              \cup Elements(bus)
                      /\ tail[p].pc = "waiting" =>
                            {i \in Visible : i <= tail[p].after} \subseteq page[p].items \cup history.passed[p]
    BY DEF LogIsComplete
  <2>1. CASE kind = "log"
    <3>1. Caught(p) /\ Holding(p) = page[p].items \cup history.passed[p] /\ Visible \subseteq Live
      BY <2>1, Table DEF LogsInv, LogsKept, Holding, PagesInv
    <3> QED
      BY <3>1 DEF Caught, Pending
  <2>2. CASE kind = "snapshot"
    <3>1. tail[p].pc = "off"
      BY <2>2 DEF LogsInv, PagesInv, Stopped
    <3> QED
      BY <2>2, <3>1
  <2> QED
    BY <2>1, <2>2 DEF LogsInv, PagesInv, WatchInv
<1> QED
  BY <1>1, LogsInit, LogsStep, HubAssumption, PTL DEF HubSpec
=============================================================================

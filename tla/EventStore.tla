----------------------------- MODULE EventStore -----------------------------
(***************************************************************************)
(* What the processes that log task events promise to the readers of the   *)
(* task_events table and of the event bus: an id is given before its row   *)
(* is visible, rows become visible in any order or never, a visible row    *)
(* stays, and each is announced at most once, after it has become visible, *)
(* to whoever listens at that moment.                                      *)
(***************************************************************************)
EXTENDS Integers, Sequences, FiniteSets

VARIABLES
    rows,          \* the state of each row; its id is its index
    unannounced,   \* visible rows that are about to be published
    bus,           \* ids published and received, but not handled yet
    listening,     \* the subscriber is connected
    unheard        \* ids whose announcement nobody received

store == <<rows, unannounced, bus, listening, unheard>>

RowIds      == DOMAIN rows
Visible     == {i \in RowIds : rows[i] = "committed"}
Elements(s) == {s[i] : i \in DOMAIN s}

Init ==
    /\ rows = <<>> /\ unannounced = {} /\ bus = <<>> /\ unheard = {}
    /\ listening \in BOOLEAN

\* A transaction inserts rows.
Open(n) ==
    /\ rows' = rows \o [i \in 1..n |-> "open"]
    /\ UNCHANGED <<unannounced, bus, listening, unheard>>

\* It ends: its rows become visible together, or none of them.
Close(S, state) == rows' = [i \in RowIds |-> IF i \in S THEN state ELSE rows[i]]

Opened(S) == S # {} /\ \A i \in S : rows[i] = "open"

Commit(S) ==
    /\ Opened(S) /\ Close(S, "committed")
    /\ \/ unannounced' = unannounced \cup S /\ UNCHANGED unheard
       \/ unheard' = unheard \cup S /\ UNCHANGED unannounced
    /\ UNCHANGED <<bus, listening>>

\* Transactions fail, or their process dies: its announcements are lost too.
Abandon(S, silent) ==
    /\ \A i \in S : rows[i] = "open"
    /\ silent \subseteq unannounced
    /\ Close(S, "void")
    /\ unannounced' = unannounced \ silent
    /\ unheard' = unheard \cup silent
    /\ UNCHANGED <<bus, listening>>

Announce(i) ==
    /\ i \in unannounced /\ unannounced' = unannounced \ {i}
    /\ IF listening THEN bus' = Append(bus, i) /\ UNCHANGED unheard
       ELSE unheard' = unheard \cup {i} /\ UNCHANGED bus
    /\ UNCHANGED <<rows, listening>>

Hear ==
    /\ bus # <<>> /\ bus' = Tail(bus)
    /\ UNCHANGED <<rows, unannounced, listening, unheard>>

\* The subscriber loses its connection and what it had not handled.
LoseBus ==
    /\ listening' = FALSE /\ bus' = <<>>
    /\ unheard' = unheard \cup Elements(bus)
    /\ UNCHANGED <<rows, unannounced>>

Rejoin == listening' = TRUE /\ UNCHANGED <<rows, unannounced, bus, unheard>>

Next ==
    \/ \E n \in 1..(Len(rows') - Len(rows)) : Open(n)
    \/ \E S \in SUBSET RowIds : Commit(S)
    \/ \E S \in SUBSET RowIds, silent \in SUBSET unannounced : Abandon(S, silent)
    \/ \E i \in unannounced : Announce(i)
    \/ Hear \/ LoseBus \/ Rejoin

Spec == Init /\ [][Next]_store
=============================================================================

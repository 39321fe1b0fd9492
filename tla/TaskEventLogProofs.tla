-------------------------- MODULE TaskEventLogProofs -------------------------
(***************************************************************************)
(* What the task event log keeps for every number of events and threads,   *)
(* every size of the buffer and of a batch, and every number of faults:    *)
(* no event vanishes, the buffer stays in order while threads do not race, *)
(* and the readers of the table and of the bus see an EventStore.          *)
(***************************************************************************)
EXTENDS TaskEventLog, TLAPS

Injective(s) == \A i, j \in DOMAIN s : s[i] = s[j] => i = j
Ascending(s) == \A i, j \in DOMAIN s : i < j => s[i] < s[j]

-----------------------------------------------------------------------------
(* Sequences. *)

LEMMA Joined ==
    ASSUME NEW S, NEW s \in Seq(S), NEW r \in Seq(S)
    PROVE  /\ s \o r \in Seq(S) /\ Len(s \o r) = Len(s) + Len(r)
           /\ \A i \in 1..Len(s) : (s \o r)[i] = s[i]
           /\ \A i \in 1..Len(r) : (s \o r)[Len(s) + i] = r[i]
OBVIOUS

LEMMA Concatenation ==
    ASSUME NEW S, NEW s \in Seq(S), NEW r \in Seq(S)
    PROVE  /\ s \o r \in Seq(S)
           /\ Elements(s \o r) = Elements(s) \cup Elements(r)
           /\ Injective(s) /\ Injective(r) /\ Elements(s) \cap Elements(r) = {} => Injective(s \o r)
<1>1. /\ DOMAIN s = 1..Len(s) /\ DOMAIN r = 1..Len(r)
      /\ DOMAIN (s \o r) = 1..(Len(s) + Len(r))
      /\ Len(s) \in Nat /\ Len(r) \in Nat
  OBVIOUS
<1>2. \A i \in 1..Len(s) : (s \o r)[i] = s[i]
  OBVIOUS
<1>3. \A i \in (Len(s) + 1)..(Len(s) + Len(r)) : (s \o r)[i] = r[i - Len(s)] /\ i - Len(s) \in 1..Len(r)
  OBVIOUS
<1>4. \A i \in 1..Len(r) : (s \o r)[i + Len(s)] = r[i] /\ i + Len(s) \in DOMAIN (s \o r)
  BY <1>1
<1>5. Elements(s \o r) \subseteq Elements(s) \cup Elements(r)
  BY <1>1, <1>2, <1>3 DEF Elements
<1>6. Elements(s) \cup Elements(r) \subseteq Elements(s \o r)
  BY <1>1, <1>2, <1>4 DEF Elements
<1>7. ASSUME Injective(s), Injective(r), Elements(s) \cap Elements(r) = {} PROVE Injective(s \o r)
  <2> SUFFICES ASSUME NEW i \in DOMAIN (s \o r), NEW j \in DOMAIN (s \o r), (s \o r)[i] = (s \o r)[j]
               PROVE  i = j
    BY DEF Injective
  <2>1. CASE i <= Len(s) /\ j <= Len(s)
    BY <1>1, <1>2, <1>7, <2>1 DEF Injective
  <2>2. CASE i > Len(s) /\ j > Len(s)
    <3>1. r[i - Len(s)] = r[j - Len(s)] /\ i - Len(s) \in DOMAIN r /\ j - Len(s) \in DOMAIN r
      BY <1>1, <1>3, <2>2
    <3> QED
      BY <1>1, <1>7, <3>1 DEF Injective
  <2>3. ASSUME NEW k \in DOMAIN (s \o r), NEW l \in DOMAIN (s \o r), k <= Len(s), l > Len(s)
        PROVE  (s \o r)[k] # (s \o r)[l]
    <3>1. (s \o r)[k] \in Elements(s)
      BY <1>1, <1>2, <2>3 DEF Elements
    <3>2. (s \o r)[l] \in Elements(r)
      BY <1>1, <1>3, <2>3 DEF Elements
    <3> QED
      BY <1>7, <3>1, <3>2
  <2> QED
    BY <1>1, <2>1, <2>2, <2>3
<1> QED
  BY <1>5, <1>6, <1>7

LEMMA OneElement ==
    ASSUME NEW S, NEW e \in S
    PROVE  /\ <<e>> \in Seq(S) /\ Len(<<e>>) = 1 /\ <<e>> # <<>>
           /\ Elements(<<e>>) = {e} /\ Injective(<<e>>) /\ Ascending(<<e>>)
BY DEF Elements, Injective, Ascending

LEMMA NoElement ==
    /\ Elements(<<>>) = {} /\ Injective(<<>>) /\ Ascending(<<>>)
    /\ \A S : \A s \in Seq(S) : /\ Elements(s) = {} <=> s = <<>>
                                /\ Elements(s) \subseteq S
<1>1. Elements(<<>>) = {} /\ Injective(<<>>) /\ Ascending(<<>>)
  BY DEF Elements, Injective, Ascending
<1>2. ASSUME NEW S, NEW s \in Seq(S) PROVE (Elements(s) = {} <=> s = <<>>) /\ Elements(s) \subseteq S
  <2>1. s # <<>> => s[1] \in Elements(s)
    BY DEF Elements
  <2> QED
    BY <1>1, <2>1 DEF Elements
<1> QED
  BY <1>1, <1>2

LEMMA Appending ==
    ASSUME NEW S, NEW s \in Seq(S), NEW e \in S
    PROVE  /\ Append(s, e) \in Seq(S) /\ Append(s, e) # <<>>
           /\ Elements(Append(s, e)) = Elements(s) \cup {e}
           /\ Injective(s) /\ e \notin Elements(s) => Injective(Append(s, e))
<1>1. Append(s, e) = s \o <<e>> /\ Append(s, e) # <<>>
  OBVIOUS
<1>2. /\ s \o <<e>> \in Seq(S)
      /\ Elements(s \o <<e>>) = Elements(s) \cup Elements(<<e>>)
      /\ Injective(s) /\ Injective(<<e>>) /\ Elements(s) \cap Elements(<<e>>) = {} => Injective(s \o <<e>>)
  <2>1. <<e>> \in Seq(S)
    OBVIOUS
  <2> QED
    BY <2>1, Concatenation
<1>3. Elements(<<e>>) = {e} /\ Injective(<<e>>)
  BY OneElement
<1> QED
  BY <1>1, <1>2, <1>3, Zenon

\* A part of a sequence keeps what its elements keep pairwise.
LEMMA Part ==
    ASSUME NEW S, NEW s \in Seq(S), NEW m \in 1..(Len(s) + 1), NEW n \in 0..Len(s)
    PROVE  /\ SubSeq(s, m, n) \in Seq(S)
           /\ Elements(SubSeq(s, m, n)) = {s[i] : i \in m..n}
           /\ Injective(s) => Injective(SubSeq(s, m, n))
           /\ S \subseteq Int /\ Ascending(s) => Ascending(SubSeq(s, m, n))
<1> DEFINE part == SubSeq(s, m, n)
<1>1. /\ part \in Seq(S)
      /\ \A i \in DOMAIN part : i \in Nat /\ i + m - 1 \in m..n /\ i + m - 1 \in DOMAIN s /\ part[i] = s[i + m - 1]
      /\ \A i \in m..n : i - m + 1 \in DOMAIN part /\ part[i - m + 1] = s[i]
  OBVIOUS
<1>2. Elements(part) = {s[i] : i \in m..n}
  <2>1. Elements(part) \subseteq {s[i] : i \in m..n}
    BY <1>1 DEF Elements
  <2>2. {s[i] : i \in m..n} \subseteq Elements(part)
    <3> SUFFICES ASSUME NEW i \in m..n PROVE s[i] \in Elements(part)
      OBVIOUS
    <3>1. i - m + 1 \in DOMAIN part /\ part[i - m + 1] = s[i]
      BY <1>1
    <3> QED
      BY <3>1 DEF Elements
  <2> QED
    BY <2>1, <2>2
<1>3. Injective(s) => Injective(part)
  BY <1>1 DEF Injective
<1>4. Ascending(s) => Ascending(part)
  BY <1>1 DEF Ascending
<1> QED
  BY <1>1, <1>2, <1>3, <1>4

LEMMA TheTail ==
    ASSUME NEW S, NEW s \in Seq(S), s # <<>>
    PROVE  /\ Head(s) \in S /\ Tail(s) \in Seq(S) /\ Len(Tail(s)) = Len(s) - 1
           /\ Elements(s) = {Head(s)} \cup Elements(Tail(s))
           /\ Injective(s) => Injective(Tail(s)) /\ Head(s) \notin Elements(Tail(s))
<1>1. /\ Tail(s) \in Seq(S) /\ Len(Tail(s)) = Len(s) - 1 /\ Head(s) = s[1] /\ 1 \in DOMAIN s
      /\ \A i \in DOMAIN Tail(s) : i \in Nat /\ i + 1 \in DOMAIN s /\ i + 1 # 1 /\ Tail(s)[i] = s[i + 1]
      /\ \A i \in DOMAIN s : i \in Nat /\ i # 1 => i - 1 \in DOMAIN Tail(s) /\ s[i] = Tail(s)[i - 1]
  OBVIOUS
<1>2. Elements(s) \subseteq {Head(s)} \cup Elements(Tail(s))
  <2> SUFFICES ASSUME NEW i \in DOMAIN s, i # 1 PROVE s[i] \in Elements(Tail(s))
    BY <1>1 DEF Elements
  <2>1. i - 1 \in DOMAIN Tail(s) /\ s[i] = Tail(s)[i - 1]
    BY <1>1
  <2> QED
    BY <2>1 DEF Elements
<1>3. {Head(s)} \cup Elements(Tail(s)) \subseteq Elements(s)
  BY <1>1 DEF Elements
<1>4. Injective(s) => Injective(Tail(s)) /\ Head(s) \notin Elements(Tail(s))
  BY <1>1 DEF Injective, Elements
<1> QED
  BY <1>1, <1>2, <1>3, <1>4

\* The newest events that fit and the oldest ones that do not are all there are.
LEMMA NewestAndOldest ==
    ASSUME NEW S, NEW s \in Seq(S)
    PROVE  /\ Newest(s) \in Seq(S) /\ Len(Newest(s)) <= BufferSize
           /\ Elements(s) = Elements(Newest(s)) \cup Oldest(s)
           /\ Injective(s) => Injective(Newest(s))
           /\ S \subseteq Int /\ Ascending(s) => Ascending(Newest(s))
           /\ s # <<>> => Newest(s) # <<>>
<1>1. /\ Excess(s) \in Nat /\ Excess(s) <= Len(s) /\ Len(s) \in Nat
      /\ Len(s) - Excess(s) <= BufferSize /\ (Len(s) > 0 => Excess(s) < Len(s))
  BY LogAssumption DEF Excess
<1>2. Excess(s) + 1 \in 1..(Len(s) + 1) /\ Excess(s) \in 0..Len(s) /\ Len(s) \in 0..Len(s) /\ 1 \in 1..(Len(s) + 1)
  BY <1>1
<1>3. /\ Newest(s) \in Seq(S)
      /\ Elements(Newest(s)) = {s[i] : i \in (Excess(s) + 1)..Len(s)}
      /\ Injective(s) => Injective(Newest(s))
      /\ S \subseteq Int /\ Ascending(s) => Ascending(Newest(s))
  BY <1>2, Part DEF Newest
<1>4. Oldest(s) = {s[i] : i \in 1..Excess(s)}
  BY <1>2, Part DEF Oldest
<1>5. Len(Newest(s)) = Len(s) - Excess(s)
  BY <1>1 DEF Newest
<1>6. Elements(s) = Elements(Newest(s)) \cup Oldest(s)
  <2>1. \A n, x \in Nat : x <= n => 1..n = ((x + 1)..n) \cup (1..x)
    OBVIOUS
  <2>2. DOMAIN s = 1..Len(s)
    OBVIOUS
  <2>3. DOMAIN s = ((Excess(s) + 1)..Len(s)) \cup (1..Excess(s))
    BY <1>1, <2>1, <2>2
  <2> QED
    BY <1>3, <1>4, <2>3 DEF Elements
<1> QED
  BY <1>1, <1>3, <1>5, <1>6

-----------------------------------------------------------------------------
(* Types. *)

Events    == 1..MaxEvents
RowStates == {"open", "committed", "void"}
Rows      == [event : Events, state : RowStates]
Hand      == [pc : {"idle", "insert", "commit", "publish"}, batch : Seq(Events), requeue : BOOLEAN,
              ids : Seq(Nat), next : Seq(Events)]

LEMMA FreeHand ==
    /\ Free \in Hand /\ Free.pc = "idle" /\ Free.batch = <<>> /\ Free.ids = <<>> /\ Free.next = <<>>
    /\ Free.requeue = FALSE
    /\ <<>> \in Seq(Events) /\ Len(<<>>) <= BufferSize
BY LogAssumption DEF Free, Hand

\* What a thread goes on with.
LEMMA Proceeding ==
    ASSUME NEW t, thread[t] \in Hand
    PROVE  /\ Proceed(t) \in Hand /\ Proceed(t).ids = <<>> /\ Proceed(t).requeue = FALSE
           /\ Proceed(t).next = <<>> /\ Proceed(t).batch = thread[t].next
           /\ \/ Proceed(t) = Free
              \/ Proceed(t).pc = "insert" /\ Proceed(t).batch # <<>>
<1>1. thread[t].next \in Seq(Events) /\ <<>> \in Seq(Events)
  BY DEF Hand
<1>2. CASE thread[t].next = <<>>
  <2>1. Proceed(t) = Free
    BY <1>2 DEF Proceed
  <2> QED
    BY <1>2, <2>1, FreeHand DEF Holding, Hand
<1>3. CASE thread[t].next # <<>>
  <2>1. Proceed(t) = Holding(thread[t].next, FALSE, <<>>)
    BY <1>3 DEF Proceed
  <2> QED
    BY <1>1, <1>3, <2>1, FreeHand DEF Holding, Hand
<1> QED
  BY <1>2, <1>3

\* The rows a transaction touches change their state, and no others.
LEMMA RowsSet ==
    ASSUME TypeOK, NEW ids, NEW state \in RowStates, SetRows(ids, state)
    PROVE  /\ rows' \in Seq(Rows) /\ Len(rows') = Len(rows) /\ DOMAIN rows' = DOMAIN rows
           /\ \A i \in RowIds : /\ rows'[i].event = rows[i].event
                                /\ rows'[i].state = IF i \in Elements(ids) THEN state ELSE rows[i].state
<1>1. rows \in Seq(Rows) /\ DOMAIN rows = 1..Len(rows) /\ Len(rows) \in Nat
  BY DEF TypeOK, Rows, RowStates, Events
<1>2. \A i \in RowIds : rows[i] \in Rows
  BY <1>1 DEF RowIds
<1>3. \A i \in RowIds : /\ rows'[i] \in Rows
                        /\ rows'[i].event = rows[i].event
                        /\ rows'[i].state = IF i \in Elements(ids) THEN state ELSE rows[i].state
  BY <1>2 DEF SetRows, Rows
<1>4. rows' \in [1..Len(rows) -> Rows]
  BY <1>1, <1>3 DEF SetRows, RowIds
<1> QED
  BY <1>1, <1>3, <1>4

LEMMA TypeFacts ==
    ASSUME TypeOK
    PROVE  /\ logged \in 0..MaxEvents /\ MaxEvents \in Nat /\ BufferSize \in Nat
           /\ buffer \in Seq(Events) /\ Len(buffer) <= BufferSize
           /\ thread \in [Threads -> Hand]
           /\ rows \in Seq(Rows) /\ DOMAIN rows = 1..Len(rows) /\ Len(rows) \in Nat
           /\ \A i \in RowIds : rows[i] \in Rows
           /\ bus \in Seq(Nat)
           /\ dropped \in [events : SUBSET Events, unheard : SUBSET Nat]
           /\ doubled \subseteq Events /\ raced \in BOOLEAN
           /\ listening \in BOOLEAN /\ faults \in 0..MaxFaults
<1>1. rows \in Seq(Rows) /\ RowIds = 1..Len(rows)
  BY DEF TypeOK, Events, Rows, RowStates, RowIds
<1>2. \A i \in RowIds : rows[i] \in Rows
  BY <1>1
<1>3. thread \in [Threads -> Hand]
  BY DEF TypeOK, Events, Hand
<1>4. buffer \in Seq(Events) /\ doubled \subseteq Events /\ dropped \in [events : SUBSET Events, unheard : SUBSET Nat]
  BY DEF TypeOK, Events
<1> QED
  BY <1>1, <1>2, <1>3, <1>4, LogAssumption DEF TypeOK, RowIds

\* TypeOK in the names used here.
LEMMA TypesSuffice ==
    ASSUME logged' \in 0..MaxEvents,
           buffer' \in Seq(Events), Len(buffer') <= BufferSize,
           thread' \in [Threads -> Hand], rows' \in Seq(Rows), bus' \in Seq(Nat),
           listening' \in BOOLEAN, faults' \in 0..MaxFaults,
           dropped' \in [events : SUBSET Events, unheard : SUBSET Nat],
           doubled' \subseteq Events, raced' \in BOOLEAN
    PROVE  TypeOK'
BY DEF TypeOK, Events, Hand, Rows, RowStates

\* The numbers of the events put in the hands of t when it takes the buffer.
LEMMA Taking ==
    ASSUME TypeOK, NEW t \in Threads, NEW next \in Seq(Events),
           TakeBuffer(t, TRUE, next) \/ TakeBuffer(t, FALSE, next), buffer # <<>> \/ next # <<>>
    PROVE  \E h \in Hand :
             /\ thread' = [thread EXCEPT ![t] = h] /\ buffer' = <<>>
             /\ h.pc = "insert" /\ h.ids = <<>> /\ h.batch # <<>>
             /\ \/ buffer = <<>> /\ h.batch = next /\ h.next = <<>> /\ h.requeue = FALSE
                \/ buffer # <<>> /\ h.batch = buffer /\ h.next = next
<1>1. buffer \in Seq(Events)
  BY TypeFacts
<1>2. CASE buffer = <<>>
  <2> DEFINE h == Holding(next, FALSE, <<>>)
  <2>1. thread' = [thread EXCEPT ![t] = h] /\ buffer' = <<>>
    BY <1>2 DEF TakeBuffer
  <2>2. h \in Hand /\ h.pc = "insert" /\ h.batch = next /\ h.requeue = FALSE /\ h.ids = <<>> /\ h.next = <<>>
    BY FreeHand DEF Holding, Hand
  <2> QED
    BY <1>2, <2>1, <2>2
<1>3. CASE buffer # <<>>
  <2>1. \/ thread' = [thread EXCEPT ![t] = Holding(buffer, TRUE, next)]
        \/ thread' = [thread EXCEPT ![t] = Holding(buffer, FALSE, next)]
    BY <1>3 DEF TakeBuffer
  <2>2. buffer' = <<>>
    BY DEF TakeBuffer
  <2> DEFINE Good(h) == /\ h \in Hand /\ h.pc = "insert" /\ h.ids = <<>>
                        /\ h.batch = buffer /\ h.next = next
  <2>3. Good(Holding(buffer, TRUE, next)) /\ Good(Holding(buffer, FALSE, next))
    BY <1>1 DEF Holding, Hand
  <2>4. PICK h : Good(h) /\ thread' = [thread EXCEPT ![t] = h]
    BY <2>1, <2>3
  <2> QED
    BY <1>3, <2>2, <2>4
<1> QED
  BY <1>2, <1>3

\* What logging an event that is not immediate does: it waits, or all that waits is taken.
LEMMA Buffering ==
    ASSUME TypeOK, NEW t \in Threads, NEW e \in Events, \E due \in BOOLEAN : Buffer(t, e, due),
           NEW kept, kept = Newest(Append(buffer, e))
    PROVE  /\ kept \in Seq(Events) /\ kept # <<>> /\ Len(kept) <= BufferSize
           /\ dropped' = [dropped EXCEPT !.events = @ \cup Oldest(Append(buffer, e))]
           /\ Elements(buffer) \cup {e} = Elements(kept) \cup Oldest(Append(buffer, e))
           /\ Oldest(Append(buffer, e)) \subseteq Events
           /\ \/ buffer' = kept /\ thread' = thread
              \/ buffer' = <<>> /\ thread' = [thread EXCEPT ![t] = Holding(kept, TRUE, <<>>)]
<1>1. buffer \in Seq(Events)
  BY TypeFacts
<1>2. /\ Append(buffer, e) \in Seq(Events) /\ Append(buffer, e) # <<>>
      /\ Elements(Append(buffer, e)) = Elements(buffer) \cup {e}
  BY <1>1, Appending
<1>3. /\ kept \in Seq(Events) /\ kept # <<>> /\ Len(kept) <= BufferSize
      /\ Elements(Append(buffer, e)) = Elements(kept) \cup Oldest(Append(buffer, e))
  BY <1>2, NewestAndOldest
<1>4. Elements(Append(buffer, e)) \subseteq Events
  BY <1>2, NoElement
<1>5. /\ dropped' = [dropped EXCEPT !.events = @ \cup Oldest(Append(buffer, e))]
      /\ \/ buffer' = kept /\ thread' = thread
         \/ buffer' = <<>> /\ thread' = [thread EXCEPT ![t] = Holding(kept, TRUE, <<>>)]
  BY DEF Buffer
<1> QED
  BY <1>2, <1>3, <1>4, <1>5

\* Each way to put events in the hands of a thread, or in the buffer.
LEMMA LogEventEffect ==
    ASSUME TypeOK, NEW t \in Threads, LogEvent(t)
    PROVE  /\ thread[t].pc = "idle" /\ logged' = logged + 1
           /\ logged + 1 \in Events /\ logged + 1 \in 0..MaxEvents
           /\ NoteRace(t) /\ UNCHANGED <<rows, bus, listening, faults, doubled>>
           /\ \/ UNCHANGED dropped /\ TakeBuffer(t, TRUE, <<logged + 1>>)
              \/ \E due \in BOOLEAN : Buffer(t, logged + 1, due)
<1>1. logged + 1 \in Events /\ logged + 1 \in 0..MaxEvents
  BY TypeFacts DEF LogEvent, Events
<1> QED
  BY <1>1 DEF LogEvent

LEMMA LoggingTypes ==
    ASSUME TypeOK, NEW t \in Threads, LogEvent(t) \/ Flush(t) \/ Exit(t)
    PROVE  TypeOK'
<1>1. CASE LogEvent(t)
  <2>1. logged + 1 \in Events /\ logged' \in 0..MaxEvents /\ UNCHANGED <<rows, bus, listening, faults, doubled>> /\ raced' \in BOOLEAN
    BY <1>1, LogEventEffect DEF NoteRace, TypeOK
  <2>2. CASE UNCHANGED dropped /\ TakeBuffer(t, TRUE, <<logged + 1>>)
    <3>1. <<logged + 1>> \in Seq(Events) /\ <<logged + 1>> # <<>>
      BY <2>1
    <3>2. PICK h \in Hand : thread' = [thread EXCEPT ![t] = h] /\ buffer' = <<>>
      BY <2>2, <3>1, Taking
    <3>3. thread' \in [Threads -> Hand] /\ buffer' \in Seq(Events) /\ Len(buffer') <= BufferSize
      BY <3>2, FreeHand, TypeFacts
    <3> QED
      BY <2>1, <2>2, <3>3, TypeFacts, TypesSuffice
  <2>3. ASSUME \E due \in BOOLEAN : Buffer(t, logged + 1, due) PROVE TypeOK'
    <3> DEFINE kept == Newest(Append(buffer, logged + 1))
    <3> HIDE DEF kept
    <3>1. /\ kept \in Seq(Events) /\ Len(kept) <= BufferSize
          /\ dropped' = [dropped EXCEPT !.events = @ \cup Oldest(Append(buffer, logged + 1))]
          /\ Oldest(Append(buffer, logged + 1)) \subseteq Events
          /\ \/ buffer' = kept /\ thread' = thread
             \/ buffer' = <<>> /\ thread' = [thread EXCEPT ![t] = Holding(kept, TRUE, <<>>)]
      <4>1. kept = Newest(Append(buffer, logged + 1))
        BY DEF kept
      <4> QED
        BY <2>1, <2>3, <4>1, Buffering
    <3>2. Holding(kept, TRUE, <<>>) \in Hand
      BY <3>1, FreeHand DEF Holding, Hand
    <3>3. thread' \in [Threads -> Hand] /\ buffer' \in Seq(Events) /\ Len(buffer') <= BufferSize
      BY <3>1, <3>2, FreeHand, TypeFacts
    <3>4. dropped' \in [events : SUBSET Events, unheard : SUBSET Nat]
      BY <3>1, TypeFacts
    <3> QED
      BY <2>1, <3>3, <3>4, TypeFacts, TypesSuffice
  <2> QED
    BY <1>1, <2>2, <2>3, LogEventEffect
<1>2. CASE Flush(t) \/ Exit(t)
  <2>1. /\ UNCHANGED <<logged, rows, bus, listening, faults, dropped, doubled>>
        /\ raced' \in BOOLEAN /\ buffer # <<>>
        /\ TakeBuffer(t, TRUE, <<>>) \/ TakeBuffer(t, FALSE, <<>>)
    BY <1>2 DEF Flush, Exit, NoteRace, TypeOK
  <2>2. PICK h \in Hand : thread' = [thread EXCEPT ![t] = h] /\ buffer' = <<>>
    BY <2>1, FreeHand, Taking
  <2>3. thread' \in [Threads -> Hand] /\ buffer' \in Seq(Events) /\ Len(buffer') <= BufferSize
    BY <2>2, FreeHand, TypeFacts
  <2> QED
    BY <2>1, <2>3, TypeFacts, TypesSuffice
<1> QED
  BY <1>1, <1>2

\* A batch gets the next ids, and its rows are not visible yet.
LEMMA Inserting ==
    ASSUME TypeOK, NEW t \in Threads, Insert(t)
    PROVE  \E h \in Hand :
             /\ thread' = [thread EXCEPT ![t] = h]
             /\ h.pc = "commit" /\ h.batch = thread[t].batch /\ h.next = thread[t].next
             /\ DOMAIN h.ids = DOMAIN thread[t].batch /\ Injective(h.ids)
             /\ \A i \in DOMAIN h.ids : h.ids[i] = Len(rows) + i
             /\ rows' \in Seq(Rows) /\ RowIds \subseteq RowIds'
             /\ \A i \in RowIds : rows'[i] = rows[i] /\ i \notin Elements(h.ids)
             /\ \A i \in DOMAIN h.ids : /\ h.ids[i] \in RowIds'
                                        /\ rows'[h.ids[i]].event = thread[t].batch[i]
                                        /\ rows'[h.ids[i]].state = "open"
             /\ RowIds' = RowIds \cup Elements(h.ids)
             /\ h.requeue = thread[t].requeue
<1> DEFINE batch == thread[t].batch
           n     == Len(batch)
           ids   == [i \in DOMAIN batch |-> Len(rows) + i]
           h     == [thread[t] EXCEPT !.pc = "commit", !.ids = ids]
           new   == [i \in DOMAIN batch |-> [event |-> batch[i], state |-> "open"]]
<1>1. thread[t] \in Hand /\ rows \in Seq(Rows) /\ Len(rows) \in Nat /\ RowIds = 1..Len(rows)
  BY TypeFacts DEF RowIds
<1>2. batch \in Seq(Events) /\ DOMAIN batch = 1..n /\ n \in Nat /\ \A i \in 1..n : batch[i] \in Events
  BY <1>1 DEF Hand
<1>3. ids \in Seq(Nat) /\ DOMAIN ids = 1..n /\ Injective(ids)
  BY <1>1, <1>2 DEF Injective
<1>4. h \in Hand /\ h.pc = "commit" /\ h.batch = batch /\ h.next = thread[t].next /\ h.ids = ids
      /\ h.requeue = thread[t].requeue
  BY <1>1, <1>3 DEF Hand
<1>5. new \in Seq(Rows) /\ Len(new) = n
  <2>1. \A i \in 1..n : [event |-> batch[i], state |-> "open"] \in Rows
    BY <1>2 DEF Rows, RowStates
  <2>2. new \in [1..n -> Rows]
    BY <1>2, <2>1
  <2> QED
    BY <1>2, <2>2
<1>6. thread' = [thread EXCEPT ![t] = h] /\ rows' = rows \o new
  BY <1>1, TypeFacts DEF Insert
<1> HIDE DEF new, h
<1>7. /\ rows' \in Seq(Rows) /\ Len(rows') = Len(rows) + n
      /\ \A i \in 1..Len(rows) : rows'[i] = rows[i]
      /\ \A i \in 1..n : rows'[Len(rows) + i] = new[i]
  <2>1. /\ rows \o new \in Seq(Rows) /\ Len(rows \o new) = Len(rows) + Len(new)
        /\ \A i \in 1..Len(rows) : (rows \o new)[i] = rows[i]
        /\ \A i \in 1..Len(new) : (rows \o new)[Len(rows) + i] = new[i]
    <3>1. ASSUME NEW r \in Seq(Rows)
          PROVE  /\ rows \o r \in Seq(Rows) /\ Len(rows \o r) = Len(rows) + Len(r)
                 /\ \A i \in 1..Len(rows) : (rows \o r)[i] = rows[i]
                 /\ \A i \in 1..Len(r) : (rows \o r)[Len(rows) + i] = r[i]
      BY <1>1, Joined
    <3> QED
      BY <1>5, <3>1
  <2> QED
    BY <1>5, <1>6, <2>1
<1>8. RowIds' = 1..(Len(rows) + n)
  BY <1>1, <1>2, <1>7 DEF RowIds
<1>13. \A i \in 1..n : ids[i] = Len(rows) + i /\ ids[i] \in 1..(Len(rows) + n) /\ ids[i] \notin 1..Len(rows)
  BY <1>1, <1>2
<1>14. \A i \in 1..n : new[i].event = batch[i] /\ new[i].state = "open"
  BY <1>2 DEF new
<1> HIDE DEF n, ids
<1>9. \A i \in RowIds : i \notin Elements(ids)
  BY <1>1, <1>3, <1>13 DEF Elements
<1>10. \A i \in DOMAIN ids : /\ ids[i] \in RowIds' /\ rows'[ids[i]].event = batch[i]
                             /\ rows'[ids[i]].state = "open"
  <2> SUFFICES ASSUME NEW i \in 1..n
               PROVE  ids[i] \in RowIds' /\ rows'[ids[i]].event = batch[i] /\ rows'[ids[i]].state = "open"
    BY <1>3
  <2>1. ids[i] = Len(rows) + i /\ ids[i] \in RowIds'
    BY <1>8, <1>13
  <2>2. rows'[Len(rows) + i] = new[i]
    BY <1>7
  <2> QED
    BY <1>14, <2>1, <2>2
<1>11. RowIds' = RowIds \cup Elements(ids)
  <2>1. \A i \in RowIds' : i \in RowIds \/ (i - Len(rows) \in DOMAIN ids /\ ids[i - Len(rows)] = i)
    BY <1>1, <1>2, <1>3, <1>8, <1>13
  <2>2. RowIds' \subseteq RowIds \cup Elements(ids)
    BY <2>1 DEF Elements
  <2>3. RowIds \cup Elements(ids) \subseteq RowIds'
    BY <1>1, <1>2, <1>3, <1>8, <1>13 DEF Elements
  <2> QED
    BY <2>2, <2>3
<1>12. DOMAIN ids = DOMAIN batch /\ RowIds \subseteq RowIds' /\ \A i \in RowIds : rows'[i] = rows[i]
  BY <1>1, <1>2, <1>3, <1>7, <1>8
<1> QED
  <2>1. \A i \in DOMAIN ids : ids[i] = Len(rows) + i
    BY <1>3, <1>13
  <2> QED
    BY <1>3, <1>4, <1>6, <1>7, <1>9, <1>10, <1>11, <1>12, <2>1

\* One message is sent: it was the last one, or the rest remains.
LEMMA PublishingHand ==
    ASSUME NEW t, Publish(t)
    PROVE  \/ Len(thread[t].ids) = 1 /\ thread' = [thread EXCEPT ![t] = Proceed(t)]
           \/ /\ Len(thread[t].ids) # 1
              /\ thread' = [thread EXCEPT ![t] = [thread[t] EXCEPT !.ids = Tail(thread[t].ids)]]
<1>1. CASE Len(thread[t].ids) = 1
  BY <1>1 DEF Publish
<1>2. CASE Len(thread[t].ids) # 1
  BY <1>2 DEF Publish
<1> QED
  BY <1>1, <1>2

LEMMA PersistingTypes ==
    ASSUME TypeOK, NEW t \in Threads, Insert(t) \/ Commit(t) \/ Publish(t) \/ PublishFails(t),
           thread[t].pc = "publish" => thread[t].ids # <<>>
    PROVE  TypeOK'
<1>1. thread[t] \in Hand /\ Proceed(t) \in Hand
  BY TypeFacts, Proceeding
<1>2. CASE Insert(t)
  <2>1. PICK h \in Hand : thread' = [thread EXCEPT ![t] = h] /\ rows' \in Seq(Rows)
    BY <1>2, Inserting
  <2>3. thread' \in [Threads -> Hand]
    BY <2>1, TypeFacts
  <2> QED
    BY <1>2, <2>1, <2>3, TypeFacts, TypesSuffice DEF Insert
<1>3. CASE Commit(t)
  <2>1. rows' \in Seq(Rows)
    BY <1>3, RowsSet DEF Commit, RowStates
  <2>2. thread' \in [Threads -> Hand]
    BY <1>1, <1>3, TypeFacts DEF Commit, Hand
  <2> QED
    BY <1>3, <2>1, <2>2, TypeFacts, TypesSuffice DEF Commit
<1>4. CASE Publish(t)
  <2>0. thread[t].ids # <<>>
    BY <1>4 DEF Publish
  <2>1. thread[t].ids \in Seq(Nat)
    BY <1>1 DEF Hand
  <2>2. thread' \in [Threads -> Hand] /\ bus' \in Seq(Nat) /\ dropped' \in [events : SUBSET Events, unheard : SUBSET Nat]
    <3>1. /\ Head(thread[t].ids) \in Nat /\ Tail(thread[t].ids) \in Seq(Nat)
          /\ thread[t].ids # <<>>
      BY <2>1, <2>0, TheTail
    <3>2. [thread[t] EXCEPT !.ids = Tail(@)] \in Hand
      BY <1>1, <3>1 DEF Hand
    <3>3. thread' = [thread EXCEPT ![t] = Proceed(t)]
          \/ thread' = [thread EXCEPT ![t] = [thread[t] EXCEPT !.ids = Tail(@)]]
      BY <1>4, PublishingHand
    <3>4. thread' \in [Threads -> Hand]
      BY <1>1, <3>2, <3>3, TypeFacts
    <3>5. bus' \in Seq(Nat)
      <4>1. Append(bus, Head(thread[t].ids)) \in Seq(Nat)
        BY <3>1, TypeFacts, Appending
      <4>2. bus' = bus \/ bus' = Append(bus, Head(thread[t].ids))
        BY <1>4 DEF Publish
      <4> QED
        BY <4>1, <4>2, TypeFacts
    <3>6. dropped' \in [events : SUBSET Events, unheard : SUBSET Nat]
      <4>1. dropped' = dropped \/ dropped' = [dropped EXCEPT !.unheard = @ \cup {Head(thread[t].ids)}]
        BY <1>4 DEF Publish
      <4> QED
        BY <3>1, <4>1, TypeFacts
    <3> QED
      BY <3>4, <3>5, <3>6
  <2> QED
    BY <1>4, <2>2, TypeFacts, TypesSuffice DEF Publish
<1>5. CASE PublishFails(t)
  <2>1. Elements(thread[t].ids) \subseteq Nat
    BY <1>1, NoElement DEF Hand
  <2>2. thread' \in [Threads -> Hand] /\ dropped' \in [events : SUBSET Events, unheard : SUBSET Nat]
    BY <1>1, <1>5, <2>1, TypeFacts DEF PublishFails
  <2>3. faults' \in 0..MaxFaults
    BY <1>5, TypeFacts, LogAssumption DEF PublishFails, UseFault
  <2> QED
    BY <1>5, <2>2, <2>3, TypeFacts, TypesSuffice DEF PublishFails
<1> QED
  BY <1>2, <1>3, <1>4, <1>5

\* What a failed transaction leaves: the batch is back in the buffer or given up.
LEMMA PuttingBack ==
    ASSUME TypeOK, NEW t \in Threads, NEW silent \in SUBSET Nat, NotStored(t, silent)
    PROVE  /\ thread' = [thread EXCEPT ![t] = Proceed(t)]
           /\ buffer' \in Seq(Events) /\ Len(buffer') <= BufferSize
           /\ dropped' \in [events : SUBSET Events, unheard : SUBSET Nat]
           /\ dropped'.unheard = dropped.unheard \cup silent
           /\ \/ /\ thread[t].requeue /\ buffer' = Newest(thread[t].batch \o buffer)
                 /\ dropped'.events = dropped.events \cup Oldest(thread[t].batch \o buffer)
              \/ /\ ~thread[t].requeue /\ buffer' = buffer
                 /\ dropped'.events = dropped.events \cup Elements(thread[t].batch)
<1>1. thread[t] \in Hand /\ buffer \in Seq(Events) /\ Len(buffer) <= BufferSize
  BY TypeFacts
<1>2. thread[t].batch \in Seq(Events)
  BY <1>1 DEF Hand
<1> DEFINE all == thread[t].batch \o buffer
<1>3. all \in Seq(Events) /\ Elements(all) \subseteq Events /\ Elements(thread[t].batch) \subseteq Events
  BY <1>1, <1>2, NoElement, Concatenation
<1>4. Newest(all) \in Seq(Events) /\ Len(Newest(all)) <= BufferSize /\ Oldest(all) \subseteq Events
  BY <1>3, NewestAndOldest
<1>5. thread' = [thread EXCEPT ![t] = Proceed(t)]
  BY DEF NotStored
<1>6. CASE thread[t].requeue
  <2>1. /\ buffer' = Newest(all)
        /\ dropped' = [events |-> dropped.events \cup Oldest(all), unheard |-> dropped.unheard \cup silent]
    BY <1>6 DEF NotStored, PutBack
  <2> QED
    BY <1>4, <1>5, <1>6, <2>1, TypeFacts
<1>7. CASE ~thread[t].requeue
  <2>1. /\ buffer' = buffer
        /\ dropped' = [events |-> dropped.events \cup Elements(thread[t].batch), unheard |-> dropped.unheard \cup silent]
    BY <1>7 DEF NotStored
  <2> QED
    BY <1>1, <1>3, <1>5, <1>7, <2>1, TypeFacts
<1> QED
  BY <1>6, <1>7

LEMMA FailingTypes ==
    ASSUME TypeOK, NEW t \in Threads, StoreFails(t) \/ CommitAmbiguous(t)
    PROVE  TypeOK'
<1>1. thread[t] \in Hand /\ Proceed(t) \in Hand
  BY TypeFacts, Proceeding
<1>2. Elements(thread[t].ids) \in SUBSET Nat /\ Elements(thread[t].batch) \subseteq Events /\ {} \in SUBSET Nat
  BY <1>1, NoElement DEF Hand
<1>3. faults' \in 0..MaxFaults
  BY TypeFacts, LogAssumption DEF StoreFails, CommitAmbiguous, UseFault
<1>4. NotStored(t, {}) \/ NotStored(t, Elements(thread[t].ids))
  BY DEF StoreFails, CommitAmbiguous
<1>5. /\ thread' \in [Threads -> Hand] /\ buffer' \in Seq(Events) /\ Len(buffer') <= BufferSize
      /\ dropped' \in [events : SUBSET Events, unheard : SUBSET Nat]
  BY <1>1, <1>2, <1>4, PuttingBack, TypeFacts
<1>6. rows' \in Seq(Rows)
  BY RowsSet DEF StoreFails, CommitAmbiguous, RowStates
<1>7. doubled' \subseteq Events /\ UNCHANGED <<logged, bus, listening, raced>>
  BY <1>2, TypeFacts DEF StoreFails, CommitAmbiguous
<1> QED
  BY <1>3, <1>5, <1>6, <1>7, TypeFacts, TypesSuffice

-----------------------------------------------------------------------------
(* The rows in the hands of the threads. *)

\* What a thread holds, and which of the rows r are its own.
HandOK(h, r) ==
    /\ h.pc = "idle" => h.batch = <<>> /\ h.ids = <<>> /\ h.next = <<>>
    /\ h.pc = "insert" => h.batch # <<>> /\ h.ids = <<>>
    /\ h.pc = "commit" =>
          /\ h.ids # <<>> /\ DOMAIN h.ids = DOMAIN h.batch
          /\ \A i \in DOMAIN h.ids : /\ h.ids[i] \in DOMAIN r
                                     /\ r[h.ids[i]].event = h.batch[i]
                                     /\ r[h.ids[i]].state = "open"
    /\ h.pc = "publish" =>
          h.ids # <<>> /\ \A i \in DOMAIN h.ids : h.ids[i] \in DOMAIN r /\ r[h.ids[i]].state = "committed"
    /\ Injective(h.ids)

Apart(h, g) == Elements(h.ids) \cap Elements(g.ids) = {}

IdsInv == \A t \in Threads : /\ HandOK(thread[t], rows)
                             /\ \A u \in Threads \ {t} : Apart(thread[t], thread[u])

\* A hand whose rows do not change is as good as before.
LEMMA Untouched ==
    ASSUME NEW h, NEW r, NEW q, HandOK(h, r),
           \A i \in Elements(h.ids) : i \in DOMAIN r => i \in DOMAIN q /\ q[i] = r[i]
    PROVE  HandOK(h, q)
BY DEF HandOK, Elements

\* One thread's hand changes, and the rows of the others do not.
LEMMA OneHand ==
    ASSUME thread \in [Threads -> Hand], IdsInv, NEW t \in Threads, NEW h, thread' = [thread EXCEPT ![t] = h],
           HandOK(h, rows'),
           \A u \in Threads \ {t} :
              /\ Apart(h, thread[u])
              /\ \A i \in Elements(thread[u].ids) : i \in RowIds => i \in RowIds' /\ rows'[i] = rows[i]
    PROVE  IdsInv'
<1>1. \A u \in Threads \ {t} : HandOK(thread[u], rows')
  BY Untouched DEF IdsInv, RowIds
<1>2. thread'[t] = h /\ \A u \in Threads \ {t} : thread'[u] = thread[u]
  OBVIOUS
<1>3. \A u \in Threads : HandOK(thread'[u], rows')
  BY <1>1, <1>2
<1>4. \A u, v \in Threads : u # v => Apart(thread'[u], thread'[v])
  BY <1>2 DEF IdsInv, Apart
<1> QED
  BY <1>3, <1>4 DEF IdsInv

LEMMA EmptyHand == ASSUME NEW r PROVE HandOK(Free, r)
BY FreeHand, NoElement DEF HandOK

\* Who takes events from the buffer has no rows yet.
LEMMA TakeEffect ==
    ASSUME TypeOK, NEW t \in Threads, LogEvent(t) \/ Flush(t) \/ Exit(t)
    PROVE  /\ UNCHANGED <<rows, bus, listening, doubled>> /\ thread[t].pc = "idle"
           /\ dropped'.unheard = dropped.unheard
           /\ \/ thread' = thread
              \/ \E h \in Hand : /\ thread' = [thread EXCEPT ![t] = h]
                                 /\ h.pc = "insert" /\ h.ids = <<>> /\ h.batch # <<>>
<1>1. CASE LogEvent(t)
  <2>1. logged + 1 \in Events /\ UNCHANGED <<rows, bus, listening, doubled>> /\ thread[t].pc = "idle"
    BY <1>1, LogEventEffect
  <2>2. CASE UNCHANGED dropped /\ TakeBuffer(t, TRUE, <<logged + 1>>)
    <3>1. <<logged + 1>> \in Seq(Events) /\ <<logged + 1>> # <<>>
      BY <2>1
    <3>2. PICK h \in Hand : /\ thread' = [thread EXCEPT ![t] = h]
                            /\ h.pc = "insert" /\ h.ids = <<>> /\ h.batch # <<>>
      BY <2>2, <3>1, Taking
    <3> QED
      BY <2>1, <2>2, <3>2
  <2>3. CASE \E due \in BOOLEAN : Buffer(t, logged + 1, due)
    <3> DEFINE kept == Newest(Append(buffer, logged + 1))
               h    == Holding(kept, TRUE, <<>>)
    <3>1. /\ kept \in Seq(Events) /\ kept # <<>>
          /\ dropped' = [dropped EXCEPT !.events = @ \cup Oldest(Append(buffer, logged + 1))]
          /\ thread' = thread \/ thread' = [thread EXCEPT ![t] = h]
      BY <2>1, <2>3, Buffering
    <3>2. h \in Hand /\ h.pc = "insert" /\ h.ids = <<>> /\ h.batch # <<>>
      <4> HIDE DEF kept
      <4> QED
        BY <3>1, FreeHand DEF Holding, Hand
    <3>3. dropped'.unheard = dropped.unheard
      BY <3>1, TypeFacts
    <3> QED
      BY <2>1, <3>1, <3>2, <3>3
  <2> QED
    BY <1>1, <2>2, <2>3, LogEventEffect
<1>2. CASE Flush(t) \/ Exit(t)
  <2>1. /\ UNCHANGED <<rows, bus, listening, dropped, doubled>> /\ buffer # <<>> /\ thread[t].pc = "idle"
        /\ TakeBuffer(t, TRUE, <<>>) \/ TakeBuffer(t, FALSE, <<>>)
    BY <1>2 DEF Flush, Exit
  <2>2. PICK h \in Hand : /\ thread' = [thread EXCEPT ![t] = h]
                          /\ h.pc = "insert" /\ h.ids = <<>> /\ h.batch # <<>>
    BY <2>1, FreeHand, Taking
  <2> QED
    BY <2>1, <2>2
<1> QED
  BY <1>1, <1>2

\* Only a thread's own rows change.
LEMMA OwnRows ==
    ASSUME TypeOK, IdsInv, NEW t \in Threads, NEW state \in RowStates, SetRows(thread[t].ids, state)
    PROVE  \A u \in Threads \ {t} : \A i \in Elements(thread[u].ids) : i \in RowIds => i \in RowIds' /\ rows'[i] = rows[i]
<1>1. SUFFICES ASSUME NEW u \in Threads \ {t}, NEW i \in Elements(thread[u].ids), i \in RowIds
               PROVE  i \in RowIds' /\ rows'[i] = rows[i]
  OBVIOUS
<1>2. i \notin Elements(thread[t].ids)
  BY <1>1 DEF IdsInv, Apart
<1> QED
  BY <1>1, <1>2 DEF SetRows, RowIds

LEMMA TakingKeepsIds ==
    ASSUME TypeOK, IdsInv, NEW t \in Threads, LogEvent(t) \/ Flush(t) \/ Exit(t)
    PROVE  IdsInv'
<1>1. rows' = rows
  BY TakeEffect
<1>2. CASE thread' = thread
  BY <1>1, <1>2 DEF IdsInv
<1>3. ASSUME NEW h \in Hand, thread' = [thread EXCEPT ![t] = h],
             h.pc = "insert", h.ids = <<>>, h.batch # <<>>
      PROVE  IdsInv'
  <2>1. HandOK(h, rows') /\ \A u \in Threads : Apart(h, thread[u])
    BY <1>3, NoElement DEF HandOK, Apart
  <2> QED
    BY <1>1, <1>3, <2>1, TypeFacts, OneHand DEF RowIds
<1> QED
  BY <1>2, <1>3, TakeEffect

LEMMA InsertKeepsIds ==
    ASSUME TypeOK, IdsInv, NEW t \in Threads, Insert(t)
    PROVE  IdsInv'
<1>1. PICK h \in Hand :
        /\ thread' = [thread EXCEPT ![t] = h]
        /\ h.pc = "commit" /\ h.batch = thread[t].batch
        /\ DOMAIN h.ids = DOMAIN thread[t].batch /\ Injective(h.ids)
        /\ RowIds \subseteq RowIds'
        /\ \A i \in RowIds : rows'[i] = rows[i] /\ i \notin Elements(h.ids)
        /\ \A i \in DOMAIN h.ids : /\ h.ids[i] \in RowIds'
                                   /\ rows'[h.ids[i]].event = thread[t].batch[i]
                                   /\ rows'[h.ids[i]].state = "open"
  BY Inserting
<1>2. thread[t].batch # <<>> /\ thread[t].batch \in Seq(Events)
  BY TypeFacts DEF IdsInv, HandOK, Insert, Hand
<1>3. h.ids # <<>>
  <2>1. 1 \in DOMAIN thread[t].batch
    BY <1>2
  <2> QED
    BY <1>1, <2>1
<1>4. HandOK(h, rows')
  BY <1>1, <1>3 DEF HandOK, RowIds
<1>5. \A u \in Threads : \A i \in Elements(thread[u].ids) : i \in RowIds
  <2> SUFFICES ASSUME NEW u \in Threads, NEW k \in DOMAIN thread[u].ids PROVE thread[u].ids[k] \in RowIds
    BY DEF Elements
  <2>1. thread[u].pc \in {"idle", "insert"} => thread[u].ids = <<>>
    BY DEF IdsInv, HandOK
  <2>2. thread[u].pc \in {"idle", "insert", "commit", "publish"}
    BY TypeFacts DEF Hand
  <2> QED
    <3>1. thread[u].pc = "commit" \/ thread[u].pc = "publish"
      BY <2>1, <2>2
    <3> QED
      BY <3>1 DEF IdsInv, HandOK, RowIds
<1>6. \A u \in Threads : Apart(h, thread[u])
  BY <1>1, <1>5 DEF Apart
<1> QED
  BY <1>1, <1>4, <1>5, <1>6, TypeFacts, OneHand

LEMMA CommitKeepsIds ==
    ASSUME TypeOK, IdsInv, NEW t \in Threads, Commit(t)
    PROVE  IdsInv'
<1> DEFINE h == [thread[t] EXCEPT !.pc = "publish"]
<1>1. thread[t] \in Hand /\ thread[t].pc = "commit" /\ thread' = [thread EXCEPT ![t] = h]
      /\ SetRows(thread[t].ids, "committed")
  BY TypeFacts DEF Commit
<1>2. h.pc = "publish" /\ h.ids = thread[t].ids
  BY <1>1 DEF Hand
<1> HIDE DEF h
<1>3. DOMAIN rows' = DOMAIN rows
      /\ \A i \in RowIds : i \in Elements(thread[t].ids) => rows'[i].state = "committed"
  BY <1>1, RowsSet DEF RowStates
<1>4. HandOK(h, rows')
  BY <1>1, <1>2, <1>3 DEF HandOK, IdsInv, RowIds, Elements
<1>5. \A u \in Threads \ {t} : Apart(h, thread[u])
  BY <1>2 DEF IdsInv, Apart
<1> QED
  BY <1>1, <1>4, <1>5, TypeFacts, OneHand, OwnRows DEF RowStates

\* A thread that is through with its batch holds none of the rows any more.
LEMMA ProceedingKeepsIds ==
    ASSUME TypeOK, IdsInv, NEW t \in Threads, thread' = [thread EXCEPT ![t] = Proceed(t)],
           \A u \in Threads \ {t} :
              \A i \in Elements(thread[u].ids) : i \in RowIds => i \in RowIds' /\ rows'[i] = rows[i]
    PROVE  IdsInv'
<1>1. thread[t] \in Hand
  BY TypeFacts
<1>2. HandOK(Proceed(t), rows')
  BY <1>1, Proceeding, EmptyHand, NoElement DEF HandOK
<1>3. \A u \in Threads \ {t} : Apart(Proceed(t), thread[u])
  BY <1>1, Proceeding, NoElement DEF Apart
<1> HIDE DEF Proceed
<1> QED
  BY <1>2, <1>3, TypeFacts, OneHand

LEMMA PublishKeepsIds ==
    ASSUME TypeOK, IdsInv, NEW t \in Threads, Publish(t)
    PROVE  IdsInv'
<1>1. thread[t] \in Hand /\ thread[t].pc = "publish" /\ rows' = rows
  BY TypeFacts DEF Publish
<1>2. thread[t].ids \in Seq(Nat) /\ thread[t].ids # <<>> /\ Injective(thread[t].ids)
  BY <1>1 DEF Hand, IdsInv, HandOK
<1>3. CASE thread' = [thread EXCEPT ![t] = Proceed(t)]
  BY <1>1, <1>3, ProceedingKeepsIds DEF RowIds
<1>4. CASE Len(thread[t].ids) # 1 /\ thread' = [thread EXCEPT ![t] = [thread[t] EXCEPT !.ids = Tail(thread[t].ids)]]
  <2> DEFINE h == [thread[t] EXCEPT !.ids = Tail(thread[t].ids)]
  <2>1. h.pc = "publish" /\ h.ids = Tail(thread[t].ids)
    BY <1>1 DEF Hand
  <2> HIDE DEF h
  <2>2. /\ Tail(thread[t].ids) \in Seq(Nat) /\ Len(Tail(thread[t].ids)) = Len(thread[t].ids) - 1
        /\ Elements(Tail(thread[t].ids)) \subseteq Elements(thread[t].ids)
        /\ Injective(Tail(thread[t].ids))
    BY <1>2, TheTail
  <2>3. h.ids # <<>>
    <3>1. Len(thread[t].ids) # 0 /\ Len(thread[t].ids) \in Nat
      BY <1>2
    <3>2. Len(h.ids) # 0
      BY <1>4, <2>1, <2>2, <3>1
    <3> QED
      BY <3>2
  <2>4. \A i \in DOMAIN h.ids : h.ids[i] \in DOMAIN rows /\ rows[h.ids[i]].state = "committed"
    <3>1. \A i \in Elements(thread[t].ids) : i \in DOMAIN rows /\ rows[i].state = "committed"
      BY <1>1 DEF IdsInv, HandOK, Elements
    <3>2. \A i \in DOMAIN h.ids : h.ids[i] \in Elements(Tail(thread[t].ids))
      BY <2>1 DEF Elements
    <3> QED
      BY <2>2, <3>1, <3>2
  <2>5. HandOK(h, rows')
    BY <1>1, <2>1, <2>2, <2>3, <2>4 DEF HandOK
  <2>6. \A u \in Threads \ {t} : Apart(h, thread[u])
    BY <2>1, <2>2 DEF IdsInv, Apart
  <2>7. thread' = [thread EXCEPT ![t] = h]
    BY <1>4 DEF h
  <2> QED
    BY <1>1, <2>5, <2>6, <2>7, TypeFacts, OneHand DEF RowIds
<1> QED
  BY <1>3, <1>4, PublishingHand

LEMMA FailingKeepsIds ==
    ASSUME TypeOK, IdsInv, NEW t \in Threads, StoreFails(t) \/ CommitAmbiguous(t) \/ PublishFails(t)
    PROVE  IdsInv'
<1>1. thread' = [thread EXCEPT ![t] = Proceed(t)]
  BY DEF StoreFails, CommitAmbiguous, PublishFails, NotStored
<1>2. rows' = rows \/ SetRows(thread[t].ids, "void") \/ SetRows(thread[t].ids, "committed")
  BY DEF StoreFails, CommitAmbiguous, PublishFails
<1>3. \A u \in Threads \ {t} :
         \A i \in Elements(thread[u].ids) : i \in RowIds => i \in RowIds' /\ rows'[i] = rows[i]
  BY <1>2, OwnRows DEF RowStates, RowIds
<1> QED
  BY <1>1, <1>3, ProceedingKeepsIds

\* The process that dies, or the connection that breaks, holds nothing.
LEMMA OthersKeep ==
    ASSUME TypeOK, IdsInv, Crash \/ Hear \/ StopListening \/ Listen
    PROVE  TypeOK' /\ IdsInv'
<1>1. CASE Crash
  <2> DEFINE open   == {t \in Threads : thread[t].pc \in {"insert", "commit"}}
             nexts   == UNION {Elements(thread[t].next) : t \in Threads}
             batches == UNION {Elements(thread[t].batch) : t \in open}
             inHand == nexts \cup batches
             unsaid == UNION {Elements(thread[t].ids) : t \in Threads \ open}
  <2>1. \A t \in Threads : /\ Elements(thread[t].next) \subseteq Events
                           /\ Elements(thread[t].batch) \subseteq Events
                           /\ Elements(thread[t].ids) \subseteq Nat
    <3> SUFFICES ASSUME NEW t \in Threads
                 PROVE  /\ Elements(thread[t].next) \subseteq Events
                        /\ Elements(thread[t].batch) \subseteq Events
                        /\ Elements(thread[t].ids) \subseteq Nat
      OBVIOUS
    <3>1. thread[t].next \in Seq(Events) /\ thread[t].batch \in Seq(Events) /\ thread[t].ids \in Seq(Nat)
      BY TypeFacts DEF Hand
    <3> QED
      BY <3>1, NoElement
  <2>2. inHand \subseteq Events /\ unsaid \subseteq Nat /\ Elements(buffer) \subseteq Events
    <3>0. open \subseteq Threads
      OBVIOUS
    <3>1. inHand \subseteq Events
      <4> HIDE DEF open
      <4>1. nexts \subseteq Events
        BY <2>1
      <4>2. batches \subseteq Events
        BY <2>1, <3>0
      <4> QED
        BY <4>1, <4>2
    <3>2. unsaid \subseteq Nat
      BY <2>1
    <3>3. Elements(buffer) \subseteq Events
      BY TypeFacts, NoElement
    <3> QED
      BY <3>1, <3>2, <3>3
  <2>3. dropped' = [events |-> dropped.events \cup Elements(buffer) \cup inHand,
                    unheard |-> dropped.unheard \cup unsaid]
    BY <1>1 DEF Crash
  <2> HIDE DEF inHand, unsaid
  <2>4. dropped' \in [events : SUBSET Events, unheard : SUBSET Nat]
    BY <2>2, <2>3, TypeFacts
  <2>5. rows' \in Seq(Rows)
    <3>1. rows' = [i \in 1..Len(rows) |-> IF rows[i].state = "open" THEN [rows[i] EXCEPT !.state = "void"] ELSE rows[i]]
      BY <1>1, TypeFacts DEF Crash, RowIds
    <3>2. \A i \in 1..Len(rows) : [rows[i] EXCEPT !.state = "void"] \in Rows /\ rows[i] \in Rows
      BY TypeFacts DEF Rows, RowStates, RowIds
    <3>3. rows' \in [1..Len(rows) -> Rows]
      BY <3>1, <3>2
    <3>4. Len(rows) \in Nat
      BY TypeFacts
    <3> QED
      BY <3>3, <3>4
  <2>6. buffer' = <<>> /\ thread' = [t \in Threads |-> Free] /\ UNCHANGED <<logged, bus, listening, doubled, raced>>
        /\ faults' \in 0..MaxFaults
    BY <1>1, TypeFacts, LogAssumption DEF Crash, UseFault
  <2>7. TypeOK'
    BY <2>4, <2>5, <2>6, TypeFacts, FreeHand, TypesSuffice
  <2>8. IdsInv'
    BY <2>6, EmptyHand, FreeHand, NoElement DEF IdsInv, Apart
  <2> QED
    BY <2>7, <2>8
<1>2. CASE Hear \/ StopListening \/ Listen
  <2>1. UNCHANGED <<logged, buffer, thread, rows, doubled, raced>>
    BY <1>2 DEF Hear, StopListening, Listen
  <2>2. IdsInv'
    BY <2>1 DEF IdsInv
  <2>3. bus' \in Seq(Nat) /\ listening' \in BOOLEAN
    <3>1. bus # <<>> => Tail(bus) \in Seq(Nat)
      BY TypeFacts, TheTail
    <3>2. <<>> \in Seq(Nat)
      OBVIOUS
    <3>3. bus' = bus \/ bus' = <<>> \/ (bus # <<>> /\ bus' = Tail(bus))
      BY <1>2 DEF Hear, StopListening, Listen
    <3>4. listening' = TRUE \/ listening' = FALSE \/ listening' = listening
      BY <1>2 DEF Hear, StopListening, Listen
    <3> QED
      BY <3>1, <3>2, <3>3, <3>4, TypeFacts
  <2>4. dropped' \in [events : SUBSET Events, unheard : SUBSET Nat]
    <3>1. dropped' = dropped \/ dropped' = [dropped EXCEPT !.unheard = @ \cup Elements(bus)]
      BY <1>2 DEF Hear, StopListening, Listen
    <3>2. Elements(bus) \subseteq Nat
      BY TypeFacts, NoElement
    <3> QED
      BY <3>1, <3>2, TypeFacts
  <2>5. faults' \in 0..MaxFaults
    BY <1>2, TypeFacts, LogAssumption DEF Hear, StopListening, Listen, UseFault
  <2> QED
    BY <2>1, <2>2, <2>3, <2>4, <2>5, TypeFacts, TypesSuffice
<1> QED
  BY <1>1, <1>2

-----------------------------------------------------------------------------
(* What holds in every reachable state so far. *)

LEMMA BaseInit == Init => TypeOK /\ IdsInv
<1> SUFFICES ASSUME Init PROVE TypeOK /\ IdsInv
  OBVIOUS
<1>1. thread \in [Threads -> Hand]
  BY FreeHand DEF Init
<1>2. TypeOK
  <2>4. buffer \in Seq(1..MaxEvents) /\ bus \in Seq(Nat)
    BY DEF Init
  <2>5. Len(buffer) <= BufferSize
    BY FreeHand DEF Init
  <2>6. listening \in BOOLEAN /\ raced \in BOOLEAN
    BY Zenon DEF Init
  <2>1. logged \in 0..MaxEvents /\ faults \in 0..MaxFaults /\ doubled \subseteq 1..MaxEvents
    BY LogAssumption DEF Init
  <2>3. rows \in Seq([event : 1..MaxEvents, state : {"open", "committed", "void"}])
    BY DEF Init
  <2>2. dropped \in [events : SUBSET (1..MaxEvents), unheard : SUBSET Nat]
    BY DEF Init
  <2> QED
    BY <1>1, <2>1, <2>2, <2>3, <2>4, <2>5, <2>6 DEF TypeOK, Hand, Events
<1>3. IdsInv
  BY EmptyHand, FreeHand, NoElement DEF Init, IdsInv, Apart
<1> QED
  BY <1>2, <1>3

LEMMA BaseStep == TypeOK /\ IdsInv /\ [Next]_vars => (TypeOK /\ IdsInv)'
<1> SUFFICES ASSUME TypeOK, IdsInv, [Next]_vars PROVE TypeOK' /\ IdsInv'
  OBVIOUS
<1>1. CASE UNCHANGED vars
  BY <1>1 DEF vars, TypeOK, IdsInv
<1>2. ASSUME NEW t \in Threads, LogEvent(t) \/ Flush(t) \/ Exit(t) PROVE TypeOK' /\ IdsInv'
  BY <1>2, LoggingTypes, TakingKeepsIds
<1>3. ASSUME NEW t \in Threads, Insert(t) \/ Commit(t) \/ Publish(t) \/ PublishFails(t) PROVE TypeOK'
  <2>1. thread[t].pc = "publish" => thread[t].ids # <<>>
    BY DEF IdsInv, HandOK
  <2> QED
    BY <1>3, <2>1, PersistingTypes
<1>4. ASSUME NEW t \in Threads, Insert(t) \/ Commit(t) \/ Publish(t) \/ PublishFails(t) PROVE IdsInv'
  BY <1>4, InsertKeepsIds, CommitKeepsIds, PublishKeepsIds, FailingKeepsIds
<1>5. ASSUME NEW t \in Threads, StoreFails(t) \/ CommitAmbiguous(t) PROVE TypeOK' /\ IdsInv'
  BY <1>5, FailingTypes, FailingKeepsIds
<1> QED
  BY <1>1, <1>2, <1>3, <1>4, <1>5, OthersKeep DEF Next

\* Every variable of the event log keeps its type.
THEOREM LogTypeCorrect == Spec => []TypeOK
<1> QED
  BY BaseInit, BaseStep, PTL DEF Spec

-----------------------------------------------------------------------------
(* The event store the readers see. *)

Publishing  == {u \in Threads : thread[u].pc = "publish"}
States      == [i \in RowIds |-> rows[i].state]
Unannounced == UNION {Elements(thread[t].ids) : t \in Publishing}

\* The moves of the event store, told by what the log's variables map to.
LEMMA MappedOpen ==
    ASSUME NEW n \in Nat, n = Len(States') - Len(States), n >= 1,
           States' = States \o [i \in 1..n |-> "open"],
           Unannounced' = Unannounced, UNCHANGED <<bus, listening, dropped>>
    PROVE  Store!Next
<1>1. Store!Open(n)
  BY DEF Store!Open, States, Unannounced, Publishing
<1>2. n \in 1..(Len(States') - Len(States))
  <2>1. \A m \in Nat : m >= 1 => m \in 1..m
    OBVIOUS
  <2>2. n \in 1..n
    BY <2>1
  <2> QED
    BY <2>2, Zenon
<1> QED
  BY <1>1, <1>2 DEF Store!Next, States

LEMMA MappedCommit ==
    ASSUME NEW S, S \subseteq RowIds, S # {}, \A i \in S : rows[i].state = "open",
           States' = [i \in RowIds |-> IF i \in S THEN "committed" ELSE States[i]],
           \/ Unannounced' = Unannounced \cup S /\ dropped'.unheard = dropped.unheard
           \/ Unannounced' = Unannounced /\ dropped'.unheard = dropped.unheard \cup S,
           UNCHANGED <<bus, listening>>
    PROVE  Store!Next
<1>1. Store!Commit(S)
  BY DEF Store!Commit, Store!Opened, Store!Close, Store!RowIds, States, Unannounced, Publishing
<1>2. S \in SUBSET Store!RowIds
  BY DEF Store!RowIds, States
<1> QED
  BY <1>1, <1>2 DEF Store!Next

LEMMA MappedAbandon ==
    ASSUME NEW S, S \subseteq RowIds, \A i \in S : rows[i].state = "open",
           States' = [i \in RowIds |-> IF i \in S THEN "void" ELSE States[i]],
           NEW silent, silent \subseteq Unannounced,
           Unannounced' = Unannounced \ silent,
           dropped'.unheard = dropped.unheard \cup silent,
           UNCHANGED <<bus, listening>>
    PROVE  Store!Next
<1>1. Store!Abandon(S, silent)
  BY DEF Store!Abandon, Store!Close, Store!RowIds, States, Unannounced, Publishing
<1>2. S \in SUBSET Store!RowIds /\ silent \in SUBSET Unannounced
  BY DEF Store!RowIds, States
<1> QED
  BY <1>1, <1>2 DEF Store!Next, Unannounced, Publishing

LEMMA MappedAnnounce ==
    ASSUME NEW i \in Unannounced, Unannounced' = Unannounced \ {i},
           IF listening THEN bus' = Append(bus, i) /\ dropped'.unheard = dropped.unheard
           ELSE dropped'.unheard = dropped.unheard \cup {i} /\ bus' = bus,
           UNCHANGED <<rows, listening>>
    PROVE  Store!Next
<1>1. Store!Announce(i)
  BY DEF Store!Announce, Unannounced, Publishing, RowIds
<1> QED
  BY <1>1 DEF Store!Next, Unannounced, Publishing

LEMMA MappedStutter ==
    ASSUME UNCHANGED <<rows, bus, listening>>, Unannounced' = Unannounced,
           dropped'.unheard = dropped.unheard
    PROVE  UNCHANGED Store!store
BY DEF Store!store, Unannounced, Publishing, RowIds

\* What remains to be announced when one thread's hand changes.
LEMMA Announcements ==
    ASSUME thread \in [Threads -> Hand], IdsInv, NEW t \in Threads, NEW h, thread' = [thread EXCEPT ![t] = h]
    PROVE  LET before == IF thread[t].pc = "publish" THEN Elements(thread[t].ids) ELSE {}
               after  == IF h.pc = "publish" THEN Elements(h.ids) ELSE {}
           IN  /\ before \subseteq Unannounced
               /\ Unannounced' = (Unannounced \ before) \cup after
<1> DEFINE before == IF thread[t].pc = "publish" THEN Elements(thread[t].ids) ELSE {}
           after  == IF h.pc = "publish" THEN Elements(h.ids) ELSE {}
           others == UNION {Elements(thread[u].ids) : u \in Publishing \ {t}}
<1>1. Unannounced = others \cup before /\ others \cap before = {}
  <2>1. \A u \in Publishing \ {t} : Apart(thread[t], thread[u])
    BY DEF IdsInv, Publishing
  <2> QED
    BY <2>1 DEF Unannounced, Publishing, Apart
<1>2. Unannounced' = others \cup after
  <2>1. thread'[t] = h /\ \A u \in Threads \ {t} : thread'[u] = thread[u]
    OBVIOUS
  <2>2. Publishing' = (Publishing \ {t}) \cup (IF h.pc = "publish" THEN {t} ELSE {})
    BY <2>1 DEF Publishing
  <2>3. \A u \in Publishing \ {t} : thread'[u] = thread[u]
    BY <2>1 DEF Publishing
  <2>4. Unannounced' = UNION {Elements(thread'[u].ids) : u \in Publishing'}
    BY DEF Unannounced, Elements
  <2> QED
    BY <2>1, <2>2, <2>3, <2>4
<1> QED
  BY <1>1, <1>2

LEMMA TakingRefines ==
    ASSUME TypeOK, IdsInv, NEW t \in Threads, LogEvent(t) \/ Flush(t) \/ Exit(t)
    PROVE  UNCHANGED Store!store
<1>1. Unannounced' = Unannounced
  <2>1. CASE thread' = thread
    BY <2>1 DEF Unannounced, Publishing
  <2>2. ASSUME NEW h \in Hand, thread' = [thread EXCEPT ![t] = h], h.pc = "insert"
        PROVE  Unannounced' = Unannounced
    <3>1. thread[t].pc # "publish"
      BY TakeEffect
    <3> QED
      BY <2>2, <3>1, TypeFacts, Announcements
  <2> QED
    BY <2>1, <2>2, TakeEffect
<1> QED
  BY <1>1, TakeEffect, MappedStutter

LEMMA InsertRefines ==
    ASSUME TypeOK, IdsInv, NEW t \in Threads, Insert(t)
    PROVE  Store!Next
<1>3. PICK h \in Hand :
        /\ thread' = [thread EXCEPT ![t] = h] /\ h.pc = "commit"
        /\ DOMAIN h.ids = DOMAIN thread[t].batch
        /\ \A i \in DOMAIN h.ids : h.ids[i] = Len(rows) + i
        /\ rows' \in Seq(Rows) /\ \A i \in RowIds : rows'[i] = rows[i]
        /\ \A i \in DOMAIN h.ids : rows'[h.ids[i]].state = "open"
  BY Inserting
<1> DEFINE n == Len(thread[t].batch)
<1>1. thread[t].batch \in Seq(Events) /\ thread[t].batch # <<>> /\ thread[t].pc = "insert"
  BY TypeFacts DEF IdsInv, HandOK, Insert, Hand
<1>2. n \in Nat /\ n >= 1 /\ DOMAIN thread[t].batch = 1..n
  BY <1>1
<1>4. rows' = rows \o [i \in 1..n |-> [event |-> thread[t].batch[i], state |-> "open"]]
  BY <1>2 DEF Insert
<1>5. States' = States \o [i \in 1..n |-> "open"] /\ n = Len(States') - Len(States)
  <2>1. /\ rows \in Seq(Rows) /\ Len(rows) \in Nat /\ RowIds = 1..Len(rows)
        /\ \A i \in RowIds : rows[i].state \in RowStates
    BY TypeFacts DEF RowIds, Rows
  <2>2. Len(rows') = Len(rows) + n
    BY <1>2, <1>4, <2>1
  <2>3. RowIds' = 1..(Len(rows) + n)
    BY <1>3, <2>2 DEF RowIds
  <2>4. States \in Seq(RowStates) /\ Len(States) = Len(rows) /\ \A i \in 1..Len(rows) : States[i] = rows[i].state
    BY <2>1 DEF States
  <2>5. [i \in 1..n |-> "open"] \in Seq(RowStates) /\ Len([i \in 1..n |-> "open"]) = n
    BY <1>2 DEF RowStates
  <2>6. \A i \in 1..n : rows'[Len(rows) + i].state = "open"
    <3>1. \A i \in 1..n : h.ids[i] = Len(rows) + i /\ i \in DOMAIN h.ids
      BY <1>2, <1>3
    <3> QED
      BY <1>3, <3>1
  <2>7. States' = [i \in 1..(Len(rows) + n) |-> rows'[i].state]
    BY <2>3 DEF States
  <2> DEFINE joined == States \o [i \in 1..n |-> "open"]
  <2>8. /\ joined \in Seq(RowStates) /\ Len(joined) = Len(rows) + n
        /\ \A i \in 1..Len(rows) : joined[i] = rows[i].state
        /\ \A i \in 1..n : joined[Len(rows) + i] = "open"
    <3>1. ASSUME NEW q \in Seq(RowStates), Len(q) = n
          PROVE  /\ States \o q \in Seq(RowStates) /\ Len(States \o q) = Len(rows) + n
                 /\ \A i \in 1..Len(rows) : (States \o q)[i] = rows[i].state
                 /\ \A i \in 1..n : (States \o q)[Len(rows) + i] = q[i]
      <4>1. /\ States \o q \in Seq(RowStates) /\ Len(States \o q) = Len(States) + Len(q)
            /\ \A i \in 1..Len(States) : (States \o q)[i] = States[i]
            /\ \A i \in 1..Len(q) : (States \o q)[Len(States) + i] = q[i]
        <5>1. \A r, p \in Seq(RowStates) :
                /\ r \o p \in Seq(RowStates) /\ Len(r \o p) = Len(r) + Len(p)
                /\ \A i \in 1..Len(r) : (r \o p)[i] = r[i]
                /\ \A i \in 1..Len(p) : (r \o p)[Len(r) + i] = p[i]
          BY Joined
        <5> QED
          BY <2>4, <5>1
      <4> QED
        BY <2>4, <3>1, <4>1
    <3> QED
      BY <2>5, <3>1
  <2> HIDE DEF joined
  <2>9. \A i \in 1..(Len(rows) + n) : joined[i] = rows'[i].state
    <3> SUFFICES ASSUME NEW i \in 1..(Len(rows) + n) PROVE joined[i] = rows'[i].state
      OBVIOUS
    <3>1. CASE i <= Len(rows)
      BY <1>3, <2>1, <2>8, <3>1
    <3>2. CASE i > Len(rows)
      <4>1. i - Len(rows) \in 1..n /\ Len(rows) + (i - Len(rows)) = i
        BY <1>2, <2>1, <3>2
      <4> QED
        BY <2>6, <2>8, <4>1
    <3> QED
      BY <2>1, <3>1, <3>2
  <2>10. joined = [i \in 1..(Len(rows) + n) |-> joined[i]]
    BY <2>8
  <2>11. States' = joined
    BY <2>7, <2>9, <2>10
  <2> QED
    BY <1>2, <2>1, <2>4, <2>8, <2>11 DEF joined
<1> HIDE DEF n
<1>6. Unannounced' = Unannounced
  BY <1>1, <1>3, TypeFacts, Announcements
<1> QED
  BY <1>2, <1>5, <1>6, MappedOpen DEF Insert

\* The rows of an open transaction are open.
LEMMA OpenRows ==
    ASSUME TypeOK, IdsInv, NEW t \in Threads, thread[t].pc \in {"insert", "commit"}
    PROVE  /\ Elements(thread[t].ids) \subseteq RowIds
           /\ \A i \in Elements(thread[t].ids) : rows[i].state = "open"
           /\ thread[t].pc = "commit" => Elements(thread[t].ids) # {}
<1>1. thread[t].ids \in Seq(Nat)
  BY TypeFacts DEF Hand
<1>2. CASE thread[t].pc = "insert"
  BY <1>2, NoElement DEF IdsInv, HandOK
<1>3. CASE thread[t].pc = "commit"
  <2>1. thread[t].ids # <<>>
    BY <1>3 DEF IdsInv, HandOK
  <2>2. Elements(thread[t].ids) # {}
    BY <1>1, <2>1, NoElement
  <2>3. \A k \in DOMAIN thread[t].ids : thread[t].ids[k] \in RowIds /\ rows[thread[t].ids[k]].state = "open"
    <3>1. HandOK(thread[t], rows)
      BY DEF IdsInv
    <3>2. \A k \in DOMAIN thread[t].ids :
            /\ thread[t].ids[k] \in RowIds
            /\ rows[thread[t].ids[k]].state = "open"
      BY <1>3, <3>1 DEF HandOK, RowIds
    <3> QED
      BY <3>2
  <2> QED
    BY <2>2, <2>3 DEF Elements
<1> QED
  BY <1>2, <1>3

\* What setting the rows of a transaction does to the states.
LEMMA SetStates ==
    ASSUME TypeOK, NEW ids, NEW state \in RowStates, SetRows(ids, state)
    PROVE  States' = [i \in RowIds |-> IF i \in Elements(ids) THEN state ELSE States[i]]
<1>1. RowIds' = RowIds /\ \A i \in RowIds : rows'[i].state = IF i \in Elements(ids) THEN state ELSE rows[i].state
  BY RowsSet DEF RowIds
<1> QED
  BY <1>1 DEF States

LEMMA CommitRefines ==
    ASSUME TypeOK, IdsInv, NEW t \in Threads, Commit(t) \/ CommitAmbiguous(t)
    PROVE  Store!Next
<1> DEFINE S == Elements(thread[t].ids)
<1>1. thread[t] \in Hand /\ thread[t].pc = "commit" /\ SetRows(thread[t].ids, "committed")
  BY TypeFacts DEF Commit, CommitAmbiguous
<1>2. S \subseteq RowIds /\ (\A i \in S : rows[i].state = "open") /\ S # {}
  BY <1>1, OpenRows
<1>3. States' = [i \in RowIds |-> IF i \in S THEN "committed" ELSE States[i]]
  BY <1>1, SetStates DEF RowStates
<1>4. CASE Commit(t)
  <2> DEFINE h == [thread[t] EXCEPT !.pc = "publish"]
  <2>1. thread' = [thread EXCEPT ![t] = h] /\ h.pc = "publish" /\ h.ids = thread[t].ids
    BY <1>1, <1>4, TypeFacts DEF Commit, Hand
  <2> HIDE DEF h
  <2>2. Unannounced' = Unannounced \cup S
    BY <1>1, <2>1, TypeFacts, Announcements
  <2> QED
    BY <1>2, <1>3, <1>4, <2>2, MappedCommit DEF Commit
<1>5. CASE CommitAmbiguous(t)
  <2>1. thread' = [thread EXCEPT ![t] = Proceed(t)] /\ dropped'.unheard = dropped.unheard \cup S
    BY <1>5 DEF CommitAmbiguous, NotStored
  <2>2. Proceed(t).pc # "publish"
    BY <1>1, Proceeding, FreeHand
  <2> HIDE DEF Proceed
  <2>3. Unannounced' = Unannounced
    BY <1>1, <2>1, <2>2, TypeFacts, Announcements
  <2> QED
    BY <1>2, <1>3, <1>5, <2>1, <2>3, MappedCommit DEF CommitAmbiguous
<1> QED
  BY <1>4, <1>5

LEMMA StoreFailsRefines ==
    ASSUME TypeOK, IdsInv, NEW t \in Threads, StoreFails(t)
    PROVE  Store!Next
<1> DEFINE S == Elements(thread[t].ids)
<1>1. thread[t] \in Hand /\ thread[t].pc \in {"insert", "commit"} /\ SetRows(thread[t].ids, "void")
      /\ thread' = [thread EXCEPT ![t] = Proceed(t)] /\ dropped'.unheard = dropped.unheard \cup {}
      /\ UNCHANGED <<bus, listening>>
  BY TypeFacts DEF StoreFails, NotStored
<1>2. S \subseteq RowIds /\ (\A i \in S : rows[i].state = "open")
  BY <1>1, OpenRows
<1>3. States' = [i \in RowIds |-> IF i \in S THEN "void" ELSE States[i]]
  BY <1>1, SetStates DEF RowStates
<1>4. Proceed(t).pc # "publish"
  BY <1>1, Proceeding, FreeHand
<1> HIDE DEF Proceed
<1>5. Unannounced' = Unannounced \ {} /\ {} \subseteq Unannounced
  BY <1>1, <1>4, TypeFacts, Announcements
<1> QED
  BY <1>1, <1>2, <1>3, <1>5, MappedAbandon

LEMMA PublishRefines ==
    ASSUME TypeOK, IdsInv, NEW t \in Threads, Publish(t)
    PROVE  Store!Next
<1>1. thread[t] \in Hand /\ thread[t].pc = "publish" /\ UNCHANGED <<rows, listening>>
  BY TypeFacts DEF Publish
<1>2. thread[t].ids \in Seq(Nat) /\ thread[t].ids # <<>> /\ Injective(thread[t].ids)
  BY <1>1 DEF Hand, IdsInv, HandOK
<1> DEFINE i == Head(thread[t].ids)
<1>3. /\ Elements(thread[t].ids) = {i} \cup Elements(Tail(thread[t].ids))
      /\ i \notin Elements(Tail(thread[t].ids))
      /\ Len(Tail(thread[t].ids)) = Len(thread[t].ids) - 1 /\ Tail(thread[t].ids) \in Seq(Nat)
  BY <1>2, TheTail
<1>4. i \in Unannounced /\ Unannounced' = Unannounced \ {i}
  <2>1. CASE Len(thread[t].ids) = 1 /\ thread' = [thread EXCEPT ![t] = Proceed(t)]
    <3>1. Proceed(t).pc # "publish"
      BY <1>1, Proceeding, FreeHand
    <3>2. Elements(Tail(thread[t].ids)) = {}
      <4>1. Len(Tail(thread[t].ids)) = 0 /\ Tail(thread[t].ids) \in Seq(Nat)
        BY <1>3, <2>1
      <4>2. \A q \in Seq(Nat) : Len(q) = 0 => Elements(q) = {}
        BY DEF Elements
      <4> QED
        BY <4>1, <4>2
    <3> HIDE DEF Proceed
    <3> QED
      BY <1>1, <1>3, <2>1, <3>1, <3>2, TypeFacts, Announcements
  <2>2. CASE thread' = [thread EXCEPT ![t] = [thread[t] EXCEPT !.ids = Tail(thread[t].ids)]]
    <3> DEFINE h == [thread[t] EXCEPT !.ids = Tail(thread[t].ids)]
    <3>1. h.pc = "publish" /\ h.ids = Tail(thread[t].ids) /\ thread' = [thread EXCEPT ![t] = h]
      BY <1>1, <2>2 DEF Hand
    <3> HIDE DEF h
    <3>2. /\ Elements(thread[t].ids) \subseteq Unannounced
          /\ Unannounced' = (Unannounced \ Elements(thread[t].ids)) \cup Elements(Tail(thread[t].ids))
      BY <1>1, <3>1, TypeFacts, Announcements
    <3> QED
      BY <1>3, <3>2
  <2> QED
    BY <2>1, <2>2, PublishingHand
<1>5. IF listening THEN bus' = Append(bus, i) /\ dropped'.unheard = dropped.unheard
      ELSE dropped'.unheard = dropped.unheard \cup {i} /\ bus' = bus
  BY TypeFacts DEF Publish
<1> QED
  BY <1>1, <1>4, <1>5, MappedAnnounce

LEMMA PublishFailsRefines ==
    ASSUME TypeOK, IdsInv, NEW t \in Threads, PublishFails(t)
    PROVE  Store!Next
<1> DEFINE silent == Elements(thread[t].ids)
<1>1. thread[t] \in Hand /\ thread[t].pc = "publish" /\ UNCHANGED <<rows, bus, listening>>
      /\ thread' = [thread EXCEPT ![t] = Proceed(t)]
  BY TypeFacts DEF PublishFails
<1>2. Proceed(t).pc # "publish"
  BY <1>1, Proceeding, FreeHand
<1> HIDE DEF Proceed
<1>3. silent \subseteq Unannounced /\ Unannounced' = Unannounced \ silent
  BY <1>1, <1>2, TypeFacts, Announcements
<1>4. States' = [i \in RowIds |-> IF i \in {} THEN "void" ELSE States[i]]
  BY <1>1 DEF States, RowIds
<1>5. dropped'.unheard = dropped.unheard \cup silent
  BY TypeFacts DEF PublishFails
<1>6. \A S : S = {} => S \subseteq RowIds /\ \A i \in S : rows[i].state = "open"
  OBVIOUS
<1>7. ASSUME NEW S, S = {} PROVE Store!Next
  <2>1. States' = [i \in RowIds |-> IF i \in S THEN "void" ELSE States[i]]
    BY <1>4, <1>7
  <2> QED
    BY <1>1, <1>3, <1>5, <1>6, <1>7, <2>1, MappedAbandon
<1> QED
  BY <1>7

\* With the process go its open transactions and all it had not published.
LEMMA CrashRefines ==
    ASSUME TypeOK, IdsInv, Crash
    PROVE  Store!Next
<1> DEFINE S    == {i \in RowIds : rows[i].state = "open"}
           open == {t \in Threads : thread[t].pc \in {"insert", "commit"}}
<1>1. States' = [i \in RowIds |-> IF i \in S THEN "void" ELSE States[i]]
  <2>1. rows' = [i \in RowIds |-> IF rows[i].state = "open" THEN [rows[i] EXCEPT !.state = "void"] ELSE rows[i]]
    BY DEF Crash
  <2>2. RowIds' = RowIds
    BY <2>1 DEF RowIds
  <2>3. \A i \in RowIds : rows'[i].state = IF rows[i].state = "open" THEN "void" ELSE rows[i].state
    BY <2>1, TypeFacts DEF Rows
  <2> QED
    BY <2>2, <2>3 DEF States
<1>2. UNION {Elements(thread[t].ids) : t \in Threads \ open} = Unannounced
  <2>1. \A t \in Threads \ open : t \in Publishing \/ Elements(thread[t].ids) = {}
    <3>1. \A t \in Threads : thread[t].pc \in {"idle", "insert", "commit", "publish"}
      BY TypeFacts DEF Hand
    <3>2. \A t \in Threads : thread[t].pc = "idle" => thread[t].ids = <<>>
      BY DEF IdsInv, HandOK
    <3> QED
      BY <3>1, <3>2, NoElement DEF Publishing
  <2>2. Publishing \subseteq Threads \ open
    BY DEF Publishing
  <2> HIDE DEF open
  <2> QED
    BY <2>1, <2>2 DEF Unannounced
<1>3. dropped'.unheard = dropped.unheard \cup (UNION {Elements(thread[t].ids) : t \in Threads \ open})
  BY DEF Crash
<1>4. Unannounced' = {}
  <2>1. \A t \in Threads : thread'[t].pc = "idle"
    BY FreeHand DEF Crash
  <2> QED
    BY <2>1 DEF Unannounced, Publishing
<1>5. Unannounced' = Unannounced \ Unannounced /\ Unannounced \subseteq Unannounced
  BY <1>4
<1>6. UNCHANGED <<bus, listening>>
  BY DEF Crash
<1>7. S \subseteq RowIds /\ \A i \in S : rows[i].state = "open"
  OBVIOUS
<1> HIDE DEF S, open
<1>8. dropped'.unheard = dropped.unheard \cup Unannounced
  BY <1>2, <1>3
<1> QED
  BY <1>1, <1>5, <1>6, <1>7, <1>8, MappedAbandon

LEMMA ListenerRefines ==
    ASSUME TypeOK, IdsInv, Hear \/ StopListening \/ Listen
    PROVE  Store!Next
<1>1. UNCHANGED <<rows, thread>>
  BY DEF Hear, StopListening, Listen
<1>2. States' = States /\ Unannounced' = Unannounced
  BY <1>1 DEF States, RowIds, Unannounced, Publishing
<1>3. CASE Hear
  <2>1. Store!Hear
    BY <1>2, <1>3 DEF Hear, Store!Hear, States, Unannounced, Publishing
  <2> QED
    BY <2>1 DEF Store!Next
<1>4. CASE StopListening
  <2>1. dropped'.unheard = dropped.unheard \cup Elements(bus) /\ listening' = FALSE /\ bus' = <<>>
    BY <1>4, TypeFacts DEF StopListening
  <2>2. Store!LoseBus
    BY <1>2, <2>1 DEF Store!LoseBus, Store!Elements, Elements, States, Unannounced, Publishing
  <2> QED
    BY <2>2 DEF Store!Next
<1>5. CASE Listen
  <2>1. Store!Rejoin
    BY <1>2, <1>5 DEF Listen, Store!Rejoin, States, Unannounced, Publishing
  <2> QED
    BY <2>1 DEF Store!Next
<1> QED
  BY <1>3, <1>4, <1>5

LEMMA StoreInit == Init => Store!Init
<1> SUFFICES ASSUME Init PROVE Store!Init
  OBVIOUS
<1>1. States = <<>>
  BY DEF Init, States, RowIds
<1>2. Unannounced = {}
  BY FreeHand DEF Init, Unannounced, Publishing
<1>3. bus = <<>> /\ dropped.unheard = {} /\ listening \in BOOLEAN
  BY Zenon DEF Init
<1> QED
  BY <1>1, <1>2, <1>3 DEF Store!Init, States, Unannounced, Publishing

LEMMA StoreStep ==
    ASSUME TypeOK, IdsInv, [Next]_vars
    PROVE  [Store!Next]_(Store!store)
<1>1. CASE UNCHANGED vars
  <2>1. UNCHANGED <<rows, thread, bus, listening, dropped>>
    BY <1>1 DEF vars
  <2>2. Unannounced' = Unannounced
    BY <2>1 DEF Unannounced, Publishing
  <2> QED
    BY <2>1, <2>2, MappedStutter
<1>2. ASSUME NEW t \in Threads,
             \/ LogEvent(t) \/ Flush(t) \/ Exit(t)
             \/ Insert(t) \/ Commit(t) \/ Publish(t)
             \/ StoreFails(t) \/ CommitAmbiguous(t) \/ PublishFails(t)
      PROVE  [Store!Next]_(Store!store)
  BY <1>2, TakingRefines, InsertRefines, CommitRefines, PublishRefines, StoreFailsRefines, PublishFailsRefines
<1>3. CASE Crash
  BY <1>3, CrashRefines
<1>4. CASE Hear \/ StopListening \/ Listen
  BY <1>4, ListenerRefines
<1> QED
  BY <1>1, <1>2, <1>3, <1>4 DEF Next

\* However threads, transactions, Redis and crashes interleave, the readers of the
\* table and of the bus see an EventStore: what is published is committed before,
\* is published once, and every visible row is announced, about to be, or known to
\* be unheard (_persist_task_events, publish_task_events).
THEOREM LogImplementsStore == Spec => IsEventStore
<1>1. Init => Store!Init
  BY StoreInit
<1>2. TypeOK /\ IdsInv /\ [Next]_vars => [Store!Next]_(Store!store)
  BY StoreStep
<1> QED
  BY <1>1, <1>2, BaseInit, BaseStep, PTL DEF Spec, IsEventStore, Store!Spec

-----------------------------------------------------------------------------
(***************************************************************************)
(* Where the events are: none vanishes, none is stored twice unseen, and   *)
(* what waits is in the order it was logged while no two threads hold      *)
(* batches they may put back.                                              *)
(***************************************************************************)

InStore(h) == h.pc \in {"insert", "commit"}

\* The events in a thread's hands that are not stored yet.
Holds(h) == Elements(h.next) \cup (IF InStore(h) THEN Elements(h.batch) ELSE {})

InHands == UNION {Holds(thread[t]) : t \in Threads}
Waiting == Elements(buffer) \cup InHands
InTable == {rows[i].event : i \in Stored}

OnceInHand(h) ==
    /\ Injective(h.next)
    /\ InStore(h) => Injective(h.batch) /\ Elements(h.batch) \cap Elements(h.next) = {}

\* Every event that waits was logged, and waits in one place only.
Owned ==
    /\ Injective(buffer)
    /\ Waiting \subseteq 1..logged
    /\ \A i \in RowIds : rows[i].event \in 1..logged
    /\ \A t \in Threads :
          /\ OnceInHand(thread[t])
          /\ Holds(thread[t]) \cap Elements(buffer) = {}
          /\ \A u \in Threads \ {t} : Holds(thread[t]) \cap Holds(thread[u]) = {}

Covered == 1..logged \subseteq Waiting \cup InTable \cup dropped.events

\* What is stored waits no more, and is stored once, unless it was doubled.
StoredOnce ==
    /\ InTable \cap Waiting \subseteq doubled
    /\ \A i, j \in Stored : rows[i].event = rows[j].event => i = j \/ rows[i].event \in doubled

EventsInv == Owned /\ Covered /\ StoredOnce

-----------------------------------------------------------------------------
(* What one thread's step may do to the places events wait in.             *)

LEMMA HandsAfter ==
    ASSUME thread \in [Threads -> Hand], NEW t \in Threads, NEW h, thread' = [thread EXCEPT ![t] = h]
    PROVE  /\ \E others : InHands = Holds(thread[t]) \cup others /\ InHands' = Holds(h) \cup others
           /\ thread'[t] = h /\ \A u \in Threads \ {t} : thread'[u] = thread[u]
<1> DEFINE others == UNION {Holds(thread[u]) : u \in Threads \ {t}}
<1>1. thread'[t] = h /\ \A u \in Threads \ {t} : thread'[u] = thread[u]
  OBVIOUS
<1> HIDE DEF Holds
<1>2. InHands = Holds(thread[t]) \cup others
  BY DEF InHands
<1>3. InHands' = Holds(h) \cup others
  <2>1. InHands' = UNION {Holds(thread'[u]) : u \in Threads}
    BY DEF InHands, Holds, Elements, InStore
  <2> QED
    BY <1>1, <2>1
<1> QED
  BY <1>1, <1>2, <1>3

\* What the thread holds and what the buffer holds are exchanged.
LEMMA ExchangeOwned ==
    ASSUME thread \in [Threads -> Hand], Owned, NEW t \in Threads, NEW h, thread' = [thread EXCEPT ![t] = h],
           NEW fresh, fresh \cap (1..logged) = {}, (1..logged) \cup fresh = 1..logged',
           OnceInHand(h), Injective(buffer'), Holds(h) \cap Elements(buffer') = {},
           Holds(h) \cup Elements(buffer') \subseteq Elements(buffer) \cup Holds(thread[t]) \cup fresh,
           \A i \in RowIds' : rows'[i].event \in 1..logged'
    PROVE  Owned' /\ Waiting' \subseteq Waiting \cup fresh
<1>1. thread'[t] = h /\ \A u \in Threads \ {t} : thread'[u] = thread[u]
  BY HandsAfter
<1>2. PICK others : InHands = Holds(thread[t]) \cup others /\ InHands' = Holds(h) \cup others
  BY HandsAfter
<1>3. Waiting' \subseteq Waiting \cup fresh /\ Waiting' \subseteq 1..logged'
  <2>1. Waiting' = Elements(buffer') \cup InHands'
    BY DEF Waiting, Elements
  <2> QED
    BY <1>2, <2>1 DEF Waiting, Owned
<1>4. \A u \in Threads \ {t} : /\ Holds(thread[u]) \cap Elements(buffer') = {}
                               /\ Holds(h) \cap Holds(thread[u]) = {}
                               /\ Holds(thread[u]) \subseteq 1..logged
  <2> SUFFICES ASSUME NEW u \in Threads \ {t}
               PROVE  /\ Holds(thread[u]) \cap Elements(buffer') = {}
                      /\ Holds(h) \cap Holds(thread[u]) = {}
                      /\ Holds(thread[u]) \subseteq 1..logged
    OBVIOUS
  <2>1. /\ Holds(thread[u]) \cap Elements(buffer) = {}
        /\ Holds(thread[t]) \cap Holds(thread[u]) = {}
        /\ Holds(thread[u]) \subseteq 1..logged
    BY DEF Owned, Waiting, InHands
  <2> QED
    BY <2>1
<1>5. \A u \in Threads : OnceInHand(thread'[u]) /\ Holds(thread'[u]) \cap Elements(buffer') = {}
  BY <1>1, <1>4 DEF Owned
<1>6. \A u, v \in Threads : u # v => Holds(thread'[u]) \cap Holds(thread'[v]) = {}
  <2> SUFFICES ASSUME NEW u \in Threads, NEW v \in Threads, u # v
               PROVE  Holds(thread'[u]) \cap Holds(thread'[v]) = {}
    OBVIOUS
  <2>1. Holds(thread[u]) \cap Holds(thread[v]) = {}
    BY DEF Owned
  <2> QED
    BY <1>1, <1>4, <2>1
<1> QED
  BY <1>3, <1>5, <1>6 DEF Owned, OnceInHand, Holds, InStore, Injective, Elements

LEMMA ExchangeCovered ==
    ASSUME thread \in [Threads -> Hand], Covered, NEW t \in Threads, NEW h, thread' = [thread EXCEPT ![t] = h],
           NEW fresh, (1..logged) \cup fresh = 1..logged',
           Elements(buffer) \cup Holds(thread[t]) \cup fresh
              \subseteq Elements(buffer') \cup Holds(h) \cup dropped'.events \cup InTable',
           dropped.events \subseteq dropped'.events, InTable \subseteq InTable'
    PROVE  Covered'
<1>1. PICK others : InHands = Holds(thread[t]) \cup others /\ InHands' = Holds(h) \cup others
  BY HandsAfter
<1>2. Waiting' = Elements(buffer') \cup InHands'
  BY DEF Waiting, Elements
<1>3. 1..logged' \subseteq Waiting' \cup InTable' \cup dropped'.events
  BY <1>1, <1>2 DEF Covered, Waiting
<1> QED
  BY <1>3 DEF Covered

\* Nothing is committed.
LEMMA SameTable ==
    ASSUME StoredOnce, Stored' = Stored, \A i \in Stored : rows'[i].event = rows[i].event,
           doubled \subseteq doubled'
    PROVE  /\ InTable' = InTable
           /\ Waiting' \cap InTable \subseteq Waiting => StoredOnce'
<1>1. InTable' = InTable
  BY DEF InTable
<1>2. \A i, j \in Stored' : rows'[i].event = rows'[j].event => i = j \/ rows'[i].event \in doubled'
  BY DEF StoredOnce
<1> QED
  BY <1>1, <1>2 DEF StoredOnce

LEMMA SameRows ==
    ASSUME StoredOnce, UNCHANGED rows, doubled \subseteq doubled'
    PROVE  /\ InTable' = InTable /\ Stored' = Stored /\ RowIds' = RowIds
           /\ Waiting' \cap InTable \subseteq Waiting => StoredOnce'
<1>1. Stored' = Stored /\ RowIds' = RowIds
  BY DEF Stored, RowIds
<1> QED
  BY <1>1, SameTable

-----------------------------------------------------------------------------
(* Logging and flushing. *)

\* The events in a hand that took the buffer, and in what it left behind.
LEMMA TakenHand ==
    ASSUME TypeOK, Owned, NEW t \in Threads, NEW next \in Seq(Events),
           TakeBuffer(t, TRUE, next) \/ TakeBuffer(t, FALSE, next), buffer # <<>> \/ next # <<>>,
           Injective(next), Elements(next) \cap Elements(buffer) = {}
    PROVE  \E h \in Hand :
             /\ thread' = [thread EXCEPT ![t] = h] /\ buffer' = <<>>
             /\ Holds(h) = Elements(buffer) \cup Elements(next)
             /\ OnceInHand(h)
<1>1. PICK h \in Hand :
        /\ thread' = [thread EXCEPT ![t] = h] /\ buffer' = <<>>
        /\ h.pc = "insert" /\ h.ids = <<>> /\ h.batch # <<>>
        /\ \/ buffer = <<>> /\ h.batch = next /\ h.next = <<>> /\ h.requeue = FALSE
           \/ buffer # <<>> /\ h.batch = buffer /\ h.next = next
  BY Taking, Zenon
<1>2. InStore(h)
  BY <1>1 DEF InStore
<1>3. Injective(buffer)
  BY DEF Owned
<1>4. CASE buffer = <<>> /\ h.batch = next /\ h.next = <<>>
  <2>1. Holds(h) = Elements(buffer) \cup Elements(next) /\ OnceInHand(h)
    BY <1>2, <1>4, NoElement DEF Holds, OnceInHand
  <2> QED
    BY <1>1, <2>1
<1>5. CASE h.batch = buffer /\ h.next = next
  <2>1. Holds(h) = Elements(buffer) \cup Elements(next) /\ OnceInHand(h)
    BY <1>2, <1>3, <1>5 DEF Holds, OnceInHand
  <2> QED
    BY <1>1, <2>1
<1> QED
  BY <1>1, <1>4, <1>5

\* The buffer takes the event, and may go to the thread.
LEMMA BufferedHand ==
    ASSUME TypeOK, IdsInv, Owned, NEW t \in Threads, thread[t].pc = "idle",
           NEW e \in Events, e \notin 1..logged, \E due \in BOOLEAN : Buffer(t, e, due)
    PROVE  \E h \in Hand :
             /\ thread' = [thread EXCEPT ![t] = h]
             /\ OnceInHand(h) /\ Injective(buffer') /\ Holds(h) \cap Elements(buffer') = {}
             /\ Holds(h) \cup Elements(buffer') \subseteq Elements(buffer) \cup {e}
             /\ Elements(buffer) \cup {e} \subseteq Elements(buffer') \cup Holds(h) \cup dropped'.events
             /\ dropped.events \subseteq dropped'.events
<1> DEFINE kept == Newest(Append(buffer, e))
           h    == Holding(kept, TRUE, <<>>)
<1>1. buffer \in Seq(Events) /\ thread \in [Threads -> Hand]
  BY TypeFacts
<1>2. Injective(buffer) /\ e \notin Elements(buffer)
  BY DEF Owned, Waiting
<1>3. Append(buffer, e) \in Seq(Events) /\ Injective(Append(buffer, e))
  BY <1>1, <1>2, Appending
<1>4. /\ kept \in Seq(Events) /\ kept # <<>>
      /\ dropped' = [dropped EXCEPT !.events = @ \cup Oldest(Append(buffer, e))]
      /\ Elements(buffer) \cup {e} = Elements(kept) \cup Oldest(Append(buffer, e))
      /\ \/ buffer' = kept /\ thread' = thread
         \/ buffer' = <<>> /\ thread' = [thread EXCEPT ![t] = h]
  BY Buffering
<1>5. Injective(kept)
  BY <1>3, NewestAndOldest
<1>6. dropped'.events = dropped.events \cup Oldest(Append(buffer, e))
  BY <1>4, TypeFacts
<1>7. Holds(thread[t]) = {} /\ OnceInHand(thread[t])
  <2>1. thread[t].next = <<>>
    BY DEF IdsInv, HandOK
  <2> QED
    BY <2>1, NoElement DEF Holds, InStore, OnceInHand
<1>8. h \in Hand /\ h.pc = "insert" /\ h.batch = kept /\ h.next = <<>>
  <2> HIDE DEF kept
  <2> QED
    BY <1>4, FreeHand DEF Holding, Hand
<1> HIDE DEF kept, h
<1>9. CASE buffer' = kept /\ thread' = thread
  <2>1. thread' = [thread EXCEPT ![t] = thread[t]]
    BY <1>1, <1>9
  <2> QED
    BY <1>1, <1>4, <1>5, <1>6, <1>7, <1>9, <2>1
<1>10. CASE buffer' = <<>> /\ thread' = [thread EXCEPT ![t] = h]
  <2>1. Holds(h) = Elements(kept) /\ OnceInHand(h)
    BY <1>5, <1>8, NoElement DEF Holds, InStore, OnceInHand
  <2> QED
    BY <1>4, <1>6, <1>8, <1>10, <2>1, NoElement
<1> QED
  BY <1>4, <1>9, <1>10

LEMMA TakeEvents ==
    ASSUME TypeOK, IdsInv, Owned, NEW t \in Threads, LogEvent(t) \/ Flush(t) \/ Exit(t)
    PROVE  \E h \in Hand, fresh \in SUBSET Events :
             /\ thread' = [thread EXCEPT ![t] = h]
             /\ fresh \cap (1..logged) = {} /\ (1..logged) \cup fresh = 1..logged'
             /\ OnceInHand(h) /\ Injective(buffer') /\ Holds(h) \cap Elements(buffer') = {}
             /\ Holds(h) \cup Elements(buffer') \subseteq Elements(buffer) \cup fresh
             /\ Elements(buffer) \cup fresh \subseteq Elements(buffer') \cup Holds(h) \cup dropped'.events
             /\ dropped.events \subseteq dropped'.events
<1>1. buffer \in Seq(Events) /\ logged \in Nat
  BY TypeFacts DEF Events
<1>2. CASE LogEvent(t)
  <2> DEFINE e == logged + 1
  <2>1. /\ thread[t].pc = "idle" /\ logged' = e /\ e \in Events
        /\ \/ UNCHANGED dropped /\ TakeBuffer(t, TRUE, <<e>>)
           \/ \E due \in BOOLEAN : Buffer(t, e, due)
    BY <1>2, LogEventEffect
  <2>2. {e} \cap (1..logged) = {} /\ (1..logged) \cup {e} = 1..logged' /\ e \notin 1..logged /\ {e} \in SUBSET Events
    BY <1>1, <2>1
  <2> HIDE DEF e
  <2>3. CASE UNCHANGED dropped /\ TakeBuffer(t, TRUE, <<e>>)
    <3>1. /\ <<e>> \in Seq(Events) /\ <<e>> # <<>>
          /\ Elements(<<e>>) = {e} /\ Injective(<<e>>)
      BY <2>1, OneElement
    <3>2. Elements(<<e>>) \cap Elements(buffer) = {}
      BY <2>2, <3>1 DEF Owned, Waiting
    <3>3. PICK h \in Hand :
             /\ thread' = [thread EXCEPT ![t] = h] /\ buffer' = <<>>
             /\ Holds(h) = Elements(buffer) \cup Elements(<<e>>) /\ OnceInHand(h)
      BY <2>3, <3>1, <3>2, TakenHand
    <3> QED
      BY <2>2, <2>3, <3>1, <3>3, NoElement
  <2>4. CASE \E due \in BOOLEAN : Buffer(t, e, due)
    <3>1. PICK h \in Hand :
             /\ thread' = [thread EXCEPT ![t] = h]
             /\ OnceInHand(h) /\ Injective(buffer') /\ Holds(h) \cap Elements(buffer') = {}
             /\ Holds(h) \cup Elements(buffer') \subseteq Elements(buffer) \cup {e}
             /\ Elements(buffer) \cup {e} \subseteq Elements(buffer') \cup Holds(h) \cup dropped'.events
             /\ dropped.events \subseteq dropped'.events
      BY <2>1, <2>2, <2>4, BufferedHand
    <3> QED
      BY <2>2, <3>1
  <2> QED
    BY <2>1, <2>3, <2>4
<1>3. CASE Flush(t) \/ Exit(t)
  <2>1. /\ UNCHANGED <<logged, dropped>> /\ buffer # <<>>
        /\ TakeBuffer(t, TRUE, <<>>) \/ TakeBuffer(t, FALSE, <<>>)
    BY <1>3 DEF Flush, Exit
  <2>2. PICK h \in Hand :
             /\ thread' = [thread EXCEPT ![t] = h] /\ buffer' = <<>>
             /\ Holds(h) = Elements(buffer) \cup Elements(<<>>) /\ OnceInHand(h)
    <3>1. /\ <<>> \in Seq(Events) /\ Injective(<<>>)
          /\ Elements(<<>>) \cap Elements(buffer) = {}
      BY FreeHand, NoElement
    <3> QED
      BY <2>1, <3>1, TakenHand, Zenon
  <2>3. {} \in SUBSET Events /\ {} \cap (1..logged) = {} /\ (1..logged) \cup {} = 1..logged'
    BY <2>1
  <2> QED
    BY <2>1, <2>2, <2>3, NoElement
<1> QED
  BY <1>2, <1>3

LEMMA TakingKeepsEvents ==
    ASSUME TypeOK, IdsInv, EventsInv, NEW t \in Threads, LogEvent(t) \/ Flush(t) \/ Exit(t)
    PROVE  EventsInv'
<1>1. thread \in [Threads -> Hand] /\ UNCHANGED <<rows, doubled>> /\ Owned /\ Covered /\ StoredOnce
  BY TypeFacts, TakeEffect DEF EventsInv
<1>2. Holds(thread[t]) = {}
  <2>1. thread[t].next = <<>> /\ thread[t].pc = "idle"
    BY TakeEffect DEF IdsInv, HandOK
  <2> QED
    BY <2>1, NoElement DEF Holds, InStore
<1>3. PICK h \in Hand, fresh \in SUBSET Events :
             /\ thread' = [thread EXCEPT ![t] = h]
             /\ fresh \cap (1..logged) = {} /\ (1..logged) \cup fresh = 1..logged'
             /\ OnceInHand(h) /\ Injective(buffer') /\ Holds(h) \cap Elements(buffer') = {}
             /\ Holds(h) \cup Elements(buffer') \subseteq Elements(buffer) \cup fresh
             /\ Elements(buffer) \cup fresh \subseteq Elements(buffer') \cup Holds(h) \cup dropped'.events
             /\ dropped.events \subseteq dropped'.events
  BY <1>1, TakeEvents
<1>4. InTable' = InTable /\ RowIds' = RowIds
  BY <1>1, SameRows
<1>5. \A i \in RowIds' : rows'[i].event \in 1..logged'
  BY <1>1, <1>3, <1>4 DEF Owned
<1>6. Owned' /\ Waiting' \subseteq Waiting \cup fresh
  BY <1>1, <1>3, <1>5, ExchangeOwned
<1>7. Covered'
  BY <1>1, <1>2, <1>3, <1>4, ExchangeCovered
<1>8. InTable \subseteq 1..logged
  BY <1>1 DEF InTable, Owned, Stored
<1>9. StoredOnce'
  <2>1. Waiting' \cap InTable \subseteq Waiting
    BY <1>3, <1>6, <1>8
  <2> QED
    BY <1>1, <2>1, SameRows
<1> QED
  BY <1>6, <1>7, <1>9 DEF EventsInv

-----------------------------------------------------------------------------
(* Storing and publishing. *)

\* A thread gives some of what it holds to the buffer, the table, or up.
LEMMA HandKeeps ==
    ASSUME TypeOK, EventsInv, NEW t \in Threads, NEW h, thread' = [thread EXCEPT ![t] = h],
           UNCHANGED logged, OnceInHand(h), Injective(buffer'), Holds(h) \cap Elements(buffer') = {},
           Holds(h) \cup Elements(buffer') \subseteq Elements(buffer) \cup Holds(thread[t]),
           Elements(buffer) \cup Holds(thread[t])
              \subseteq Elements(buffer') \cup Holds(h) \cup dropped'.events \cup InTable',
           dropped.events \subseteq dropped'.events, InTable \subseteq InTable',
           \A i \in RowIds' : rows'[i].event \in 1..logged
    PROVE  Owned' /\ Covered' /\ Waiting' \subseteq Waiting
<1>1. thread \in [Threads -> Hand] /\ Owned /\ Covered
  BY TypeFacts DEF EventsInv
<1>2. {} \cap (1..logged) = {} /\ (1..logged) \cup {} = 1..logged'
  OBVIOUS
<1>3. Owned' /\ Waiting' \subseteq Waiting \cup {}
  <2>1. Holds(h) \cup Elements(buffer') \subseteq Elements(buffer) \cup Holds(thread[t]) \cup {}
    OBVIOUS
  <2> QED
    BY <1>1, <1>2, <2>1, ExchangeOwned
<1>4. Covered'
  <2>1. Elements(buffer) \cup Holds(thread[t]) \cup {}
           \subseteq Elements(buffer') \cup Holds(h) \cup dropped'.events \cup InTable'
    OBVIOUS
  <2> QED
    BY <1>1, <1>2, <2>1, ExchangeCovered
<1> QED
  BY <1>3, <1>4

\* A thread that is through with its batch holds what comes next.
LEMMA ProceedHolds ==
    ASSUME NEW t \in Threads, thread[t] \in Hand, OnceInHand(thread[t])
    PROVE  Holds(Proceed(t)) = Elements(thread[t].next) /\ OnceInHand(Proceed(t))
<1>1. /\ Proceed(t).next = <<>> /\ Proceed(t).batch = thread[t].next
      /\ Proceed(t).pc = "idle" \/ Proceed(t).pc = "insert"
      /\ Proceed(t).pc = "idle" => thread[t].next = <<>>
  BY Proceeding, FreeHand
<1> HIDE DEF Proceed
<1>2. Injective(thread[t].next)
  BY DEF OnceInHand
<1> QED
  BY <1>1, <1>2, NoElement DEF Holds, InStore, OnceInHand

LEMMA HoldsOf ==
    ASSUME TypeOK, NEW t \in Threads
    PROVE  /\ thread[t].pc = "publish" => Holds(thread[t]) = Elements(thread[t].next)
           /\ InStore(thread[t]) => Holds(thread[t]) = Elements(thread[t].next) \cup Elements(thread[t].batch)
BY DEF Holds, InStore

LEMMA InsertKeepsEvents ==
    ASSUME TypeOK, IdsInv, EventsInv, NEW t \in Threads, Insert(t)
    PROVE  EventsInv'
<1>1. PICK h \in Hand :
             /\ thread' = [thread EXCEPT ![t] = h]
             /\ h.pc = "commit" /\ h.batch = thread[t].batch /\ h.next = thread[t].next
             /\ DOMAIN h.ids = DOMAIN thread[t].batch
             /\ \A i \in RowIds : rows'[i] = rows[i]
             /\ \A i \in DOMAIN h.ids : /\ h.ids[i] \in RowIds'
                                        /\ rows'[h.ids[i]].event = thread[t].batch[i]
                                        /\ rows'[h.ids[i]].state = "open"
             /\ RowIds' = RowIds \cup Elements(h.ids)
  BY Inserting
<1>2. Owned /\ Covered /\ StoredOnce /\ thread[t].pc = "insert"
      /\ UNCHANGED <<logged, buffer, dropped, doubled>>
  BY DEF EventsInv, Insert
<1>3. Holds(h) = Holds(thread[t]) /\ OnceInHand(h)
  <2>1. OnceInHand(thread[t])
    BY <1>2 DEF Owned
  <2> QED
    BY <1>1, <1>2, <2>1 DEF Holds, InStore, OnceInHand
<1>4. Stored' = Stored
  <2>1. \A i \in Elements(h.ids) : rows'[i].state = "open"
    BY <1>1 DEF Elements
  <2> QED
    BY <1>1, <2>1 DEF Stored
<1>5. \A i \in RowIds' : rows'[i].event \in 1..logged
  <2>1. \A i \in DOMAIN h.ids : thread[t].batch[i] \in Holds(thread[t])
    BY <1>1, <1>2 DEF Holds, InStore, Elements
  <2>2. Holds(thread[t]) \subseteq 1..logged
    BY <1>2 DEF Owned, Waiting, InHands
  <2>3. \A i \in Elements(h.ids) : rows'[i].event \in 1..logged
    BY <1>1, <2>1, <2>2 DEF Elements
  <2> QED
    BY <1>1, <1>2, <2>3 DEF Owned
<1>6. \A i \in Stored : rows'[i].event = rows[i].event
  BY <1>1 DEF Stored
<1>7. InTable' = InTable
  BY <1>2, <1>4, <1>6, SameTable
<1>8. Holds(h) \cap Elements(buffer') = {} /\ Injective(buffer')
  BY <1>2, <1>3 DEF Owned
<1>9. Owned' /\ Covered' /\ Waiting' \subseteq Waiting
  BY <1>1, <1>2, <1>3, <1>5, <1>7, <1>8, HandKeeps
<1>10. StoredOnce'
  <2>1. Waiting' \cap InTable \subseteq Waiting
    BY <1>9
  <2> QED
    BY <1>2, <1>4, <1>6, <2>1, SameTable
<1> QED
  BY <1>9, <1>10 DEF EventsInv

\* Publishing leaves the thread with what comes next.
LEMMA PublishKeepsEvents ==
    ASSUME TypeOK, IdsInv, EventsInv, NEW t \in Threads, Publish(t) \/ PublishFails(t)
    PROVE  EventsInv'
<1>1. /\ thread[t] \in Hand /\ Owned /\ Covered /\ StoredOnce /\ thread[t].pc = "publish"
      /\ UNCHANGED <<logged, buffer, rows, doubled>> /\ OnceInHand(thread[t])
  BY TypeFacts DEF EventsInv, Publish, PublishFails, Owned
<1>2. dropped'.events = dropped.events
  BY TypeFacts DEF Publish, PublishFails
<1>3. \E h : /\ thread' = [thread EXCEPT ![t] = h]
             /\ Holds(h) = Holds(thread[t]) /\ OnceInHand(h)
  <2>1. Holds(Proceed(t)) = Holds(thread[t]) /\ OnceInHand(Proceed(t))
    BY <1>1, ProceedHolds, HoldsOf
  <2> DEFINE g == [thread[t] EXCEPT !.ids = Tail(thread[t].ids)]
  <2>2. g.pc = "publish" /\ g.next = thread[t].next
    BY <1>1 DEF Hand
  <2>3. Holds(g) = Holds(thread[t]) /\ OnceInHand(g)
    <3> HIDE DEF g
    <3> QED
      BY <1>1, <2>2 DEF Holds, InStore, OnceInHand
  <2>4. thread' = [thread EXCEPT ![t] = Proceed(t)] \/ thread' = [thread EXCEPT ![t] = g]
    BY PublishingHand DEF PublishFails
  <2> HIDE DEF g, Proceed
  <2> QED
    BY <2>1, <2>3, <2>4
<1>4. PICK h : /\ thread' = [thread EXCEPT ![t] = h]
               /\ Holds(h) = Holds(thread[t]) /\ OnceInHand(h)
  BY <1>3
<1>5. InTable' = InTable /\ RowIds' = RowIds
  BY <1>1, SameRows
<1>6. Holds(h) \cap Elements(buffer') = {} /\ Injective(buffer') /\ \A i \in RowIds' : rows'[i].event \in 1..logged
  BY <1>1, <1>4, <1>5 DEF Owned
<1>7. Owned' /\ Covered' /\ Waiting' \subseteq Waiting
  BY <1>1, <1>2, <1>4, <1>5, <1>6, HandKeeps
<1>8. StoredOnce'
  <2>1. Waiting' \cap InTable \subseteq Waiting
    BY <1>7
  <2> QED
    BY <1>1, <2>1, SameRows
<1> QED
  BY <1>7, <1>8 DEF EventsInv

\* What a commit makes visible is the thread's batch.
LEMMA Committed ==
    ASSUME TypeOK, IdsInv, EventsInv, NEW t \in Threads, thread[t].pc = "commit",
           SetRows(thread[t].ids, "committed")
    PROVE  /\ Stored' = Stored \cup Elements(thread[t].ids) /\ RowIds' = RowIds
           /\ \A i \in RowIds : rows'[i].event = rows[i].event
           /\ InTable' = InTable \cup Elements(thread[t].batch)
           /\ \A i, j \in Stored' : rows'[i].event = rows'[j].event => i = j \/ rows'[i].event \in doubled
<1> DEFINE ids == thread[t].ids
           batch == thread[t].batch
<1>1. /\ RowIds' = RowIds
      /\ \A i \in RowIds : /\ rows'[i].event = rows[i].event
                           /\ rows'[i].state = IF i \in Elements(ids) THEN "committed" ELSE rows[i].state
  BY RowsSet DEF RowIds, RowStates
<1>2. /\ DOMAIN ids = DOMAIN batch
      /\ \A k \in DOMAIN ids : ids[k] \in RowIds /\ rows[ids[k]].event = batch[k]
  BY DEF IdsInv, HandOK, RowIds
<1>3. Stored' = Stored \cup Elements(ids)
  BY <1>1, <1>2 DEF Stored, Elements
<1>4. \A i \in Stored : i \in RowIds
  BY DEF Stored
<1>5. InTable' = InTable \cup Elements(batch)
  <2>1. InTable' = {rows'[i].event : i \in Stored'}
    BY DEF InTable
  <2>2. {rows'[i].event : i \in Elements(ids)} = Elements(batch)
    BY <1>1, <1>2 DEF Elements
  <2>3. {rows'[i].event : i \in Stored} = InTable
    BY <1>1, <1>4 DEF InTable
  <2> QED
    BY <1>3, <2>1, <2>2, <2>3
<1>6. InTable \cap Elements(batch) \subseteq doubled
  <2>1. Elements(batch) \subseteq Waiting
    BY DEF Waiting, InHands, Holds, InStore
  <2> QED
    BY <2>1 DEF EventsInv, StoredOnce
<1>7. Injective(batch)
  BY DEF EventsInv, Owned, OnceInHand, InStore
<1>8. ASSUME NEW i \in Stored', NEW j \in Stored', rows'[i].event = rows'[j].event
      PROVE  i = j \/ rows'[i].event \in doubled
  <2>1. i \in RowIds /\ j \in RowIds /\ rows[i].event = rows[j].event /\ rows'[i].event = rows[i].event
    BY <1>1, <1>2, <1>3, <1>4, <1>8 DEF Elements
  <2>2. CASE i \in Stored /\ j \in Stored
    BY <2>1, <2>2 DEF EventsInv, StoredOnce
  <2>3. \A n \in Stored : rows[n].event \in InTable
    BY DEF InTable
  <2>4. \A n \in Elements(ids) : rows[n].event \in Elements(batch)
    BY <1>2 DEF Elements
  <2>5. CASE i \in Elements(ids) /\ j \in Elements(ids)
    BY <1>2, <1>7, <2>1, <2>5 DEF Elements, Injective
  <2> QED
    BY <1>3, <1>6, <2>1, <2>2, <2>3, <2>4, <2>5
<1> QED
  BY <1>1, <1>3, <1>5, <1>8

LEMMA CommitKeepsEvents ==
    ASSUME TypeOK, IdsInv, EventsInv, NEW t \in Threads, Commit(t)
    PROVE  EventsInv'
<1> DEFINE h == [thread[t] EXCEPT !.pc = "publish"]
           batch == thread[t].batch
<1>1. /\ thread[t] \in Hand /\ Owned /\ Covered /\ StoredOnce /\ thread[t].pc = "commit"
      /\ UNCHANGED <<logged, buffer, dropped, doubled>> /\ OnceInHand(thread[t])
      /\ thread' = [thread EXCEPT ![t] = h] /\ SetRows(thread[t].ids, "committed")
      /\ thread \in [Threads -> Hand]
  BY TypeFacts DEF EventsInv, Commit, Owned
<1>2. h.pc = "publish" /\ h.next = thread[t].next
  BY <1>1 DEF Hand
<1> HIDE DEF h
<1>3. Holds(h) = Elements(thread[t].next) /\ OnceInHand(h)
  BY <1>1, <1>2 DEF Holds, InStore, OnceInHand
<1>4. Holds(thread[t]) = Elements(thread[t].next) \cup Elements(batch)
      /\ Elements(batch) \cap Elements(thread[t].next) = {}
  BY <1>1, HoldsOf DEF OnceInHand, InStore
<1>5. /\ RowIds' = RowIds /\ \A i \in RowIds : rows'[i].event = rows[i].event
      /\ InTable' = InTable \cup Elements(batch)
      /\ \A i, j \in Stored' : rows'[i].event = rows'[j].event => i = j \/ rows'[i].event \in doubled
  BY <1>1, Committed
<1>6. /\ Holds(thread[t]) \cap Elements(buffer) = {} /\ Injective(buffer)
      /\ \A i \in RowIds' : rows'[i].event \in 1..logged
  BY <1>1, <1>5 DEF Owned
<1>7. Owned' /\ Covered' /\ Waiting' \subseteq Waiting
  BY <1>1, <1>3, <1>4, <1>5, <1>6, HandKeeps
<1>8. Elements(batch) \cap Waiting' = {}
  <2>1. \A u \in Threads \ {t} : Holds(thread[u]) \cap Elements(batch) = {}
    BY <1>1, <1>4 DEF Owned
  <2>2. thread'[t] = h /\ \A u \in Threads \ {t} : thread'[u] = thread[u]
    BY <1>1, HandsAfter
  <2>3. \A u \in Threads : Holds(thread'[u]) \cap Elements(batch) = {}
    BY <1>3, <1>4, <2>1, <2>2
  <2>4. InHands' = UNION {Holds(thread'[u]) : u \in Threads}
    BY DEF InHands, Holds, InStore, Elements
  <2>5. Waiting' = Elements(buffer) \cup InHands'
    BY <1>1 DEF Waiting
  <2> QED
    BY <1>4, <1>6, <2>3, <2>4, <2>5
<1>9. StoredOnce'
  BY <1>1, <1>5, <1>7, <1>8 DEF StoredOnce
<1> QED
  BY <1>7, <1>9 DEF EventsInv

\* What a failed store does with the batch: to the buffer's front, or up.
LEMMA NotStoredEvents ==
    ASSUME TypeOK, IdsInv, EventsInv, NEW t \in Threads, InStore(thread[t]),
           NEW silent \in SUBSET Nat, NotStored(t, silent)
    PROVE  /\ thread' = [thread EXCEPT ![t] = Proceed(t)]
           /\ Holds(Proceed(t)) = Elements(thread[t].next) /\ OnceInHand(Proceed(t))
           /\ Injective(buffer') /\ Holds(Proceed(t)) \cap Elements(buffer') = {}
           /\ Holds(Proceed(t)) \cup Elements(buffer') \subseteq Elements(buffer) \cup Holds(thread[t])
           /\ Elements(buffer) \cup Holds(thread[t])
                 \subseteq Elements(buffer') \cup Holds(Proceed(t)) \cup dropped'.events
           /\ dropped.events \subseteq dropped'.events
<1> DEFINE batch == thread[t].batch
           all   == batch \o buffer
<1>1. thread[t] \in Hand /\ buffer \in Seq(Events) /\ OnceInHand(thread[t]) /\ Injective(buffer)
  BY TypeFacts DEF EventsInv, Owned
<1>2. batch \in Seq(Events) /\ Injective(batch) /\ Elements(batch) \cap Elements(thread[t].next) = {}
  BY <1>1 DEF Hand, OnceInHand
<1>3. Holds(thread[t]) = Elements(thread[t].next) \cup Elements(batch)
  BY HoldsOf
<1>4. Holds(thread[t]) \cap Elements(buffer) = {}
  BY DEF EventsInv, Owned
<1>5. Holds(Proceed(t)) = Elements(thread[t].next) /\ OnceInHand(Proceed(t))
  BY <1>1, ProceedHolds
<1>6. /\ thread' = [thread EXCEPT ![t] = Proceed(t)]
      /\ \/ /\ buffer' = Newest(all)
            /\ dropped'.events = dropped.events \cup Oldest(all)
         \/ /\ buffer' = buffer
            /\ dropped'.events = dropped.events \cup Elements(batch)
  BY PuttingBack
<1> HIDE DEF Proceed
<1>7. CASE buffer' = Newest(all) /\ dropped'.events = dropped.events \cup Oldest(all)
  <2>1. all \in Seq(Events) /\ Elements(all) = Elements(batch) \cup Elements(buffer) /\ Injective(all)
    BY <1>1, <1>2, <1>3, <1>4, Concatenation
  <2> HIDE DEF all
  <2>2. Injective(Newest(all)) /\ Elements(all) = Elements(Newest(all)) \cup Oldest(all)
    BY <2>1, NewestAndOldest
  <2> QED
    BY <1>2, <1>3, <1>4, <1>5, <1>6, <1>7, <2>1, <2>2
<1>8. CASE buffer' = buffer /\ dropped'.events = dropped.events \cup Elements(batch)
  BY <1>1, <1>3, <1>4, <1>5, <1>6, <1>8
<1> QED
  BY <1>6, <1>7, <1>8

LEMMA StoreFailsKeepsEvents ==
    ASSUME TypeOK, IdsInv, EventsInv, NEW t \in Threads, StoreFails(t)
    PROVE  EventsInv'
<1>1. /\ Owned /\ Covered /\ StoredOnce /\ InStore(thread[t]) /\ thread[t].pc \in {"insert", "commit"}
      /\ UNCHANGED <<logged, doubled>> /\ SetRows(thread[t].ids, "void")
  BY DEF EventsInv, StoreFails, InStore
<1>2. NotStored(t, {})
  BY DEF StoreFails
<1>3. {} \in SUBSET Nat
  OBVIOUS
<1>4. /\ thread' = [thread EXCEPT ![t] = Proceed(t)]
      /\ OnceInHand(Proceed(t))
      /\ Injective(buffer') /\ Holds(Proceed(t)) \cap Elements(buffer') = {}
      /\ Holds(Proceed(t)) \cup Elements(buffer') \subseteq Elements(buffer) \cup Holds(thread[t])
      /\ Elements(buffer) \cup Holds(thread[t])
            \subseteq Elements(buffer') \cup Holds(Proceed(t)) \cup dropped'.events
      /\ dropped.events \subseteq dropped'.events
  BY <1>1, <1>2, <1>3, NotStoredEvents
<1> HIDE DEF Proceed
<1>5. /\ RowIds' = RowIds
      /\ \A i \in RowIds : /\ rows'[i].event = rows[i].event
                           /\ rows'[i].state = IF i \in Elements(thread[t].ids) THEN "void" ELSE rows[i].state
  BY <1>1, RowsSet DEF RowIds, RowStates
<1>6. \A i \in Elements(thread[t].ids) : i \in RowIds /\ rows[i].state = "open"
  BY <1>1, OpenRows
<1>7. Stored' = Stored /\ \A i \in Stored : rows'[i].event = rows[i].event
  BY <1>5, <1>6 DEF Stored
<1>8. InTable' = InTable /\ \A i \in RowIds' : rows'[i].event \in 1..logged
  BY <1>1, <1>5, <1>7, SameTable DEF Owned
<1>9. Owned' /\ Covered' /\ Waiting' \subseteq Waiting
  BY <1>1, <1>4, <1>8, HandKeeps
<1>10. StoredOnce'
  <2>1. Waiting' \cap InTable \subseteq Waiting
    BY <1>9
  <2> QED
    BY <1>1, <1>7, <2>1, SameTable
<1> QED
  BY <1>9, <1>10 DEF EventsInv

LEMMA AmbiguousKeepsEvents ==
    ASSUME TypeOK, IdsInv, EventsInv, NEW t \in Threads, CommitAmbiguous(t)
    PROVE  EventsInv'
<1>1. /\ Owned /\ Covered /\ StoredOnce /\ InStore(thread[t]) /\ thread[t].pc = "commit"
      /\ UNCHANGED logged /\ SetRows(thread[t].ids, "committed")
      /\ doubled' = doubled \cup Elements(thread[t].batch)
  BY DEF EventsInv, CommitAmbiguous, InStore
<1>2. NotStored(t, Elements(thread[t].ids)) /\ Elements(thread[t].ids) \in SUBSET Nat
  BY TypeFacts, NoElement DEF CommitAmbiguous, Hand
<1>3. /\ thread' = [thread EXCEPT ![t] = Proceed(t)]
      /\ OnceInHand(Proceed(t))
      /\ Injective(buffer') /\ Holds(Proceed(t)) \cap Elements(buffer') = {}
      /\ Holds(Proceed(t)) \cup Elements(buffer') \subseteq Elements(buffer) \cup Holds(thread[t])
      /\ Elements(buffer) \cup Holds(thread[t])
            \subseteq Elements(buffer') \cup Holds(Proceed(t)) \cup dropped'.events
      /\ dropped.events \subseteq dropped'.events
  BY <1>1, <1>2, NotStoredEvents
<1> HIDE DEF Proceed
<1>4. /\ RowIds' = RowIds /\ \A i \in RowIds : rows'[i].event = rows[i].event
      /\ InTable' = InTable \cup Elements(thread[t].batch)
      /\ \A i, j \in Stored' : rows'[i].event = rows'[j].event => i = j \/ rows'[i].event \in doubled
  BY <1>1, Committed
<1>5. \A i \in RowIds' : rows'[i].event \in 1..logged
  BY <1>1, <1>4 DEF Owned
<1>6. Owned' /\ Covered' /\ Waiting' \subseteq Waiting
  BY <1>1, <1>3, <1>4, <1>5, HandKeeps
<1>7. StoredOnce'
  BY <1>1, <1>4, <1>6 DEF StoredOnce
<1> QED
  BY <1>6, <1>7 DEF EventsInv

\* All that waits is given up with the process.
LEMMA CrashKeepsEvents ==
    ASSUME TypeOK, IdsInv, EventsInv, Crash
    PROVE  EventsInv'
<1> DEFINE open    == {t \in Threads : thread[t].pc \in {"insert", "commit"}}
           nexts   == UNION {Elements(thread[t].next) : t \in Threads}
           batches == UNION {Elements(thread[t].batch) : t \in open}
<1>1. /\ Owned /\ Covered /\ StoredOnce /\ UNCHANGED <<logged, doubled>>
      /\ buffer' = <<>> /\ thread' = [t \in Threads |-> Free]
      /\ dropped'.events = dropped.events \cup Elements(buffer) \cup (nexts \cup batches)
  BY DEF EventsInv, Crash
<1>2. Waiting \subseteq Elements(buffer) \cup (nexts \cup batches)
  BY DEF Waiting, InHands, Holds, InStore
<1> HIDE DEF nexts, batches
<1>3. /\ RowIds' = RowIds
      /\ \A i \in RowIds : /\ rows'[i].event = rows[i].event
                           /\ rows'[i].state = "committed" <=> rows[i].state = "committed"
  <2>1. rows' = [i \in RowIds |-> IF rows[i].state = "open" THEN [rows[i] EXCEPT !.state = "void"] ELSE rows[i]]
        /\ \A i \in RowIds : rows[i] \in Rows
    BY TypeFacts DEF Crash
  <2>2. RowIds' = RowIds
    BY <2>1 DEF RowIds
  <2>3. ASSUME NEW i \in RowIds
        PROVE  /\ rows'[i].event = rows[i].event
               /\ rows'[i].state = "committed" <=> rows[i].state = "committed"
    BY <2>1 DEF Rows
  <2> QED
    BY <2>2, <2>3
<1>4. Stored' = Stored /\ \A i \in Stored : rows'[i].event = rows[i].event
  BY <1>3 DEF Stored
<1>5. InTable' = InTable
  BY <1>1, <1>4, SameTable
<1>6. \A t \in Threads : Holds(thread'[t]) = {} /\ OnceInHand(thread'[t])
  <2>1. Holds(Free) = {} /\ OnceInHand(Free)
    BY FreeHand, NoElement DEF Holds, OnceInHand, InStore
  <2> HIDE DEF Free
  <2> QED
    BY <1>1, <2>1
<1>7. Waiting' = {}
  <2>1. InHands' = UNION {Holds(thread'[t]) : t \in Threads}
    BY DEF InHands, Holds, InStore, Elements
  <2>2. Waiting' = Elements(buffer') \cup InHands'
    BY DEF Waiting, Elements
  <2> QED
    BY <1>1, <1>6, <2>1, <2>2, NoElement
<1>8. Owned'
  <2>1. Injective(buffer') /\ Waiting' \subseteq 1..logged'
    BY <1>1, <1>7, NoElement
  <2>2. \A i \in RowIds' : rows'[i].event \in 1..logged'
    BY <1>1, <1>3 DEF Owned
  <2>3. \A t \in Threads : /\ OnceInHand(thread'[t])
                           /\ Holds(thread'[t]) \cap Elements(buffer') = {}
                           /\ \A u \in Threads \ {t} : Holds(thread'[t]) \cap Holds(thread'[u]) = {}
    BY <1>6
  <2> QED
    BY <2>1, <2>2, <2>3 DEF Owned, OnceInHand, Holds, InStore, Injective, Elements
<1>9. Covered'
  BY <1>1, <1>2, <1>5, <1>7 DEF Covered
<1>10. StoredOnce'
  <2>1. Waiting' \cap InTable \subseteq Waiting
    BY <1>7
  <2> QED
    BY <1>1, <1>4, <2>1, SameTable
<1> QED
  BY <1>8, <1>9, <1>10 DEF EventsInv

LEMMA ListenerKeepsEvents ==
    ASSUME TypeOK, EventsInv, UNCHANGED <<logged, buffer, thread, rows, doubled>>,
           dropped'.events = dropped.events
    PROVE  EventsInv'
BY DEF EventsInv, Owned, Covered, StoredOnce, Waiting, InHands, InTable, Stored, RowIds

-----------------------------------------------------------------------------
LEMMA EventsInit == Init => EventsInv
<1> SUFFICES ASSUME Init PROVE EventsInv
  OBVIOUS
<1>1. /\ logged = 0 /\ buffer = <<>> /\ rows = <<>> /\ RowIds = {} /\ Stored = {}
      /\ \A t \in Threads : thread[t] = Free
  BY DEF Init, RowIds, Stored
<1>2. Holds(Free) = {} /\ OnceInHand(Free)
  BY FreeHand, NoElement DEF Holds, OnceInHand, InStore
<1>3. InHands = {}
  BY <1>1, <1>2 DEF InHands
<1>4. Waiting = {} /\ InTable = {}
  BY <1>1, <1>3, NoElement DEF Waiting, InTable
<1>5. Owned
  BY <1>1, <1>2, <1>4, NoElement DEF Owned
<1> QED
  BY <1>1, <1>4, <1>5 DEF EventsInv, Covered, StoredOnce

LEMMA EventsStep == TypeOK /\ IdsInv /\ EventsInv /\ [Next]_vars => EventsInv'
<1> SUFFICES ASSUME TypeOK, IdsInv, EventsInv, [Next]_vars PROVE EventsInv'
  OBVIOUS
<1>1. CASE UNCHANGED vars
  BY <1>1, ListenerKeepsEvents DEF vars
<1>2. ASSUME NEW t \in Threads, LogEvent(t) \/ Flush(t) \/ Exit(t) PROVE EventsInv'
  BY <1>2, TakingKeepsEvents
<1>3. ASSUME NEW t \in Threads, Insert(t) \/ Commit(t) PROVE EventsInv'
  BY <1>3, InsertKeepsEvents, CommitKeepsEvents
<1>4. ASSUME NEW t \in Threads, Publish(t) \/ PublishFails(t) PROVE EventsInv'
  BY <1>4, PublishKeepsEvents
<1>5. ASSUME NEW t \in Threads, StoreFails(t) \/ CommitAmbiguous(t) PROVE EventsInv'
  BY <1>5, StoreFailsKeepsEvents, AmbiguousKeepsEvents
<1>6. CASE Crash
  BY <1>6, CrashKeepsEvents
<1>7. CASE Hear \/ StopListening \/ Listen
  <2>1. dropped'.events = dropped.events
    BY <1>7, TypeFacts DEF Hear, StopListening, Listen
  <2> QED
    BY <1>7, <2>1, ListenerKeepsEvents DEF Hear, StopListening, Listen
<1> QED
  BY <1>1, <1>2, <1>3, <1>4, <1>5, <1>6, <1>7 DEF Next

LEMMA EventsInvSuffices == EventsInv => NoEventVanishes
<1>1. InHands = UNION {InHand(t) : t \in Threads}
  BY DEF InHands, InHand, Holds, InStore
<1> QED
  BY <1>1 DEF EventsInv, Covered, StoredOnce, Waiting, InTable, NoEventVanishes

\* However threads, transactions and crashes interleave, every logged event waits
\* in the buffer or with a thread, is stored, or was given up where the code gives
\* up; and only a commit whose answer was lost stores one twice (log_task_event,
\* _persist_task_events, _requeue_task_events).
THEOREM LogKeepsEvents == Spec => []NoEventVanishes
<1> QED
  BY BaseInit, BaseStep, EventsInit, EventsStep, EventsInvSuffices, PTL DEF Spec

-----------------------------------------------------------------------------
(* The order of what waits. *)

Before(r, s) == \A a \in Elements(r), b \in Elements(s) : a < b

\* A batch that may be put back is older than what the buffer holds.
ReturnsInOrder(h, s) == InStore(h) => Ascending(h.batch) /\ Before(h.batch, s)

Ordered ==
    raced \/ /\ Ascending(buffer)
             /\ \A t \in Threads : thread[t].requeue => ReturnsInOrder(thread[t], buffer)
             /\ \A t, u \in Threads : thread[t].requeue /\ thread[u].requeue => t = u

LEMMA InOrder ==
    ASSUME NEW S \in SUBSET Int, NEW s \in Seq(S), NEW r \in Seq(S), Ascending(s), Ascending(r), Before(s, r)
    PROVE  Ascending(s \o r)
<1>1. /\ DOMAIN s = 1..Len(s) /\ DOMAIN r = 1..Len(r) /\ Len(s) \in Nat /\ Len(r) \in Nat
      /\ DOMAIN (s \o r) = 1..(Len(s) + Len(r))
      /\ \A i \in 1..Len(s) : (s \o r)[i] = s[i]
      /\ \A i \in (Len(s) + 1)..(Len(s) + Len(r)) : (s \o r)[i] = r[i - Len(s)] /\ i - Len(s) \in 1..Len(r)
  OBVIOUS
<1> SUFFICES ASSUME NEW i \in DOMAIN (s \o r), NEW j \in DOMAIN (s \o r), i < j
             PROVE  (s \o r)[i] < (s \o r)[j]
  BY DEF Ascending
<1>2. CASE j \in 1..Len(s)
  <2>1. i \in 1..Len(s)
    BY <1>1, <1>2
  <2> QED
    BY <1>1, <1>2, <2>1 DEF Ascending
<1>3. CASE i \in 1..Len(s) /\ j \notin 1..Len(s)
  <2>1. j - Len(s) \in 1..Len(r) /\ (s \o r)[j] = r[j - Len(s)] /\ (s \o r)[i] = s[i]
    BY <1>1, <1>3
  <2>2. s[i] \in Elements(s) /\ r[j - Len(s)] \in Elements(r)
    BY <1>1, <1>3, <2>1 DEF Elements
  <2> QED
    BY <2>1, <2>2 DEF Before
<1>4. CASE i \notin 1..Len(s) /\ j \notin 1..Len(s)
  <2>1. /\ j - Len(s) \in 1..Len(r) /\ (s \o r)[j] = r[j - Len(s)]
        /\ i - Len(s) \in 1..Len(r) /\ (s \o r)[i] = r[i - Len(s)]
        /\ i - Len(s) < j - Len(s)
    BY <1>1, <1>4
  <2> QED
    BY <1>1, <2>1 DEF Ascending
<1> QED
  BY <1>2, <1>3, <1>4

\* A new event comes last.
LEMMA LastInOrder ==
    ASSUME NEW S \in SUBSET Int, NEW s \in Seq(S), NEW e \in S, Ascending(s), \A a \in Elements(s) : a < e
    PROVE  Ascending(Append(s, e))
<1>1. <<e>> \in Seq(S) /\ Elements(<<e>>) = {e} /\ Ascending(<<e>>)
  BY OneElement
<1>2. Append(s, e) = s \o <<e>>
  OBVIOUS
<1>3. Before(s, <<e>>)
  BY <1>1 DEF Before
<1> QED
  BY <1>1, <1>2, <1>3, InOrder

\* One thread's hand and the buffer change.
LEMMA HandInOrder ==
    ASSUME TypeOK, Ordered, NEW t \in Threads, NEW h, thread' = [thread EXCEPT ![t] = h],
           ~raced' => ~raced, ~raced' => Ascending(buffer'),
           ~raced' /\ h.requeue => ReturnsInOrder(h, buffer') /\ \A u \in Threads \ {t} : ~thread[u].requeue,
           ~raced' => \A u \in Threads \ {t} : thread[u].requeue => ReturnsInOrder(thread[u], buffer')
    PROVE  Ordered'
<1>1. thread'[t] = h /\ \A u \in Threads \ {t} : thread'[u] = thread[u]
  BY TypeFacts
<1> SUFFICES ASSUME ~raced'
             PROVE  /\ Ascending(buffer')
                    /\ \A u \in Threads : thread'[u].requeue => ReturnsInOrder(thread'[u], buffer')
                    /\ \A u, v \in Threads : thread'[u].requeue /\ thread'[v].requeue => u = v
  BY DEF Ordered, Ascending, ReturnsInOrder, Before, InStore, Elements
<1>2. \A u \in Threads : thread'[u].requeue => ReturnsInOrder(thread'[u], buffer')
  BY <1>1
<1>3. \A u, v \in Threads : thread'[u].requeue /\ thread'[v].requeue => u = v
  BY <1>1 DEF Ordered
<1> QED
  BY <1>2, <1>3

\* Nothing is behind an empty buffer.
LEMMA EmptyIsInOrder ==
    ASSUME NEW h, InStore(h) => Ascending(h.batch)
    PROVE  ReturnsInOrder(h, <<>>) /\ Ascending(<<>>)
BY NoElement DEF ReturnsInOrder, Before

\* The buffer goes to a thread that may put it back, unless it only stores.
LEMMA TakingInOrder ==
    ASSUME TypeOK, Ordered, NEW t \in Threads, NEW h \in Hand, thread' = [thread EXCEPT ![t] = h],
           buffer' = <<>>, ~h.requeue \/ NoteRace(t), NoteRace(t) \/ UNCHANGED raced,
           h.requeue /\ ~raced => Ascending(h.batch)
    PROVE  Ordered'
<1>1. thread'[t] = h
  BY TypeFacts
<1>2. ~raced' => ~raced /\ (h.requeue => \A u \in Threads \ {t} : ~thread[u].requeue)
  BY <1>1 DEF NoteRace
<1>3. Ascending(buffer')
  BY NoElement
<1>4. ~raced' /\ h.requeue => ReturnsInOrder(h, buffer')
  BY <1>2, EmptyIsInOrder
<1>5. ~raced' => \A u \in Threads \ {t} : thread[u].requeue => ReturnsInOrder(thread[u], buffer')
  BY <1>2, EmptyIsInOrder DEF Ordered, ReturnsInOrder
<1> QED
  BY <1>2, <1>3, <1>4, <1>5, HandInOrder

LEMMA BufferInPlace ==
    ASSUME TypeOK, IdsInv, Owned, Ordered, NEW t \in Threads, LogEvent(t),
           \E due \in BOOLEAN : Buffer(t, logged + 1, due)
    PROVE  Ordered'
<1> DEFINE e    == logged + 1
           kept == Newest(Append(buffer, e))
           h    == Holding(kept, TRUE, <<>>)
<1>1. /\ buffer \in Seq(Events) /\ thread \in [Threads -> Hand] /\ logged \in Nat
      /\ Events \in SUBSET Int /\ Elements(buffer) \subseteq 1..logged
  BY TypeFacts DEF Events, Owned, Waiting
<1>2. e \in Events /\ NoteRace(t) /\ thread[t].pc = "idle" /\ (~raced' => ~raced)
  BY LogEventEffect DEF NoteRace
<1>3. \A a \in Elements(buffer) : a < e
  BY <1>1
<1> HIDE DEF e
<1>4. Append(buffer, e) \in Seq(Events) /\ Elements(Append(buffer, e)) = Elements(buffer) \cup {e}
  BY <1>1, <1>2, Appending
<1>5. ~raced => Ascending(kept)
  <2>1. ~raced => Ascending(Append(buffer, e))
    BY <1>1, <1>2, <1>3, LastInOrder DEF Ordered
  <2> QED
    BY <1>1, <1>4, <2>1, NewestAndOldest
<1>6. /\ kept \in Seq(Events) /\ kept # <<>> /\ Elements(kept) \subseteq Elements(buffer) \cup {e}
      /\ \/ buffer' = kept /\ thread' = thread
         \/ buffer' = <<>> /\ thread' = [thread EXCEPT ![t] = h]
  <2>1. \E due \in BOOLEAN : Buffer(t, e, due)
    BY DEF e
  <2>2. /\ kept \in Seq(Events) /\ kept # <<>>
        /\ Elements(buffer) \cup {e} = Elements(kept) \cup Oldest(Append(buffer, e))
        /\ \/ buffer' = kept /\ thread' = thread
           \/ buffer' = <<>> /\ thread' = [thread EXCEPT ![t] = h]
    BY <1>2, <2>1, Buffering
  <2> QED
    BY <2>2
<1>7. h \in Hand /\ h.pc = "insert" /\ h.batch = kept /\ h.next = <<>>
  <2> HIDE DEF kept
  <2> QED
    BY <1>6, FreeHand DEF Holding, Hand
<1> HIDE DEF kept, h
<1>8. CASE buffer' = <<>> /\ thread' = [thread EXCEPT ![t] = h]
  BY <1>2, <1>5, <1>7, <1>8, TakingInOrder
<1>9. CASE buffer' = kept /\ thread' = thread
  <2>1. thread' = [thread EXCEPT ![t] = thread[t]]
    BY <1>1, <1>9
  <2>2. ASSUME ~raced', NEW u \in Threads, thread[u].requeue PROVE ReturnsInOrder(thread[u], buffer')
    <3> SUFFICES ASSUME InStore(thread[u]) PROVE Ascending(thread[u].batch) /\ Before(thread[u].batch, kept)
      BY <1>9 DEF ReturnsInOrder
    <3>1. Ascending(thread[u].batch) /\ Before(thread[u].batch, buffer)
      BY <1>2, <2>2 DEF Ordered, ReturnsInOrder
    <3>2. Elements(thread[u].batch) \subseteq 1..logged
      BY DEF Owned, Waiting, InHands, Holds
    <3>3. \A a \in Elements(thread[u].batch) : a < e
      BY <1>1, <3>2 DEF e
    <3> QED
      BY <1>6, <3>1, <3>3 DEF Before
  <2>3. thread[t].requeue /\ ~raced' => \A u \in Threads \ {t} : ~thread[u].requeue
    BY <1>2 DEF Ordered
  <2> QED
    BY <1>2, <1>5, <1>9, <2>1, <2>2, <2>3, HandInOrder
<1> QED
  BY <1>6, <1>8, <1>9

LEMMA TakingKeepsOrder ==
    ASSUME TypeOK, IdsInv, Owned, Ordered, NEW t \in Threads, LogEvent(t) \/ Flush(t) \/ Exit(t)
    PROVE  Ordered'
<1>1. CASE LogEvent(t) /\ \E due \in BOOLEAN : Buffer(t, logged + 1, due)
  BY <1>1, BufferInPlace
<1>2. ASSUME NEW next \in Seq(Events), TakeBuffer(t, TRUE, next), buffer # <<>> \/ next # <<>>, NoteRace(t)
      PROVE  Ordered'
  <2>1. PICK h \in Hand :
          /\ thread' = [thread EXCEPT ![t] = h] /\ buffer' = <<>>
          /\ h.pc = "insert" /\ h.ids = <<>> /\ h.batch # <<>>
          /\ \/ buffer = <<>> /\ h.batch = next /\ h.next = <<>> /\ h.requeue = FALSE
             \/ buffer # <<>> /\ h.batch = buffer /\ h.next = next
    BY <1>2, Taking, Zenon
  <2>2. h.requeue /\ ~raced => Ascending(h.batch)
    BY <2>1 DEF Ordered
  <2> QED
    BY <1>2, <2>1, <2>2, TakingInOrder
<1>3. CASE LogEvent(t) /\ TakeBuffer(t, TRUE, <<logged + 1>>)
  <2>1. <<logged + 1>> \in Seq(Events) /\ <<logged + 1>> # <<>> /\ NoteRace(t)
    <3>1. logged + 1 \in Events /\ NoteRace(t)
      BY <1>3, LogEventEffect
    <3> QED
      BY <3>1
  <2> QED
    BY <1>2, <1>3, <2>1
<1>4. CASE Flush(t)
  <2>1. TakeBuffer(t, TRUE, <<>>) /\ buffer # <<>> /\ NoteRace(t)
    BY <1>4 DEF Flush
  <2> QED
    BY <1>2, <2>1, FreeHand
<1>5. CASE Exit(t)
  <2> DEFINE h == Holding(buffer, FALSE, <<>>)
  <2>1. buffer' = <<>> /\ thread' = [thread EXCEPT ![t] = h] /\ UNCHANGED raced
    BY <1>5 DEF Exit, TakeBuffer
  <2>2. h \in Hand /\ h.requeue = FALSE
    BY TypeFacts, FreeHand DEF Holding, Hand
  <2> HIDE DEF h
  <2> QED
    BY <2>1, <2>2, TakingInOrder
<1> QED
  BY <1>1, <1>3, <1>4, <1>5, LogEventEffect

\* A thread goes on with the batch it has, or without one.
LEMMA StoringInOrder ==
    ASSUME TypeOK, Ordered, NEW t \in Threads, NEW h, thread' = [thread EXCEPT ![t] = h],
           UNCHANGED <<buffer, raced>>, h.requeue => thread[t].requeue,
           InStore(h) /\ h.requeue => InStore(thread[t]) /\ h.batch = thread[t].batch
    PROVE  Ordered'
<1>1. ~raced' => ~raced /\ Ascending(buffer')
  BY DEF Ordered
<1>2. ~raced' /\ h.requeue => ReturnsInOrder(h, buffer') /\ \A u \in Threads \ {t} : ~thread[u].requeue
  <2> SUFFICES ASSUME ~raced, h.requeue
               PROVE  ReturnsInOrder(h, buffer) /\ \A u \in Threads \ {t} : ~thread[u].requeue
    BY <1>1
  <2>1. ReturnsInOrder(thread[t], buffer) /\ \A u \in Threads \ {t} : ~thread[u].requeue
    BY DEF Ordered
  <2> QED
    BY <2>1 DEF ReturnsInOrder
<1>3. ~raced' => \A u \in Threads \ {t} : thread[u].requeue => ReturnsInOrder(thread[u], buffer')
  BY DEF Ordered
<1> QED
  BY <1>1, <1>2, <1>3, HandInOrder

LEMMA StoringKeepsOrder ==
    ASSUME TypeOK, IdsInv, Ordered, NEW t \in Threads,
           Insert(t) \/ Commit(t) \/ Publish(t) \/ PublishFails(t)
    PROVE  Ordered'
<1>1. UNCHANGED <<buffer, raced>> /\ thread[t] \in Hand
  BY TypeFacts DEF Insert, Commit, Publish, PublishFails
<1>2. CASE Insert(t)
  <2>1. PICK h \in Hand : /\ thread' = [thread EXCEPT ![t] = h] /\ h.batch = thread[t].batch
                          /\ h.requeue = thread[t].requeue
    BY <1>2, Inserting
  <2>2. InStore(thread[t])
    BY <1>2 DEF Insert, InStore
  <2> QED
    BY <1>1, <2>1, <2>2, StoringInOrder
<1>3. CASE thread' = [thread EXCEPT ![t] = Proceed(t)]
  <2>1. Proceed(t).requeue = FALSE
    BY <1>1, Proceeding
  <2> HIDE DEF Proceed
  <2> QED
    BY <1>1, <1>3, <2>1, StoringInOrder
<1>4. CASE Commit(t)
  <2> DEFINE h == [thread[t] EXCEPT !.pc = "publish"]
  <2>1. thread' = [thread EXCEPT ![t] = h] /\ h.pc = "publish" /\ h.requeue = thread[t].requeue
    BY <1>1, <1>4 DEF Commit, Hand
  <2> HIDE DEF h
  <2> QED
    BY <1>1, <2>1, StoringInOrder DEF InStore
<1>5. CASE Publish(t) /\ thread' = [thread EXCEPT ![t] = [thread[t] EXCEPT !.ids = Tail(thread[t].ids)]]
  <2> DEFINE h == [thread[t] EXCEPT !.ids = Tail(thread[t].ids)]
  <2>1. thread' = [thread EXCEPT ![t] = h] /\ h.pc = "publish" /\ h.requeue = thread[t].requeue
    BY <1>1, <1>5 DEF Publish, Hand
  <2> HIDE DEF h
  <2> QED
    BY <1>1, <2>1, StoringInOrder DEF InStore
<1>6. PublishFails(t) => thread' = [thread EXCEPT ![t] = Proceed(t)]
  BY DEF PublishFails
<1> QED
  BY <1>2, <1>3, <1>4, <1>5, <1>6, PublishingHand

LEMMA FailingKeepsOrder ==
    ASSUME TypeOK, IdsInv, Owned, Ordered, NEW t \in Threads, StoreFails(t) \/ CommitAmbiguous(t)
    PROVE  Ordered'
<1> DEFINE all == thread[t].batch \o buffer
<1>1. /\ thread[t] \in Hand /\ buffer \in Seq(Events) /\ InStore(thread[t]) /\ UNCHANGED raced
      /\ Events \in SUBSET Int
  BY TypeFacts DEF StoreFails, CommitAmbiguous, InStore, Events
<1>2. \E silent \in SUBSET Nat : NotStored(t, silent)
  <2>1. Elements(thread[t].ids) \in SUBSET Nat /\ {} \in SUBSET Nat
    BY <1>1, NoElement DEF Hand
  <2>2. NotStored(t, {}) \/ NotStored(t, Elements(thread[t].ids))
    BY DEF StoreFails, CommitAmbiguous
  <2> QED
    BY <2>1, <2>2
<1>3. /\ thread' = [thread EXCEPT ![t] = Proceed(t)]
      /\ \/ thread[t].requeue /\ buffer' = Newest(all)
         \/ ~thread[t].requeue /\ buffer' = buffer
  BY <1>2, PuttingBack
<1>4. Proceed(t).requeue = FALSE
  BY <1>1, Proceeding
<1> HIDE DEF Proceed
<1>5. CASE ~thread[t].requeue /\ buffer' = buffer
  BY <1>1, <1>3, <1>4, <1>5, StoringInOrder
<1>6. CASE thread[t].requeue /\ buffer' = Newest(all)
  <2>1. ~raced => \A u \in Threads \ {t} : ~thread[u].requeue
    BY <1>6 DEF Ordered
  <2>2. ~raced => Ascending(buffer')
    <3> SUFFICES ASSUME ~raced PROVE Ascending(Newest(all))
      BY <1>6
    <3>1. thread[t].batch \in Seq(Events) /\ Ascending(thread[t].batch) /\ Ascending(buffer)
          /\ Before(thread[t].batch, buffer)
      BY <1>1, <1>6 DEF Ordered, ReturnsInOrder, Hand
    <3>2. all \in Seq(Events) /\ Ascending(all)
      BY <1>1, <3>1, InOrder, Concatenation
    <3> HIDE DEF all
    <3> QED
      BY <1>1, <3>2, NewestAndOldest
  <2> QED
    BY <1>1, <1>3, <1>4, <2>1, <2>2, HandInOrder
<1> QED
  BY <1>3, <1>5, <1>6

LEMMA OrderInit == Init => Ordered
<1> SUFFICES ASSUME Init PROVE Ordered
  OBVIOUS
<1>1. buffer = <<>> /\ \A t \in Threads : thread[t].requeue = FALSE
  BY FreeHand DEF Init
<1> QED
  BY <1>1, NoElement DEF Ordered

LEMMA OrderStep == TypeOK /\ IdsInv /\ EventsInv /\ Ordered /\ [Next]_vars => Ordered'
<1> SUFFICES ASSUME TypeOK, IdsInv, Owned, Ordered, [Next]_vars PROVE Ordered'
  BY DEF EventsInv
<1>1. CASE UNCHANGED <<buffer, thread, raced>>
  BY <1>1 DEF Ordered
<1>2. ASSUME NEW t \in Threads, LogEvent(t) \/ Flush(t) \/ Exit(t) PROVE Ordered'
  BY <1>2, TakingKeepsOrder
<1>3. ASSUME NEW t \in Threads, Insert(t) \/ Commit(t) \/ Publish(t) \/ PublishFails(t) PROVE Ordered'
  BY <1>3, StoringKeepsOrder
<1>4. ASSUME NEW t \in Threads, StoreFails(t) \/ CommitAmbiguous(t) PROVE Ordered'
  BY <1>4, FailingKeepsOrder
<1>5. CASE Crash
  <2>1. buffer' = <<>> /\ thread' = [t \in Threads |-> Free]
    BY <1>5 DEF Crash
  <2>2. \A t \in Threads : thread'[t].requeue = FALSE
    BY <2>1, FreeHand
  <2> QED
    BY <2>1, <2>2, NoElement DEF Ordered
<1>6. Hear \/ StopListening \/ Listen \/ UNCHANGED vars => UNCHANGED <<buffer, thread, raced>>
  BY DEF Hear, StopListening, Listen, vars
<1> QED
  BY <1>1, <1>2, <1>3, <1>4, <1>5, <1>6 DEF Next

\* Unless two threads held batches they may put back, what waits is in the order it
\* was logged, whatever was requeued, dropped or flushed in between, so that the
\* oldest events are the ones dropped at the limit (_requeue_task_events).
THEOREM LogKeepsOrder == Spec => []BufferInOrder
<1>1. Ordered => BufferInOrder
  BY DEF Ordered, BufferInOrder, Ascending
<1> QED
  BY <1>1, BaseInit, BaseStep, EventsInit, EventsStep, OrderInit, OrderStep, PTL DEF Spec
=============================================================================

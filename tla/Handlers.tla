------------------------------ MODULE Handlers ------------------------------
(***************************************************************************)
(* One request to the web process, the requests that repeat it because its *)
(* answer did not come, and those who act on it afterwards.                *)
(*                                                                         *)
(* A handler is a script: what it does, in the order of its code, as far   *)
(* as others can tell.  A step is what it does and how it refuses: by an   *)
(* exception, which rolls the session of the request back, or by returning *)
(* an ordinary response, after which the session is committed with what is *)
(* in it.  FastAPI leaves db.get_session only after the answer was sent    *)
(* and the background tasks have run, so the commit follows the answer.    *)
(* Rows are told apart by the request that wrote them; what is checked is  *)
(* any outcome, except for the rows of the same request made before.       *)
(***************************************************************************)
EXTENDS Naturals, Sequences, FiniteSets

CONSTANTS Scripts,      \* the handlers: records of a name and a script
          MaxRequests,  \* bound: the request and its repetitions
          MaxFaults     \* bound: failing commits, a failing broker, crashes

Raise == {"raise"}
Return == {"return"}
Either == Raise \cup Return
Skip == {"skip"}        \* nothing left to do: the answer is the usual one
Anyway == {"anyway"}    \* goes on without the next step

Refusable(what, how) == [do |-> what, how |-> how]
Plain(what) == Refusable(what, {})

Check(how) == Refusable("check", how)       \* permissions, fields, references
Find(how) == Refusable("find", how)         \* looks for the row: taken, or already gone
InsertOnce(how) == Refusable("once", how)   \* adds a row that a constraint keeps unique
Conflict(how) == Refusable("conflict", how) \* a constraint of another row: rolled back first
NeedQueued(how) == Refusable("queued", how) \* what the dispatch said
Again(how) == Refusable("again", how)       \* a row is looked up once more, after the commit
Insert == Plain("insert")
Write == Plain("write")                     \* changes or removes rows that are there
Flip == Plain("flip")                       \* sets a row to the opposite of what was read
Half == Plain("half")                       \* sets some columns before the last check
Audit == Plain("audit")
AuditApart == Plain("apart")                \* in a session of its own
Commit == Plain("commit")
Dispatch == Plain("dispatch")               \* tells the workers; failure is an answer
Wake == Plain("wake")                       \* tells the workers; failure is an exception
Hint == Plain("hint")                       \* tells the pages, if it can
Reload == Plain("reload")                   \* others look, at once
Answer == Plain("answer")

Some(steps, what) == \E i \in DOMAIN steps : steps[i].do \in what
Cumulative == {"insert", "once", "flip"}    \* twice is not once
Adds(steps) == Some(steps, Cumulative)
Writes(steps) == Some(steps, Cumulative \cup {"write"})

Request == 1..MaxRequests

ASSUME HandlersAssumption ==
    /\ MaxRequests \in Nat \ {0} /\ MaxFaults \in Nat
    /\ \A s \in Scripts : \A i \in DOMAIN s.does : s.does[i].how \subseteq (Either \cup Skip \cup Anyway)

VARIABLES script,    \* the handler this behaviour is about
          req,       \* what each request is doing, and what its client has heard
          db,        \* the requests whose rows are committed, by kind of row
          follower,  \* what those it told found: the change, or the rows without it
          together,  \* history: two requests were open at once
          faults     \* so far

handlerVars == <<script, req, db, follower, together, faults>>

NotYet == [phase |-> "idle", at |-> 1, open |-> {}, heard |-> "waiting", queued |-> TRUE, late |-> FALSE]

HandlersInit ==
    /\ script \in Scripts
    /\ req = [r \in Request |-> NotYet]
    /\ db = [change |-> {}, half |-> {}, audit |-> {}]
    /\ follower = [r \in Request |-> "none"]
    /\ together = FALSE /\ faults = 0

Steps == script.does
Running(r) == req[r].phase = "running"
Doing(r, what) == Running(r) /\ req[r].at <= Len(Steps) /\ Steps[req[r].at].do = what
Returned(r) == Running(r) /\ req[r].at > Len(Steps)

Goes(r, now) == req' = [req EXCEPT ![r] = now]
Onward(r) == [req[r] EXCEPT !.at = @ + 1]
Doomed == faults < MaxFaults /\ faults' = faults + 1

Told(r, what) == IF req[r].heard = "waiting" THEN what ELSE req[r].heard

Stored(r) == [k \in DOMAIN db |-> IF k \in req[r].open THEN db[k] \cup {r} ELSE db[k]]

\* An exception: the session is rolled back.  late: it had answered.
Raised(r, what) ==
    [req[r] EXCEPT !.phase = "over", !.open = {}, !.heard = Told(r, what), !.late = (@ \/ req[r].heard = "ok")]

\* Where a request goes that cannot do its step; open: what its session keeps.
TurnedAway(r, how, open) ==
    CASE how = "raise"  -> Raised(r, "refused")
      [] how = "return" -> [req[r] EXCEPT !.at = Len(Steps) + 1, !.open = open, !.heard = Told(r, "refused")]
      [] how = "skip"   -> [req[r] EXCEPT !.at = Len(Steps)]
      [] how = "anyway" -> [req[r] EXCEPT !.at = @ + 2]

Refuses(r, open) ==
    /\ \E how \in Steps[req[r].at].how : Goes(r, TurnedAway(r, how, open))
    /\ UNCHANGED <<db, follower, faults>>

Fails(r) == Doomed /\ Goes(r, Raised(r, "error")) /\ UNCHANGED <<db, follower>>

Passes(r) == Goes(r, Onward(r)) /\ UNCHANGED <<db, follower, faults>>

Holding(r, kind) == [Onward(r) EXCEPT !.open = @ \cup {kind}]

\* Rows that another open request has changed are locked until it ends.
Unlocked(r) == \A q \in Request \ {r} : Running(q) => "change" \notin req[q].open

-----------------------------------------------------------------------------
\* The client sends the request again when it has heard an error or nothing.
Arrive(r) ==
    /\ req[r].phase = "idle"
    /\ \A q \in 1..(r - 1) : req[q].phase # "idle" /\ req[q].heard \in {"error", "gone"}
    /\ Goes(r, [req[r] EXCEPT !.phase = "running"])
    /\ together' = (together \/ \E q \in Request : Running(q))
    /\ UNCHANGED <<script, db, follower, faults>>

\* The connection is lost, or the client stops waiting.
GiveUp(r) ==
    /\ req[r].phase # "idle" /\ req[r].heard = "waiting"
    /\ Goes(r, [req[r] EXCEPT !.heard = "gone"])
    /\ UNCHANGED <<script, db, follower, together, faults>>

DoCheck(r) == (Doing(r, "check") \/ Doing(r, "again")) /\ (Passes(r) \/ Refuses(r, req[r].open))

\* The rows of the same request made before, as far as they are committed.
DoFind(r) ==
    /\ Doing(r, "find")
    /\ IF db.change # {} THEN Refuses(r, req[r].open) ELSE Passes(r)

DoInsert(r) ==
    Doing(r, "insert") /\ Goes(r, Holding(r, "change")) /\ UNCHANGED <<db, follower, faults>>

DoInsertOnce(r) ==
    /\ Doing(r, "once") /\ Unlocked(r)
    /\ IF db.change # {} THEN Refuses(r, {})
       ELSE Goes(r, Holding(r, "change")) /\ UNCHANGED <<db, follower, faults>>

\* Mutant: the session is not rolled back when a constraint fails.
DoConflictKeeping(r) == Doing(r, "conflict") /\ (Passes(r) \/ Refuses(r, req[r].open))

DoConflict(r) == Doing(r, "conflict") /\ (Passes(r) \/ Refuses(r, {}))

DoWrite(r) ==
    /\ Doing(r, "write") \/ Doing(r, "flip")
    /\ Unlocked(r)
    /\ Goes(r, Holding(r, "change")) /\ UNCHANGED <<db, follower, faults>>

DoHalf(r) == Doing(r, "half") /\ Goes(r, Holding(r, "half")) /\ UNCHANGED <<db, follower, faults>>

DoAudit(r) == Doing(r, "audit") /\ Goes(r, Holding(r, "audit")) /\ UNCHANGED <<db, follower, faults>>

DoAuditApart(r) ==
    /\ Doing(r, "apart")
    /\ \/ db' = [db EXCEPT !.audit = @ \cup {r}] /\ Goes(r, Onward(r)) /\ UNCHANGED <<follower, faults>>
       \/ Fails(r)

\* A commit may be done and its confirmation lost.
Unconfirmed(r) == Doomed /\ db' = Stored(r) /\ Goes(r, Raised(r, "error")) /\ UNCHANGED follower

DoCommit(r) ==
    /\ Doing(r, "commit")
    /\ \/ db' = Stored(r) /\ Goes(r, [Onward(r) EXCEPT !.open = {}]) /\ UNCHANGED <<follower, faults>>
       \/ Fails(r) \/ Unconfirmed(r)

Tells(r) == follower' = [follower EXCEPT ![r] = "told"] /\ Goes(r, Onward(r)) /\ UNCHANGED <<db, faults>>

DoDispatch(r) ==
    /\ Doing(r, "dispatch")
    /\ Tells(r) \/ (Doomed /\ Goes(r, [Onward(r) EXCEPT !.queued = FALSE]) /\ UNCHANGED <<db, follower>>)

DoNeedQueued(r) ==
    Doing(r, "queued") /\ IF req[r].queued THEN Passes(r) ELSE Refuses(r, req[r].open)

DoWake(r) == Doing(r, "wake") /\ (Tells(r) \/ Fails(r))

DoHint(r) == Doing(r, "hint") /\ (Tells(r) \/ Passes(r))

Visible(r) == r \in db.change \/ ("change" \notin req[r].open /\ db.change # {})

Found(r) == [follower EXCEPT ![r] = IF Visible(r) THEN "new" ELSE "old"]

DoReload(r) ==
    /\ Doing(r, "reload")
    /\ \/ follower' = Found(r) /\ Goes(r, Onward(r)) /\ UNCHANGED <<db, faults>>
       \/ Fails(r)

DoAnswer(r) ==
    /\ Doing(r, "answer")
    /\ Goes(r, [Onward(r) EXCEPT !.heard = Told(r, "ok")]) /\ UNCHANGED <<db, follower, faults>>

\* The answer has been sent and get_session commits, or cannot.
Close(r) ==
    /\ Returned(r)
    /\ \/ db' = Stored(r) /\ Goes(r, [req[r] EXCEPT !.phase = "over", !.open = {}]) /\ UNCHANGED <<follower, faults>>
       \/ Fails(r) \/ Unconfirmed(r)

\* Those who were told look, sooner or later.
Follow(r) ==
    /\ follower[r] = "told" /\ follower' = Found(r)
    /\ UNCHANGED <<script, req, db, together, faults>>

\* The web process dies.
CrashWeb ==
    /\ Doomed /\ \E r \in Request : Running(r)
    /\ req' = [r \in Request |-> IF Running(r) THEN Raised(r, "waiting") ELSE req[r]]
    /\ UNCHANGED <<script, db, follower, together>>

Does(r) ==
    /\ \/ DoCheck(r) \/ DoFind(r) \/ DoInsert(r) \/ DoInsertOnce(r) \/ DoConflict(r) \/ DoWrite(r)
       \/ DoHalf(r) \/ DoAudit(r) \/ DoAuditApart(r) \/ DoCommit(r) \/ DoDispatch(r) \/ DoNeedQueued(r)
       \/ DoWake(r) \/ DoHint(r) \/ DoReload(r) \/ DoAnswer(r) \/ Close(r)
    /\ UNCHANGED <<script, together>>

HandlersNext ==
    \/ \E r \in Request : Arrive(r) \/ GiveUp(r) \/ Does(r) \/ Follow(r)
    \/ CrashWeb
=============================================================================

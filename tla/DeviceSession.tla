---------------------------- MODULE DeviceSession ----------------------------
(***************************************************************************)
(* The dialogue of one backup with its device, and what the page of the    *)
(* record makes of it.  run_netmiko_commands sends the commands one by one *)
(* and decides from the text alone what is output, what is the pager and   *)
(* what is the prompt; nothing marks the end of a reply.  The page cuts    *)
(* the stored text again, at the lines that look like the commands.        *)
(*                                                                         *)
(* Text is told apart by what the patterns see in it.  A token is a line   *)
(* or a prompt, with the command in whose reply it was printed:            *)
(*   echo, text, prompt, more   what they say; at more the device waits    *)
(*   promptish, moreish         output that the patterns take for these    *)
(*   echoish                    output that ends in the next command       *)
(* netmiko is modelled by what its calls do: send_command waits for the    *)
(* echo, forgets what came before it and reads until the pattern is found; *)
(* send_command_timing writes and reads what is there.                     *)
(***************************************************************************)
EXTENDS Naturals, Sequences, SequencesExt, FiniteSets

CONSTANTS NumCommands,
          Replies,          \* sequences of kinds; "again" starts the reply anew
          ReadTimeout,      \* command_read_timeout, in reads
          AbsoluteTimeout,  \* of one paged command, in reads
          MaxOutput,        \* the limit of a paged reply, in tokens
          WireSize,         \* bound: what the connection holds each way, unread
          MaxRetries        \* of the task, after a session that failed

Commands == 1..NumCommands

ReplyKinds == {"text", "more", "moreish", "promptish", "echoish", "again"}

ASSUME SessionAssumption ==
    /\ Replies \subseteq Seq(ReplyKinds)
    /\ NumCommands \in Nat \ {0} /\ {ReadTimeout, MaxOutput, WireSize} \subseteq Nat \ {0}
    /\ AbsoluteTimeout \in Nat /\ AbsoluteTimeout > ReadTimeout /\ MaxRetries \in Nat

VARIABLES reply,    \* what the device prints for each command
          device,   \* what it has left to print, for which command, and its typed-ahead input
          wire,     \* printed and not read yet
          client,   \* the session: where it is, what it has read for the command, its clocks
          attempt,  \* 1, or 2 with the legacy algorithms
          retries,  \* of the task so far
          parts,    \* output_parts
          events    \* the command_started events stored for the record, and whether one was lost

vars == <<reply, device, wire, client, attempt, retries, parts, events>>

Token(kind, k) == [kind |-> kind, by |-> k]
Is(t, kinds) == t.kind \in kinds

PromptLike == {"prompt", "promptish"}
MoreLike == {"more", "moreish"}

EndsIn(s, kinds) == s # <<>> /\ Is(Last(s), kinds)
Holds(s, kinds) == \E i \in DOMAIN s : Is(s[i], kinds)

\* _is_command_echo
IsEcho(t, k) == t = Token("echo", k) \/ t = Token("echoish", k - 1)

AtPrompt == [left |-> <<>>, by |-> 0, paused |-> FALSE, input |-> <<>>]

Reading(pc, k) == [pc |-> pc, cmd |-> k, got |-> <<>>, idle |-> 0, total |-> 0]

Init ==
    /\ reply \in [Commands -> Replies]
    /\ device = AtPrompt /\ wire = <<>>
    /\ client = Reading("connect", 0)
    /\ attempt = 1 /\ retries = 0
    /\ parts = <<>>
    /\ events = [commands |-> <<>>, lost |-> FALSE]

-----------------------------------------------------------------------------
\* The device.

\* The next token, if the pager is not waiting and the wire takes it.
PrintToken ==
    /\ device.left # <<>> /\ ~device.paused /\ Len(wire) < WireSize
    /\ LET kind == Head(device.left) IN
         IF kind = "again"
         THEN device' = [device EXCEPT !.left = reply[device.by] \o <<"prompt">>] /\ UNCHANGED wire
         ELSE /\ wire' = Append(wire, Token(kind, device.by))
              /\ device' = [device EXCEPT !.left = Tail(@), !.paused = (kind = "more")]
    /\ UNCHANGED <<reply, client, attempt, retries, parts, events>>

\* The pager takes whatever was typed; at the prompt a space is nothing and a
\* command is echoed and answered.
TakeInput ==
    /\ device.paused \/ device.left = <<>>
    /\ device.input # <<>>
    /\ LET typed == Head(device.input) IN
         device' = IF device.paused \/ typed = 0
                   THEN [device EXCEPT !.input = Tail(@), !.paused = FALSE]
                   ELSE [device EXCEPT !.input = Tail(@), !.by = typed,
                                       !.left = <<"echo">> \o reply[typed] \o <<"prompt">>]
    /\ UNCHANGED <<reply, wire, client, attempt, retries, parts, events>>

\* What is typed; what the buffer cannot take is lost.
Typed(item) == [device EXCEPT !.input = IF Len(@) < WireSize THEN Append(@, item) ELSE @]

-----------------------------------------------------------------------------
\* The session.

\* ConnectHandler, enable and find_prompt.  An error that speaks of algorithms
\* is answered by a second session with the legacy ones.
Connect ==
    /\ client.pc = "connect"
    /\ \/ /\ client' = Reading("send", 1)
          /\ device' = AtPrompt /\ wire' = <<>> /\ parts' = <<>>
          /\ UNCHANGED attempt
       \/ /\ attempt = 1 /\ attempt' = 2
          /\ UNCHANGED <<client, device, wire, parts>>
       \/ /\ client' = [client EXCEPT !.pc = "failed"]
          /\ UNCHANGED <<attempt, device, wire, parts>>
    /\ UNCHANGED <<reply, retries, events>>

\* The event goes through the task log, which may lose it.
Send ==
    /\ client.pc = "send"
    /\ client' = Reading("echo", client.cmd)
    /\ device' = Typed(client.cmd)
    /\ \/ events' = [events EXCEPT !.commands = Append(@, client.cmd)]
       \/ events' = [events EXCEPT !.lost = TRUE]
    /\ UNCHANGED <<reply, wire, attempt, retries, parts>>

Fail == client' = [client EXCEPT !.pc = "failed"] /\ UNCHANGED parts

\* The markers are removed.
Unmarked(s) ==
    LET kept[i \in 0..Len(s)] ==
          IF i = 0 THEN <<>>
          ELSE IF Is(s[i], MoreLike) THEN kept[i - 1] ELSE Append(kept[i - 1], s[i])
    IN  kept[Len(s)]

\* And all from the last text that holds the prompt.
Stripped(got) ==
    LET s == Unmarked(got)
        prompts == {i \in DOMAIN s : Is(s[i], PromptLike)} IN
    IF prompts = {} THEN s
    ELSE SubSeq(s, 1, (CHOOSE i \in prompts : \A j \in prompts : j <= i) - 1)

CommandDone(got) ==
    /\ parts' = Append(parts, Stripped(got))
    /\ client' = IF client.cmd = NumCommands THEN Reading("done", 0) ELSE Reading("send", client.cmd + 1)

\* send_command has what it waits for, or goes on reading.
Proceed(got) ==
    IF Holds(got, MoreLike)
    THEN client' = [client EXCEPT !.pc = "page", !.got = got, !.total = 0] /\ UNCHANGED parts
    ELSE IF Holds(got, PromptLike) THEN CommandDone(got)
    ELSE IF client.total >= ReadTimeout THEN Fail
    ELSE client' = [client EXCEPT !.pc = "read", !.got = got, !.total = @ + 1] /\ UNCHANGED parts

\* From the echo on; everything, when there is more than one.
FromEcho(data, echoes) ==
    IF Cardinality(echoes) = 1 THEN SubSeq(data, CHOOSE i \in echoes : TRUE, Len(data)) ELSE data

ReadEcho ==
    /\ client.pc = "echo"
    /\ wire' = <<>>
    /\ LET data == client.got \o wire
           echoes == {i \in DOMAIN data : IsEcho(data[i], client.cmd)} IN
         IF echoes # {} THEN Proceed(FromEcho(data, echoes))
         ELSE IF client.total >= ReadTimeout THEN Fail
         ELSE client' = [client EXCEPT !.got = data, !.total = @ + 1] /\ UNCHANGED parts
    /\ UNCHANGED <<reply, device, attempt, retries, events>>

Read ==
    /\ client.pc = "read"
    /\ wire' = <<>> /\ Proceed(client.got \o wire)
    /\ UNCHANGED <<reply, device, attempt, retries, events>>

\* Mutant: the time limits are looked at only when the device said something.
OverdueOnData == wire # <<>> /\ (client.idle > ReadTimeout \/ client.total > AbsoluteTimeout)

Overdue == client.idle > ReadTimeout \/ client.total > AbsoluteTimeout

\* One turn of the paging loop, up to what it writes: a space only when the
\* last line is a marker.
Turn ==
    /\ client.pc = "page"
    /\ IF EndsIn(client.got, PromptLike) THEN CommandDone(client.got) /\ UNCHANGED device
       ELSE IF Overdue THEN Fail /\ UNCHANGED device
       ELSE /\ client' = [client EXCEPT !.pc = "turned"]
            /\ device' = IF EndsIn(client.got, MoreLike) THEN Typed(0) ELSE device
            /\ UNCHANGED parts
    /\ UNCHANGED <<reply, wire, attempt, retries, events>>

\* And what it reads: markers alone do not count as data.
ReadPage ==
    /\ client.pc = "turned"
    /\ wire' = <<>>
    /\ LET got == client.got \o wire
           fresh == Holds(wire, {"echo", "text", "echoish"} \cup PromptLike) IN
         IF Len(got) > MaxOutput /\ wire # <<>> THEN Fail
         ELSE /\ client' = [client EXCEPT !.pc = "page", !.got = got,
                              !.idle = IF fresh THEN 0 ELSE IF @ > ReadTimeout THEN @ ELSE @ + 1,
                              !.total = IF @ > AbsoluteTimeout THEN @ ELSE @ + 1]
              /\ UNCHANGED parts
    /\ UNCHANGED <<reply, device, attempt, retries, events>>

\* The connection breaks.
Break ==
    /\ client.pc \in {"send", "echo", "read", "page", "turned"}
    /\ Fail
    /\ UNCHANGED <<reply, device, wire, attempt, retries, events>>

\* The task is tried again (module BackupRun).
Retry ==
    /\ client.pc = "failed" /\ retries < MaxRetries
    /\ retries' = retries + 1 /\ attempt' = 1
    /\ client' = Reading("connect", 0)
    /\ UNCHANGED <<reply, device, wire, parts, events>>

Session == Connect \/ Send \/ ReadEcho \/ Read \/ Turn \/ ReadPage \/ Retry

Next == PrintToken \/ TakeInput \/ Session \/ Break

\* The session runs on; the device need not.
Spec == Init /\ [][Next]_vars /\ WF_vars(Session)

-----------------------------------------------------------------------------
\* The page of the record.

\* Mutant: the first attempt is taken for the last.
FirstAttempt(s) ==
    LET starts == {i \in DOMAIN s : s[i] = 1 /\ i > 1} IN
    IF starts = {} THEN s ELSE SubSeq(s, 1, (CHOOSE i \in starts : \A j \in starts : i <= j) - 1)

\* _commands_from_backup_events: from the last first command on.
LastAttempt(s) ==
    LET starts == {i \in DOMAIN s : s[i] = 1} IN
    IF starts = {} THEN s ELSE SubSeq(s, CHOOSE i \in starts : \A j \in starts : j <= i, Len(s))

\* _backup_commands
ShownCommands ==
    LET found == LastAttempt(events.commands) IN
    IF found = <<>> THEN [k \in Commands |-> k] ELSE found

\* The line at which each command starts; 0 when it is not found.
Boundaries(lines, commands) ==
    LET at[n \in 0..Len(commands)] ==
          IF n = 0 THEN 0
          ELSE LET found == {i \in DOMAIN lines : i > at[n - 1] /\ IsEcho(lines[i], commands[n])} IN
               IF found = {} THEN 0 ELSE CHOOSE i \in found : \A j \in found : i <= j
    IN  [n \in 1..Len(commands) |-> at[n]]

\* split_backup_command_output: nothing unless every boundary but the first is found.
Sections(lines, commands) ==
    LET n == Len(commands)
        at == Boundaries(lines, commands)
        from(i) == IF at[i] = 0 THEN 1 ELSE at[i]
        upTo(i) == IF i = n THEN Len(lines) ELSE at[i + 1] - 1 IN
    IF n = 1 THEN <<lines>>
    ELSE IF \E i \in 2..n : at[i] = 0 THEN <<>>
    ELSE [i \in 1..n |-> SubSeq(lines, from(i), upTo(i))]

-----------------------------------------------------------------------------
\* What the device printed for command k, without what looks like a pager.
Printed(k) ==
    <<Token("echo", k)>> \o Unmarked([i \in DOMAIN reply[k] |-> Token(reply[k][i], k)])

Prints(k, kind) == kind \in ToSet(reply[k])

\* A reply with text like the prompt is cut short.  What is left of it is read
\* for the next command if a line looks like that command, and then the reply
\* to that one is left over, and so on.
Misread(k) ==
    \E j \in 1..k : Prints(j, "promptish") /\ \A i \in j..(k - 1) : Prints(i, "echoish")

\* A backup that succeeds holds the whole reply to each command and no other
\* text, however the reads fell and whatever the pager did, unless it is
\* misread.  And the page of the record gives each command
\* its own reply, whatever attempts came before, unless an output line looks
\* like a command or an event was lost.  (run_netmiko_commands,
\* split_backup_command_output)
RepliesAreWhole ==
    client.pc = "done" =>
        /\ \A k \in Commands : parts[k] = Printed(k) \/ Misread(k)
        /\ events.lost \/ (\E k \in Commands : Prints(k, "echoish")) \/
           Sections(FlattenSeq(parts), ShownCommands) = parts

\* Whatever the device does, and if it falls silent or pages for ever, a
\* session ends: the worker's slot is not kept by a dialogue.
\* (the idle, absolute and size limits of the paging loop)
SessionEnds == <>[](client.pc \in {"done", "failed"})
=============================================================================

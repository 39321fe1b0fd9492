------------------------------ MODULE WebShell ------------------------------
(***************************************************************************)
(* The web shell: one handler between the socket of a browser and the      *)
(* connection to a device, with a task that passes output on and types the *)
(* telnet login, a task that passes input, and two audit entries.  What a  *)
(* process prints as errors has a third task like the first; the recording *)
(* is a file beside all this.                                              *)
(*                                                                         *)
(* Output is a sequence of tokens that a read may cut anywhere: text,      *)
(* login (what the patterns take for a question for the name), and the     *)
(* halves pass and word of a question for the password.                    *)
(***************************************************************************)
EXTENDS Naturals, Sequences, SequencesExt, FiniteSets

CONSTANTS Banners,     \* what a telnet device prints before it asks
          Outputs,     \* what a device prints after a line at its prompt
          Kept,        \* the tokens of output the login looks at
          MaxKeys,     \* bound: messages of the browser
          MaxMishaps   \* bound: failing transactions and crashes

ASSUME ShellAssumption ==
    /\ Kept \in Nat /\ Kept >= 2 /\ MaxKeys \in Nat /\ MaxMishaps \in Nat
    /\ Banners \cup Outputs \subseteq Seq({"text", "login", "pass", "word"})

VARIABLES shell,    \* the handler: where it is, what it connects with, how it ended
          line,     \* the connection and the device behind it
          browser,  \* whether it is there, and how many messages it sent
          output,   \* the output task, and what it has in hand
          input,    \* the input task
          login,    \* telnet_login_state
          trail,    \* the audit entries of the session
          mishaps   \* so far

shellVars == <<shell, line, browser, output, input, login, trail, mishaps>>

\* secret: what the device was asking for when it read the password.
NoLine == [open |-> FALSE, hung |-> FALSE, asks |-> "nobody", prints |-> <<>>, typed |-> <<>>,
           plain |-> TRUE, secret |-> <<>>]

NoOutput == [pc |-> "off", data |-> <<>>]

ShellInit ==
    /\ shell \in [pc : {"start"}, method : {"ssh", "telnet"}, attempt : {1}, ended : {"no"}]
    /\ line = NoLine
    /\ browser = [there |-> TRUE, sent |-> 0]
    /\ output = NoOutput /\ input = "off"
    /\ login = [step |-> 0, buffer |-> <<>>]
    /\ trail = {}
    /\ mishaps = 0

Mishap == mishaps < MaxMishaps /\ mishaps' = mishaps + 1

At(pc) == shell.pc = pc
Moves(pc) == shell' = [shell EXCEPT !.pc = pc]
Ends(how) == shell' = [shell EXCEPT !.pc = "over", !.ended = how]

-----------------------------------------------------------------------------
\* Tokens, permissions and the device are checked before the socket is accepted;
\* a first message that is not init, or names no user, ends the session.
Accept ==
    /\ At("start") /\ (Moves("init") \/ Ends("refused"))
    /\ UNCHANGED <<line, browser, output, input, login, trail, mishaps>>

AwaitInit ==
    /\ At("init")
    /\ (browser.there /\ Moves("connect")) \/ Ends("refused")
    /\ UNCHANGED <<line, browser, output, input, login, trail, mishaps>>

AskUser == <<"login">>
AskPassword == <<"pass", "word">>

\* Some devices ask for the password at once; the banner comes first.
TelnetOpens ==
    \E banner \in Banners, asks \in {"user", "pass"} :
        line' = [line EXCEPT !.open = TRUE, !.asks = asks,
                   !.plain = ({"login", "word"} \cap ToSet(banner) = {}),
                   !.prints = banner \o (IF asks = "user" THEN AskUser ELSE AskPassword)]

\* The connection is made, or not; an error that speaks of algorithms is answered
\* by a second one with the legacy ones.  No status can be sent to a browser that
\* has gone.
ConnectDevice ==
    /\ At("connect")
    /\ \/ /\ browser.there /\ Moves("greet")
          /\ IF shell.method = "telnet" THEN TelnetOpens
             ELSE line' = [line EXCEPT !.open = TRUE, !.asks = "prompt"]
       \/ /\ shell.method = "ssh" /\ shell.attempt = 1
          /\ shell' = [shell EXCEPT !.attempt = 2] /\ UNCHANGED line
       \/ Ends("refused") /\ UNCHANGED line
    /\ UNCHANGED <<browser, output, input, login, trail, mishaps>>

\* The process is created and the statuses are sent; what fails here ends the
\* session and leaves the connection open.
Greet ==
    /\ At("greet")
    /\ (browser.there /\ ~line.hung /\ Moves("enter")) \/ Ends("setup")
    /\ UNCHANGED <<line, browser, output, input, login, trail, mishaps>>

StartTasks == Moves("relay") /\ output' = [output EXCEPT !.pc = "reading"] /\ input' = "reading"

FailsInSetup == Ends("setup") /\ UNCHANGED <<output, input>>

Logs(entry) == trail' = trail \cup {entry}

\* The record of the session and its entry: one transaction, whose errors are
\* ignored unless it is the commit that fails.
EnterSession ==
    /\ At("enter")
    /\ \/ StartTasks /\ Logs("OPEN_WEBSHELL") /\ UNCHANGED mishaps
       \/ Mishap /\ (StartTasks \/ FailsInSetup) /\ UNCHANGED trail
       \/ Mishap /\ FailsInSetup /\ Logs("OPEN_WEBSHELL")
    /\ UNCHANGED <<line, browser, login>>

-----------------------------------------------------------------------------
\* pump_output, up to what it sends.
ReadOutput ==
    /\ At("relay") /\ output.pc = "reading"
    /\ \/ \E n \in 1..Len(line.prints) :
            /\ line' = [line EXCEPT !.prints = SubSeq(@, n + 1, Len(@))]
            /\ output' = [pc |-> "sending", data |-> SubSeq(line.prints, 1, n)]
       \/ /\ line.hung /\ line.prints = <<>>
          /\ output' = [output EXCEPT !.pc = "done"] /\ UNCHANGED line
    /\ UNCHANGED <<shell, browser, input, login, trail, mishaps>>

Asks(buffer, question) ==
    \E i \in 0..(Len(buffer) - Len(question)) : SubSeq(buffer, i + 1, i + Len(question)) = question

Types(what) == line' = [line EXCEPT !.typed = Append(@, what)]

Seen(data) == LET all == login.buffer \o data IN
              SubSeq(all, IF Len(all) > Kept THEN Len(all) - Kept + 1 ELSE 1, Len(all))

\* Mutant: the login does not remember that it typed the password.
LogInAgain(data) ==
    LET buffer == Seen(data) IN
    IF Asks(buffer, AskPassword)
    THEN Types("secret") /\ login' = [login EXCEPT !.buffer = <<>>]
    ELSE IF login.step = 0 /\ Asks(buffer, AskUser)
    THEN Types("name") /\ login' = [step |-> 1, buffer |-> <<>>]
    ELSE login' = [login EXCEPT !.buffer = buffer] /\ UNCHANGED line

\* The telnet login: the password when it is asked for, or first the name.
LogIn(data) ==
    LET buffer == Seen(data) IN
    IF login.step = 2 THEN UNCHANGED <<line, login>>
    ELSE IF Asks(buffer, AskPassword)
    THEN Types("secret") /\ login' = [step |-> 2, buffer |-> <<>>]
    ELSE IF login.step = 0 /\ Asks(buffer, AskUser)
    THEN Types("name") /\ login' = [step |-> 1, buffer |-> <<>>]
    ELSE login' = [login EXCEPT !.buffer = buffer] /\ UNCHANGED line

\* And what it does then: a browser that has gone ends the task.
SendOutput ==
    /\ At("relay") /\ output.pc = "sending"
    /\ IF ~browser.there
       THEN output' = [output EXCEPT !.pc = "done"] /\ UNCHANGED <<line, login>>
       ELSE /\ output' = [pc |-> "reading", data |-> <<>>]
            /\ IF shell.method = "telnet" THEN LogIn(output.data) ELSE UNCHANGED <<line, login>>
    /\ UNCHANGED <<shell, browser, input, trail, mishaps>>

\* ws_to_device: a line, a message that is none, or the end.
PassInput ==
    /\ At("relay") /\ input = "reading"
    /\ \/ /\ browser.there /\ browser.sent < MaxKeys
          /\ browser' = [browser EXCEPT !.sent = @ + 1]
          /\ (Types("keys") /\ UNCHANGED input) \/ (input' = "done" /\ UNCHANGED line)
       \/ /\ ~browser.there /\ input' = "done" /\ UNCHANGED <<browser, line>>
    /\ UNCHANGED <<shell, output, login, trail, mishaps>>

\* Mutant: the handler waits for all of its tasks.
AllDone ==
    /\ At("relay") /\ input = "done" /\ output.pc = "done"
    /\ Moves("close")
    /\ UNCHANGED <<line, browser, output, input, login, trail, mishaps>>

\* The first task that ends, ends the session.
FirstDone ==
    /\ At("relay") /\ (input = "done" \/ output.pc = "done")
    /\ Moves("close")
    /\ UNCHANGED <<line, browser, output, input, login, trail, mishaps>>

\* The tasks are cancelled and the connection is closed; a process whose channel
\* the device has closed cannot be killed, and that exception skips the rest.
CloseDevice ==
    /\ At("close")
    /\ output' = NoOutput /\ input' = "off"
    /\ \/ Moves("leave") /\ line' = [line EXCEPT !.open = FALSE]
       \/ shell.method = "ssh" /\ line.hung /\ Ends("kill") /\ UNCHANGED line
    /\ UNCHANGED <<browser, login, trail, mishaps>>

LeaveSession ==
    /\ At("leave") /\ Ends("closed")
    /\ (Logs("CLOSE_WEBSHELL") /\ UNCHANGED mishaps) \/ (Mishap /\ UNCHANGED trail)
    /\ UNCHANGED <<line, browser, output, input, login>>

-----------------------------------------------------------------------------
\* The device takes a line for the answer to what it has asked.
DeviceReads ==
    /\ line.open /\ ~line.hung /\ line.typed # <<>>
    /\ LET secret == IF Head(line.typed) = "secret" THEN Append(line.secret, line.asks) ELSE line.secret
           prints(asks, out) == line' = [line EXCEPT !.typed = Tail(@), !.secret = secret, !.asks = asks,
                                           !.prints = @ \o out] IN
         \/ line.asks = "user" /\ prints("pass", AskPassword)
         \/ line.asks = "pass" /\ (prints("prompt", <<"text">>) \/ prints("user", AskUser))
         \/ line.asks = "prompt" /\ \E out \in Outputs : prints("prompt", out)
    /\ UNCHANGED <<shell, browser, output, input, login, trail, mishaps>>

DeviceHangsUp ==
    /\ line.open /\ ~line.hung /\ line' = [line EXCEPT !.hung = TRUE]
    /\ UNCHANGED <<shell, browser, output, input, login, trail, mishaps>>

BrowserLeaves ==
    /\ browser.there /\ ~At("over") /\ browser' = [browser EXCEPT !.there = FALSE]
    /\ UNCHANGED <<shell, line, output, input, login, trail, mishaps>>

\* The web process dies, and its connections with it.
CrashShell ==
    /\ Mishap /\ ~At("over") /\ Ends("crash")
    /\ line' = [line EXCEPT !.open = FALSE]
    /\ UNCHANGED <<browser, output, input, login, trail>>

\* The handler goes on: attempts to connect time out, and the tasks of the loop run.
Relay ==
    \/ Accept \/ AwaitInit \/ ConnectDevice \/ Greet \/ EnterSession
    \/ ReadOutput \/ SendOutput \/ PassInput \/ FirstDone \/ CloseDevice \/ LeaveSession

ShellNext ==
    \/ Relay
    \/ DeviceReads \/ DeviceHangsUp \/ BrowserLeaves \/ CrashShell

-----------------------------------------------------------------------------
\* When the browser has gone, or the device has hung up, the session comes to its
\* end whatever the other side does, its connection is closed and its end is
\* logged as its beginning was; except that a set-up that fails half-way, and a
\* process that cannot be killed, leave the connection, and that a failing
\* transaction or a crash costs the entry.  (device_webshell)
ShellEnds ==
    (~browser.there \/ line.hung) ~>
        /\ At("over")
        /\ line.open => shell.ended \in {"setup", "kill"}
        /\ trail = {"OPEN_WEBSHELL"} => shell.ended = "kill" \/ mishaps > 0

\* The stored password is typed once at most, and answers a question for a
\* password, unless the banner looks like a question or the user typed too.
\* (telnet_login_state)
PasswordIsTypedOnce ==
    /\ Cardinality({i \in DOMAIN line.typed : line.typed[i] = "secret"}) + Len(line.secret) <= 1
    /\ line.plain /\ browser.sent = 0 => ToSet(line.secret) \subseteq {"pass"}
=============================================================================

--------------------------- MODULE DialoguesProofs ---------------------------
(***************************************************************************)
(* What holds of the dialogues for every device, banner, way of cutting    *)
(* the output, and number of messages, failing transactions and crashes.   *)
(***************************************************************************)
EXTENDS Dialogues, FiniteSetTheorems, TLAPS

Said == {"text", "login", "pass", "word"}

ShellStates ==
    [pc : {"start", "init", "connect", "greet", "enter", "relay", "close", "leave", "over"},
     method : {"ssh", "telnet"}, attempt : {1, 2},
     ended : {"no", "refused", "setup", "kill", "closed", "crash"}]

LineStates ==
    [open : BOOLEAN, hung : BOOLEAN, asks : {"nobody", "user", "pass", "prompt"}, plain : BOOLEAN,
     prints : Seq(Said), typed : Seq({"name", "secret", "keys"}),
     secret : Seq({"nobody", "user", "pass", "prompt"})]

\* What every part of the shell is made of.
ShellTypes ==
    /\ shell \in ShellStates
    /\ line \in LineStates
    /\ browser \in [there : BOOLEAN, sent : Nat]
    /\ output \in [pc : {"off", "reading", "sending", "done"}, data : Seq(Said)]
    /\ login \in [step : 0..2, buffer : Seq(Said)]

\* Nothing is said before the connection is made.
ConnectsFirst ==
    /\ shell.pc \in {"start", "init", "connect"} =>
          line = NoLine /\ output = NoOutput /\ login = [step |-> 0, buffer |-> <<>>]
    /\ line.asks = "nobody" => line = NoLine /\ shell.pc \in {"start", "init", "connect", "over"}

IsSecret(i) == line.typed[i] = "secret"

\* The login types the password last, and the device reads it once.
SecretOnce ==
    /\ \A i, j \in DOMAIN line.typed : IsSecret(i) /\ IsSecret(j) => i = j
    /\ line.secret = <<>> \/ (Len(line.secret) = 1 /\ \A i \in DOMAIN line.typed : ~IsSecret(i))
    /\ login.step < 2 => line.secret = <<>> /\ \A i \in DOMAIN line.typed : ~IsSecret(i)

\* What the device has printed and the login has not answered.
Unanswered == ToSet(login.buffer) \cup ToSet(output.data) \cup ToSet(line.prints)

\* The question for the name is asked last, and once.
NameAskedLast ==
    /\ \A i \in DOMAIN line.prints : line.prints[i] = "login" => i = Len(line.prints)
    /\ "login" \in ToSet(login.buffer) \cup ToSet(output.data) => line.prints = <<>>

\* Without a question in the banner and without the user's keys, the login answers
\* what the device asks.
Answers ==
    line.plain /\ browser.sent = 0 =>
        /\ shell.method = "ssh" => line.typed = <<>> /\ line.secret = <<>>
        /\ shell.method = "telnet" /\ login.step = 2 =>
              \/ line.asks = "pass" /\ line.typed = <<"secret">> /\ line.secret = <<>>
              \/ line.typed = <<>> /\ line.secret = <<"pass">>
        /\ shell.method = "telnet" /\ login.step < 2 =>
              /\ line.asks # "prompt"
              /\ line.asks = "pass" => line.typed = <<>> /\ "login" \notin Unanswered
              /\ line.asks = "user" =>
                    /\ "word" \notin Unanswered
                    /\ login.step = 0 => line.typed = <<>> /\ NameAskedLast
                    /\ login.step = 1 => line.typed = <<"name">> /\ "login" \notin Unanswered

ShellInv == ShellTypes /\ ConnectsFirst /\ SecretOnce /\ Answers

-----------------------------------------------------------------------------
(* Sequences of what is said. *)

LEMMA SaidParts ==
    ASSUME NEW s \in Seq(Said), NEW m \in Nat \ {0}, NEW n \in 0..Len(s)
    PROVE  SubSeq(s, m, n) \in Seq(Said) /\ ToSet(SubSeq(s, m, n)) \subseteq ToSet(s)
<1>1. /\ SubSeq(s, m, n) \in Seq(Said)
      /\ \A i \in DOMAIN SubSeq(s, m, n) : m + i - 1 \in DOMAIN s /\ SubSeq(s, m, n)[i] = s[m + i - 1]
  OBVIOUS
<1> QED
  BY <1>1 DEF ToSet

LEMMA SaidTogether ==
    ASSUME NEW s \in Seq(Said), NEW t \in Seq(Said)
    PROVE  s \o t \in Seq(Said) /\ ToSet(s \o t) = ToSet(s) \cup ToSet(t)
<1>1. /\ s \o t \in Seq(Said) /\ Len(s \o t) = Len(s) + Len(t)
      /\ \A i \in DOMAIN s : i \in DOMAIN (s \o t) /\ (s \o t)[i] = s[i]
      /\ \A i \in DOMAIN t : Len(s) + i \in DOMAIN (s \o t) /\ (s \o t)[Len(s) + i] = t[i]
      /\ \A i \in DOMAIN (s \o t) : \/ i \in DOMAIN s /\ (s \o t)[i] = s[i]
                                    \/ i - Len(s) \in DOMAIN t /\ (s \o t)[i] = t[i - Len(s)]
  OBVIOUS
<1>2. ToSet(s \o t) \subseteq ToSet(s) \cup ToSet(t)
  BY <1>1 DEF ToSet
<1>3. ASSUME NEW i \in DOMAIN s
      PROVE  s[i] \in ToSet(s \o t)
  BY <1>1 DEF ToSet
<1>4. ASSUME NEW i \in DOMAIN t
      PROVE  t[i] \in ToSet(s \o t)
  <2>1. Len(s) + i \in DOMAIN (s \o t) /\ (s \o t)[Len(s) + i] = t[i]
    BY <1>1
  <2> QED
    BY <2>1, Zenon DEF ToSet
<1>5. ToSet(s) \subseteq ToSet(s \o t) /\ ToSet(t) \subseteq ToSet(s \o t)
  BY <1>3, <1>4, Zenon DEF ToSet
<1> QED
  BY <1>1, <1>2, <1>5

LEMMA NothingSaid == ToSet(<<>>) = {} /\ <<>> \in Seq(Said)
BY DEF ToSet

\* The login looks at nothing but what it had and what has come.
LEMMA SeenIsSaid ==
    ASSUME ShellTypes, NEW data \in Seq(Said)
    PROVE  Seen(data) \in Seq(Said) /\ ToSet(Seen(data)) \subseteq ToSet(login.buffer) \cup ToSet(data)
<1>1. PICK all : all = login.buffer \o data
  OBVIOUS
<1>2. all \in Seq(Said) /\ ToSet(all) = ToSet(login.buffer) \cup ToSet(data)
  BY <1>1, SaidTogether DEF ShellTypes, ShellStates, LineStates
<1>3. PICK m : m = IF Len(all) > Kept THEN Len(all) - Kept + 1 ELSE 1
  OBVIOUS
<1>4. m \in Nat \ {0} /\ Len(all) \in 0..Len(all)
  BY <1>2, <1>3, ShellAssumption
<1>5. Seen(data) = SubSeq(all, m, Len(all))
  BY <1>1, <1>3 DEF Seen
<1> QED
  BY <1>2, <1>4, <1>5, SaidParts

LEMMA AskedWasSaid ==
    ASSUME NEW buffer \in Seq(Said)
    PROVE  /\ Asks(buffer, AskPassword) => "word" \in ToSet(buffer)
           /\ Asks(buffer, AskUser) => "login" \in ToSet(buffer)
<1>1. ASSUME Asks(buffer, AskPassword)
      PROVE  "word" \in ToSet(buffer)
  <2>1. PICK i \in 0..(Len(buffer) - 2) : SubSeq(buffer, i + 1, i + 2) = <<"pass", "word">>
    BY <1>1 DEF Asks, AskPassword
  <2>2. i + 2 \in DOMAIN buffer /\ SubSeq(buffer, i + 1, i + 2)[2] = buffer[i + 2]
    BY <2>1
  <2>3. buffer[i + 2] = "word"
    <3>1. <<"pass", "word">>[2] = "word"
      OBVIOUS
    <3> QED
      BY <2>1, <2>2, <3>1, Zenon
  <2> QED
    BY <2>2, <2>3 DEF ToSet
<1>2. ASSUME Asks(buffer, AskUser)
      PROVE  "login" \in ToSet(buffer)
  <2>1. PICK i \in 0..(Len(buffer) - 1) : SubSeq(buffer, i + 1, i + 1) = <<"login">>
    BY <1>2 DEF Asks, AskUser
  <2>2. i + 1 \in DOMAIN buffer /\ SubSeq(buffer, i + 1, i + 1)[1] = buffer[i + 1]
    BY <2>1
  <2>3. buffer[i + 1] = "login"
    <3>1. <<"login">>[1] = "login"
      OBVIOUS
    <3> QED
      BY <2>1, <2>2, <3>1, Zenon
  <2> QED
    BY <2>2, <2>3 DEF ToSet
<1> QED
  BY <1>1, <1>2

LEMMA QuestionsSaid ==
    /\ AskUser \in Seq(Said) /\ ToSet(AskUser) = {"login"}
    /\ AskPassword \in Seq(Said) /\ ToSet(AskPassword) = {"pass", "word"}
BY DEF AskUser, AskPassword, ToSet, Said

-----------------------------------------------------------------------------
(* The steps of the shell. *)

\* A step at which the device asks nothing new and nothing is typed.
LEMMA ShellCalm ==
    ASSUME ShellInv, ShellTypes', ConnectsFirst', login'.step = login.step,
           line'.asks = line.asks, line'.typed = line.typed, line'.plain = line.plain,
           line'.secret = line.secret, browser'.sent = browser.sent, shell'.method = shell.method,
           Unanswered' \subseteq Unanswered, NameAskedLast => NameAskedLast'
    PROVE  ShellInv'
<1>1. SecretOnce'
  BY DEF ShellInv, SecretOnce, IsSecret
<1>2. Answers'
  BY DEF ShellInv, Answers
<1> QED
  BY <1>1, <1>2 DEF ShellInv

\* A step that leaves what is said and typed alone.
LEMMA ShellQuiet ==
    ASSUME ShellInv, ShellTypes', ConnectsFirst', login' = login,
           line'.asks = line.asks, line'.prints = line.prints, line'.typed = line.typed,
           line'.plain = line.plain, line'.secret = line.secret,
           output'.data = output.data, browser'.sent = browser.sent, shell'.method = shell.method
    PROVE  ShellInv'
<1>1. Unanswered' = Unanswered /\ (NameAskedLast <=> NameAskedLast')
  BY DEF Unanswered, NameAskedLast
<1> QED
  BY <1>1, ShellCalm

\* A step of the handler that touches neither the device nor the login.
LEMMA HandlerSteps ==
    ASSUME ShellInv,
           Accept \/ AwaitInit \/ Greet \/ EnterSession \/ FirstDone \/ LeaveSession \/ BrowserLeaves
    PROVE  ShellInv'
<1>1. /\ line' = line /\ login' = login /\ output'.data = output.data
      /\ browser' \in [there : BOOLEAN, sent : Nat] /\ browser'.sent = browser.sent
  BY DEF ShellInv, ShellTypes, ShellStates, LineStates, Accept, AwaitInit, Greet, EnterSession, StartTasks,
     FailsInSetup, FirstDone, LeaveSession, BrowserLeaves
<1>2. output' \in [pc : {"off", "reading", "sending", "done"}, data : Seq(Said)]
  BY DEF ShellInv, ShellTypes, ShellStates, LineStates, Accept, AwaitInit, Greet, EnterSession, StartTasks,
     FailsInSetup, FirstDone, LeaveSession, BrowserLeaves
<1>3. \/ shell' = shell /\ output' = output
      \/ /\ shell'.pc = "init" /\ shell.pc = "start" /\ output' = output
      \/ /\ shell'.pc = "connect" /\ shell.pc = "init" /\ output' = output
      \/ /\ shell'.pc \in {"enter", "relay", "close"} /\ shell.pc \in {"greet", "enter", "relay"}
      \/ shell'.pc = "over"
  BY DEF ShellInv, ShellTypes, ShellStates, LineStates, Accept, AwaitInit, Greet, EnterSession, StartTasks,
     FailsInSetup, FirstDone, LeaveSession, BrowserLeaves, Moves, Ends, At
<1>4. /\ shell' \in ShellStates
      /\ shell'.method = shell.method
  BY DEF ShellInv, ShellTypes, ShellStates, LineStates, Accept, AwaitInit, Greet, EnterSession, StartTasks,
     FailsInSetup, FirstDone, LeaveSession, BrowserLeaves, Moves, Ends, At
<1>5. ShellTypes'
  BY <1>1, <1>2, <1>4 DEF ShellInv, ShellTypes, ShellStates, LineStates
<1>6. ConnectsFirst'
  BY <1>1, <1>3 DEF ShellInv, ConnectsFirst
<1> QED
  BY <1>1, <1>4, <1>5, <1>6, ShellQuiet

\* What ends the connection, or every process, changes nothing that was said.
LEMMA LineSteps ==
    ASSUME ShellInv, DeviceHangsUp \/ CrashShell
    PROVE  ShellInv'
<1>1. CASE DeviceHangsUp
  <2>1. UNCHANGED <<shell, browser, output, login>> /\ line.open /\ line' = [line EXCEPT !.hung = TRUE]
    BY <1>1 DEF DeviceHangsUp
  <2>2. ShellTypes'
    BY <2>1 DEF ShellInv, ShellTypes, ShellStates, LineStates
  <2>3. ConnectsFirst'
    BY <2>1 DEF ShellInv, ConnectsFirst, NoLine, ShellTypes, ShellStates, LineStates
  <2> QED
    BY <2>1, <2>2, <2>3, ShellQuiet DEF ShellInv, ShellTypes, ShellStates, LineStates
<1>2. CASE CrashShell
  <2>1. /\ UNCHANGED <<browser, output, login>> /\ line' = [line EXCEPT !.open = FALSE]
        /\ shell' = [shell EXCEPT !.pc = "over", !.ended = "crash"]
    BY <1>2 DEF CrashShell, Ends
  <2>2. ShellTypes'
    BY <2>1 DEF ShellInv, ShellTypes, ShellStates, LineStates
  <2>3. shell'.pc = "over" /\ line'.asks = line.asks
    BY <2>1 DEF ShellInv, ShellTypes, ShellStates, LineStates
  <2>4. line.asks = "nobody" => line' = NoLine
    <3>1. PICK closed : closed = [NoLine EXCEPT !.open = FALSE]
      OBVIOUS
    <3>2. closed = NoLine
      BY <3>1 DEF NoLine
    <3> QED
      BY <2>1, <3>1, <3>2 DEF ShellInv, ConnectsFirst
  <2>5. ConnectsFirst'
    BY <2>3, <2>4 DEF ConnectsFirst
  <2> QED
    BY <2>1, <2>2, <2>5, ShellQuiet DEF ShellInv, ShellTypes, ShellStates, LineStates
<1> QED
  BY <1>1, <1>2

LEMMA CloseStep ==
    ASSUME ShellInv, CloseDevice
    PROVE  ShellInv'
<1>1. /\ output' = NoOutput /\ UNCHANGED <<browser, login>> /\ shell.pc = "close"
      /\ line' = line \/ line' = [line EXCEPT !.open = FALSE]
      /\ \/ shell' = [shell EXCEPT !.pc = "leave"]
         \/ shell' = [shell EXCEPT !.pc = "over", !.ended = "kill"]
  BY DEF CloseDevice, At, Moves, Ends
<1>2. ShellTypes'
  <2>1. shell' \in ShellStates
    BY <1>1 DEF ShellInv, ShellTypes, ShellStates
  <2>2. line' \in LineStates
    BY <1>1 DEF ShellInv, ShellTypes, LineStates
  <2>3. output' \in [pc : {"off", "reading", "sending", "done"}, data : Seq(Said)]
    BY <1>1, NothingSaid DEF NoOutput
  <2> QED
    BY <1>1, <2>1, <2>2, <2>3 DEF ShellInv, ShellTypes, ShellStates, LineStates
<1>3. ConnectsFirst'
  BY <1>1 DEF ShellInv, ConnectsFirst, ShellTypes, ShellStates, LineStates
<1>4. /\ line'.asks = line.asks /\ line'.prints = line.prints /\ line'.typed = line.typed
      /\ line'.plain = line.plain /\ line'.secret = line.secret
      /\ shell'.method = shell.method /\ browser'.sent = browser.sent
  BY <1>1 DEF ShellInv, ShellTypes, ShellStates, LineStates
<1>5. Unanswered' \subseteq Unanswered /\ (NameAskedLast => NameAskedLast')
  BY <1>1, <1>4, NothingSaid DEF Unanswered, NameAskedLast, NoOutput
<1> QED
  BY <1>1, <1>2, <1>3, <1>4, <1>5, ShellCalm

\* The first question comes after the banner.
LEMMA ConnectStep ==
    ASSUME ShellInv, ConnectDevice
    PROVE  ShellInv'
<1>1. /\ line = NoLine /\ output = NoOutput /\ login = [step |-> 0, buffer |-> <<>>] /\ shell.pc = "connect"
      /\ UNCHANGED <<browser, output, login>>
  BY DEF ShellInv, ConnectsFirst, ConnectDevice, At
<1>2. CASE line' = line
  <2>1. \/ shell' = [shell EXCEPT !.attempt = 2]
        \/ shell' = [shell EXCEPT !.pc = "over", !.ended = "refused"]
    BY <1>1, <1>2 DEF ConnectDevice, TelnetOpens, NoLine, Ends
  <2>2. ShellTypes'
    BY <1>1, <1>2, <2>1 DEF ShellInv, ShellTypes, ShellStates, LineStates
  <2>3. ConnectsFirst'
    BY <1>1, <1>2, <2>1 DEF ShellInv, ShellTypes, ShellStates, LineStates, ConnectsFirst
  <2>4. shell'.method = shell.method
    BY <2>1 DEF ShellInv, ShellTypes, ShellStates, LineStates
  <2> QED
    BY <1>1, <1>2, <2>2, <2>3, <2>4, ShellQuiet
<1>3. CASE shell.method = "ssh" /\ line' = [line EXCEPT !.open = TRUE, !.asks = "prompt"] /\ Moves("greet")
  <2>1. line' = [NoLine EXCEPT !.open = TRUE, !.asks = "prompt"] /\ shell' = [shell EXCEPT !.pc = "greet"]
    BY <1>1, <1>3 DEF Moves
  <2>2. ShellTypes'
    BY <1>1, <2>1 DEF ShellInv, ShellTypes, ShellStates, LineStates, NoLine
  <2>3. ConnectsFirst'
    BY <1>1, <2>1 DEF ConnectsFirst, NoLine, ShellInv, ShellTypes, ShellStates, LineStates
  <2>4. SecretOnce'
    BY <1>1, <2>1 DEF SecretOnce, NoLine
  <2>5. Answers'
    BY <1>1, <1>3, <2>1 DEF Answers, NoLine, ShellInv, ShellTypes, ShellStates, LineStates
  <2> QED
    BY <2>2, <2>3, <2>4, <2>5 DEF ShellInv
<1>4. CASE shell.method = "telnet" /\ TelnetOpens /\ Moves("greet")
  <2>1. PICK banner \in Banners, asks \in {"user", "pass"} :
          line' = [line EXCEPT !.open = TRUE, !.asks = asks,
                     !.plain = ({"login", "word"} \cap ToSet(banner) = {}),
                     !.prints = banner \o (IF asks = "user" THEN AskUser ELSE AskPassword)]
    BY <1>4 DEF TelnetOpens
  <2>2. PICK question : question = IF asks = "user" THEN AskUser ELSE AskPassword
    OBVIOUS
  <2>3. PICK prints : prints = banner \o question
    OBVIOUS
  <2>4. PICK plain \in BOOLEAN : plain = ({"login", "word"} \cap ToSet(banner) = {})
    OBVIOUS
  <2>5. line' = [open |-> TRUE, hung |-> FALSE, asks |-> asks, prints |-> prints, typed |-> <<>>,
                 plain |-> plain, secret |-> <<>>]
    BY <1>1, <2>1, <2>2, <2>3, <2>4 DEF NoLine
  <2>6. banner \in Seq(Said) /\ question \in Seq(Said)
    BY <2>2, QuestionsSaid, ShellAssumption DEF Said
  <2>7. prints \in Seq(Said) /\ ToSet(prints) = ToSet(banner) \cup ToSet(question)
    BY <2>3, <2>6, SaidTogether
  <2>8. shell' = [shell EXCEPT !.pc = "greet"]
    BY <1>4 DEF Moves
  <2>9. ShellTypes'
    <3>1. shell' \in ShellStates
      BY <2>8 DEF ShellInv, ShellTypes, ShellStates, LineStates
    <3>2. line' \in LineStates
      <4>1. <<>> \in Seq({"name", "secret", "keys"}) /\ <<>> \in Seq({"nobody", "user", "pass", "prompt"})
        OBVIOUS
      <4> QED
        BY <2>5, <2>7, <4>1 DEF LineStates
    <3> QED
      BY <1>1, <3>1, <3>2 DEF ShellInv, ShellTypes, ShellStates, LineStates
  <2>10. ConnectsFirst'
    BY <2>5, <2>8 DEF ConnectsFirst, ShellInv, ShellTypes, ShellStates, LineStates
  <2>11. SecretOnce'
    BY <1>1, <2>5 DEF SecretOnce
  <2>12. Unanswered' = ToSet(prints)
    BY <1>1, <2>5, NothingSaid DEF Unanswered, NoOutput
  <2>13. ASSUME plain
         PROVE  "login" \notin ToSet(banner) /\ "word" \notin ToSet(banner)
    BY <2>4, <2>13
  <2>14. ASSUME plain, asks = "pass"
         PROVE  "login" \notin Unanswered'
    BY <2>2, <2>7, <2>12, <2>13, <2>14, QuestionsSaid
  <2>15. ASSUME plain, asks = "user"
         PROVE  "word" \notin Unanswered' /\ NameAskedLast'
    <3>1. "word" \notin Unanswered'
      BY <2>2, <2>7, <2>12, <2>13, <2>15, QuestionsSaid
    <3>2. ASSUME NEW i \in DOMAIN prints, prints[i] = "login"
          PROVE  i = Len(prints)
      <4>1. prints = banner \o <<"login">>
        BY <2>2, <2>3, <2>15 DEF AskUser
      <4>2. i \in DOMAIN banner => banner[i] = "login"
        BY <2>6, <3>2, <4>1
      <4>3. i \notin DOMAIN banner
        BY <2>13, <2>15, <4>2 DEF ToSet
      <4> QED
        BY <2>6, <3>2, <4>1, <4>3
    <3>3. NameAskedLast'
      BY <1>1, <2>5, <3>2, NothingSaid DEF NameAskedLast, NoOutput
    <3> QED
      BY <3>1, <3>3
  <2>16. Answers'
    BY <1>1, <1>4, <2>5, <2>8, <2>14, <2>15 DEF Answers, ShellInv, ShellTypes, ShellStates, LineStates
  <2> QED
    BY <2>9, <2>10, <2>11, <2>16 DEF ShellInv
<1> QED
  BY <1>2, <1>3, <1>4 DEF ConnectDevice, ShellInv, ShellTypes, ShellStates, LineStates

\* What is read is said no more by the device, and not yet answered.
LEMMA ReadStep ==
    ASSUME ShellInv, ReadOutput
    PROVE  ShellInv'
<1>1. /\ UNCHANGED <<shell, browser, login>> /\ shell.pc = "relay" /\ line.asks # "nobody"
      /\ line.prints \in Seq(Said) /\ output \in [pc : {"off", "reading", "sending", "done"}, data : Seq(Said)]
      /\ line \in LineStates
  BY DEF ReadOutput, At, ShellInv, ConnectsFirst, ShellTypes, LineStates
<1>2. CASE UNCHANGED line /\ output' = [output EXCEPT !.pc = "done"]
  <2>1. ShellTypes'
    BY <1>1, <1>2 DEF ShellInv, ShellTypes
  <2>2. ConnectsFirst'
    BY <1>1, <1>2 DEF ConnectsFirst
  <2> QED
    BY <1>1, <1>2, <2>1, <2>2, ShellQuiet
<1>3. ASSUME NEW n \in 1..Len(line.prints),
             line' = [line EXCEPT !.prints = SubSeq(@, n + 1, Len(@))],
             output' = [pc |-> "sending", data |-> SubSeq(line.prints, 1, n)]
      PROVE  ShellInv'
  <2>1. PICK prints : prints = line.prints
    OBVIOUS
  <2>2. PICK rest : rest = SubSeq(prints, n + 1, Len(prints))
    OBVIOUS
  <2>3. PICK data : data = SubSeq(prints, 1, n)
    OBVIOUS
  <2>4. prints \in Seq(Said) /\ Len(prints) \in Nat /\ n \in 1..Len(prints)
    BY <1>1, <1>3, <2>1
  <2>5. rest \in Seq(Said) /\ ToSet(rest) \subseteq ToSet(prints)
    BY <2>2, <2>4, SaidParts
  <2>6. data \in Seq(Said) /\ ToSet(data) \subseteq ToSet(prints)
    BY <2>3, <2>4, SaidParts
  <2>7. /\ Len(rest) = Len(prints) - n /\ \A i \in DOMAIN rest : n + i \in DOMAIN prints /\ rest[i] = prints[n + i]
        /\ \A i \in DOMAIN data : i \in 1..n /\ i \in DOMAIN prints /\ data[i] = prints[i]
    BY <2>2, <2>3, <2>4
  <2>8. line' = [line EXCEPT !.prints = rest] /\ output' = [pc |-> "sending", data |-> data]
    BY <1>3, <2>1, <2>2, <2>3
  <2>9. ShellTypes'
    <3>1. line' \in LineStates
      BY <1>1, <2>5, <2>8 DEF LineStates
    <3>2. output' \in [pc : {"off", "reading", "sending", "done"}, data : Seq(Said)]
      BY <2>6, <2>8
    <3> QED
      BY <1>1, <3>1, <3>2 DEF ShellInv, ShellTypes
  <2>10. /\ line'.asks = line.asks /\ line'.typed = line.typed /\ line'.plain = line.plain
         /\ line'.secret = line.secret /\ line'.prints = rest /\ output'.data = data
    BY <1>1, <2>8 DEF LineStates
  <2>11. ConnectsFirst'
    BY <1>1, <2>10 DEF ConnectsFirst
  <2>12. Unanswered' \subseteq Unanswered
    BY <1>1, <2>1, <2>5, <2>6, <2>10 DEF Unanswered
  <2>13. ASSUME NameAskedLast
         PROVE  NameAskedLast'
    <3>1. \A i \in DOMAIN prints : prints[i] = "login" => i = Len(prints)
      BY <2>1, <2>13 DEF NameAskedLast
    <3>2. "login" \notin ToSet(login.buffer)
      BY <2>1, <2>4, <2>13 DEF NameAskedLast
    <3>3. ASSUME NEW i \in DOMAIN rest, rest[i] = "login"
          PROVE  i = Len(rest)
      BY <2>4, <2>5, <2>7, <3>1, <3>3
    <3>4. ASSUME "login" \in ToSet(data)
          PROVE  rest = <<>>
      <4>1. PICK i \in DOMAIN data : data[i] = "login"
        BY <3>4 DEF ToSet
      <4>2. i = Len(prints) /\ n = Len(prints)
        BY <2>4, <2>7, <3>1, <4>1
      <4> QED
        BY <2>2, <2>4, <4>2
    <3> QED
      BY <1>1, <2>10, <3>2, <3>3, <3>4 DEF NameAskedLast
  <2> QED
    BY <1>1, <2>9, <2>10, <2>11, <2>12, <2>13, ShellCalm
<1> QED
  BY <1>2, <1>3 DEF ReadOutput

\* Typing keeps what the shell is made of.
LEMMA TypedTypes ==
    ASSUME ShellTypes, NEW what \in {"name", "secret", "keys"}, Types(what)
    PROVE  /\ line' \in LineStates /\ line'.typed = Append(line.typed, what) /\ line'.asks = line.asks
           /\ line'.prints = line.prints /\ line'.plain = line.plain /\ line'.secret = line.secret
           /\ Len(line'.typed) = Len(line.typed) + 1 /\ line.typed \in Seq({"name", "secret", "keys"})
           /\ \A i \in DOMAIN line'.typed :
                 \/ i \in DOMAIN line.typed /\ line'.typed[i] = line.typed[i]
                 \/ i = Len(line.typed) + 1 /\ line'.typed[i] = what
<1>1. line.typed \in Seq({"name", "secret", "keys"}) /\ line' = [line EXCEPT !.typed = Append(@, what)]
      /\ line \in LineStates
  BY DEF ShellTypes, LineStates, Types
<1>2. PICK typed : typed = Append(line.typed, what)
  OBVIOUS
<1>3. /\ typed \in Seq({"name", "secret", "keys"}) /\ Len(typed) = Len(line.typed) + 1
      /\ \A i \in DOMAIN typed : \/ i \in DOMAIN line.typed /\ typed[i] = line.typed[i]
                                 \/ i = Len(line.typed) + 1 /\ typed[i] = what
  BY <1>1, <1>2
<1>4. line' = [line EXCEPT !.typed = typed]
  BY <1>1, <1>2
<1>5. line' \in LineStates /\ line'.typed = typed
  BY <1>1, <1>3, <1>4 DEF LineStates
<1> QED
  BY <1>1, <1>2, <1>3, <1>4, <1>5 DEF LineStates

\* What is not the password keeps it typed once.
LEMMA TypedPlainly ==
    ASSUME ShellInv, NEW what \in {"name", "keys"}, Types(what), login'.step < 2 => login.step < 2
    PROVE  SecretOnce'
<1>1. /\ line'.secret = line.secret
      /\ \A i \in DOMAIN line'.typed :
            \/ i \in DOMAIN line.typed /\ line'.typed[i] = line.typed[i]
            \/ line'.typed[i] # "secret"
  BY TypedTypes DEF ShellInv
<1> QED
  BY <1>1 DEF ShellInv, SecretOnce, IsSecret

\* The task passes output on and answers the questions in it.
LEMMA SendStep ==
    ASSUME ShellInv, SendOutput
    PROVE  ShellInv'
<1>1. /\ UNCHANGED <<shell, browser>> /\ shell.pc = "relay" /\ line.asks # "nobody"
      /\ output \in [pc : {"off", "reading", "sending", "done"}, data : Seq(Said)]
      /\ line \in LineStates /\ login \in [step : 0..2, buffer : Seq(Said)] /\ ShellTypes
  BY DEF SendOutput, At, ShellInv, ConnectsFirst, ShellTypes, LineStates
<1>2. CASE output' = [output EXCEPT !.pc = "done"] /\ UNCHANGED <<line, login>>
  <2>1. ShellTypes'
    BY <1>1, <1>2 DEF ShellTypes
  <2>2. ConnectsFirst'
    BY <1>1, <1>2 DEF ConnectsFirst
  <2> QED
    BY <1>1, <1>2, <2>1, <2>2, ShellQuiet
<1> DEFINE buffer == Seen(output.data)
<1>3. buffer \in Seq(Said) /\ ToSet(buffer) \subseteq ToSet(login.buffer) \cup ToSet(output.data)
  BY <1>1, SeenIsSaid
<1>4. ToSet(<<>>) = {} /\ <<>> \in Seq(Said)
  BY NothingSaid
<1>5. CASE output' = [pc |-> "reading", data |-> <<>>] /\ UNCHANGED <<line, login>>
  <2>1. ShellTypes'
    BY <1>1, <1>4, <1>5 DEF ShellTypes
  <2>2. ConnectsFirst'
    BY <1>1, <1>5 DEF ConnectsFirst
  <2>3. Unanswered' \subseteq Unanswered /\ (NameAskedLast => NameAskedLast')
    BY <1>4, <1>5 DEF Unanswered, NameAskedLast
  <2> QED
    BY <1>1, <1>5, <2>1, <2>2, <2>3, ShellCalm
<1>6. CASE /\ output' = [pc |-> "reading", data |-> <<>>] /\ UNCHANGED line
           /\ login' = [login EXCEPT !.buffer = buffer]
  <2>1. login' \in [step : 0..2, buffer : Seq(Said)] /\ login'.step = login.step /\ login'.buffer = buffer
    <3> HIDE DEF buffer
    <3> QED
      BY <1>1, <1>3, <1>6
  <2>2. ShellTypes'
    BY <1>1, <1>4, <1>6, <2>1 DEF ShellTypes
  <2>3. ConnectsFirst'
    BY <1>1, <1>6 DEF ConnectsFirst
  <2>4. output'.data = <<>>
    BY <1>6
  <2>5. Unanswered' \subseteq Unanswered /\ (NameAskedLast => NameAskedLast')
    <3> HIDE DEF buffer
    <3> QED
      BY <1>3, <1>4, <1>6, <2>1, <2>4 DEF Unanswered, NameAskedLast
  <2> QED
    BY <1>1, <1>6, <2>1, <2>2, <2>3, <2>5, ShellCalm
<1>7. CASE /\ output' = [pc |-> "reading", data |-> <<>>] /\ Types("secret") /\ login.step # 2
           /\ shell.method = "telnet" /\ Asks(buffer, AskPassword) /\ login' = [step |-> 2, buffer |-> <<>>]
  <2>1. login.step < 2 /\ login'.step = 2
    BY <1>1, <1>7
  <2>2. /\ line' \in LineStates /\ line'.typed = Append(line.typed, "secret") /\ line'.asks = line.asks
        /\ line'.plain = line.plain /\ line'.secret = line.secret
        /\ Len(line'.typed) = Len(line.typed) + 1 /\ line.typed \in Seq({"name", "secret", "keys"})
        /\ \A i \in DOMAIN line'.typed : \/ i \in DOMAIN line.typed /\ line'.typed[i] = line.typed[i]
                                         \/ i = Len(line.typed) + 1
    BY <1>1, <1>7, TypedTypes
  <2>3. ShellTypes'
    BY <1>1, <1>4, <1>7, <2>2 DEF ShellTypes
  <2>4. ConnectsFirst'
    BY <1>1, <2>2 DEF ConnectsFirst
  <2>5. line.secret = <<>> /\ \A i \in DOMAIN line.typed : ~IsSecret(i)
    BY <2>1 DEF ShellInv, SecretOnce
  <2>6. SecretOnce'
    BY <2>1, <2>2, <2>5 DEF SecretOnce, IsSecret
  <2>7. "word" \in Unanswered
    BY <1>3, <1>7, AskedWasSaid DEF Unanswered
  <2>8. ASSUME line.plain, browser.sent = 0
        PROVE  line.asks = "pass" /\ line'.typed = <<"secret">>
    <3>1. line.asks \in {"user", "pass"} /\ (line.asks = "pass" => line.typed = <<>>)
          /\ (line.asks = "user" => "word" \notin Unanswered)
      BY <1>1, <1>7, <2>1, <2>8 DEF ShellInv, Answers, LineStates
    <3>2. line.asks = "pass" /\ line.typed = <<>>
      BY <2>7, <3>1
    <3>3. Append(<<>>, "secret") = <<"secret">>
      OBVIOUS
    <3> QED
      BY <2>2, <3>2, <3>3
  <2>9. Answers'
    BY <1>1, <1>7, <2>1, <2>2, <2>5, <2>8 DEF Answers
  <2> QED
    BY <2>3, <2>4, <2>6, <2>9 DEF ShellInv
<1>8. CASE /\ output' = [pc |-> "reading", data |-> <<>>] /\ Types("name") /\ login.step = 0
           /\ shell.method = "telnet" /\ Asks(buffer, AskUser) /\ login' = [step |-> 1, buffer |-> <<>>]
  <2>1. login'.step = 1 /\ login'.buffer = <<>> /\ output'.data = <<>>
    BY <1>8
  <2>2. /\ line' \in LineStates /\ line'.typed = Append(line.typed, "name") /\ line'.asks = line.asks
        /\ line'.plain = line.plain /\ line'.secret = line.secret /\ line'.prints = line.prints
    BY <1>1, <1>8, TypedTypes
  <2>3. ShellTypes'
    BY <1>1, <1>4, <1>8, <2>2 DEF ShellTypes
  <2>4. ConnectsFirst'
    BY <1>1, <2>2 DEF ConnectsFirst
  <2>5. SecretOnce'
    BY <1>8, TypedPlainly
  <2>6. "login" \in ToSet(login.buffer) \cup ToSet(output.data)
    BY <1>3, <1>8, AskedWasSaid
  <2>7. ASSUME line.plain, browser.sent = 0
        PROVE  line.asks = "user" /\ line'.typed = <<"name">> /\ Unanswered' = {}
    <3>1. line.asks \in {"user", "pass"} /\ (line.asks = "pass" => "login" \notin Unanswered)
          /\ (line.asks = "user" => line.typed = <<>> /\ NameAskedLast)
      BY <1>1, <1>8, <2>7 DEF ShellInv, Answers, LineStates
    <3>2. line.asks = "user"
      BY <2>6, <3>1 DEF Unanswered
    <3>3. line.prints = <<>> /\ line.typed = <<>>
      BY <2>6, <3>1, <3>2 DEF NameAskedLast
    <3> QED
      BY <1>4, <2>1, <2>2, <3>2, <3>3 DEF Unanswered
  <2>8. Answers'
    BY <1>1, <1>8, <2>1, <2>2, <2>7 DEF Answers
  <2> QED
    BY <2>3, <2>4, <2>5, <2>8 DEF ShellInv
<1>9. CASE browser.there /\ shell.method = "telnet" /\ LogIn(output.data)
  BY <1>5, <1>6, <1>7, <1>8, <1>9 DEF SendOutput, LogIn
<1> QED
  BY <1>2, <1>5, <1>9 DEF SendOutput

\* The browser's keys are not the password.
LEMMA InputStep ==
    ASSUME ShellInv, PassInput
    PROVE  ShellInv'
<1>1. /\ UNCHANGED <<shell, output, login>> /\ shell.pc = "relay" /\ line.asks # "nobody" /\ ShellTypes
      /\ browser' \in [there : BOOLEAN, sent : Nat]
  BY DEF PassInput, At, ShellInv, ConnectsFirst, ShellTypes
<1>2. CASE UNCHANGED line /\ browser' = browser
  <2>1. ShellTypes' /\ ConnectsFirst'
    BY <1>1, <1>2 DEF ShellTypes, ConnectsFirst
  <2> QED
    BY <1>1, <1>2, <2>1, ShellQuiet
<1>3. CASE browser' = [browser EXCEPT !.sent = @ + 1]
  <2>1. browser'.sent # 0
    BY <1>1, <1>3 DEF ShellTypes
  <2>2. Answers'
    BY <2>1 DEF Answers
  <2>3. CASE UNCHANGED line
    <3>1. ShellTypes' /\ ConnectsFirst'
      BY <1>1, <2>3 DEF ShellTypes, ConnectsFirst
    <3>2. SecretOnce'
      BY <1>1, <2>3 DEF ShellInv, SecretOnce, IsSecret
    <3> QED
      BY <2>2, <3>1, <3>2 DEF ShellInv
  <2>4. CASE Types("keys")
    <3>1. line' \in LineStates /\ line'.asks = line.asks
      BY <1>1, <2>4, TypedTypes
    <3>2. ShellTypes' /\ ConnectsFirst'
      BY <1>1, <3>1 DEF ShellTypes, ConnectsFirst
    <3>3. SecretOnce'
      BY <1>1, <2>4, TypedPlainly
    <3> QED
      BY <2>2, <3>2, <3>3 DEF ShellInv
  <2> QED
    BY <1>3, <2>3, <2>4 DEF PassInput
<1> QED
  BY <1>2, <1>3 DEF PassInput

\* The device takes one line, and asks what comes next.
LEMMA DeviceStep ==
    ASSUME ShellInv, DeviceReads
    PROVE  ShellInv'
<1>1. /\ UNCHANGED <<shell, browser, output, login>> /\ line.typed # <<>> /\ ShellTypes /\ line \in LineStates
      /\ line.asks \in {"user", "pass", "prompt"}
  BY DEF DeviceReads, ShellInv, ShellTypes, LineStates
<1>2. PICK asks \in {"user", "pass", "prompt"}, out \in Seq(Said),
           secret \in {line.secret, Append(line.secret, line.asks)} :
        /\ line' = [line EXCEPT !.typed = Tail(@), !.secret = secret, !.asks = asks, !.prints = @ \o out]
        /\ secret = IF Head(line.typed) = "secret" THEN Append(line.secret, line.asks) ELSE line.secret
        /\ line.asks = "user" => asks = "pass" /\ out = AskPassword
  <2>1. /\ AskUser \in Seq(Said) /\ AskPassword \in Seq(Said) /\ <<"text">> \in Seq(Said)
        /\ \A out \in Outputs : out \in Seq(Said)
    BY QuestionsSaid, ShellAssumption DEF Said
  <2> QED
    BY <2>1 DEF DeviceReads
<1>3. PICK typed, prints : typed = Tail(line.typed) /\ prints = line.prints \o out
  OBVIOUS
<1>4. /\ typed \in Seq({"name", "secret", "keys"}) /\ Len(typed) = Len(line.typed) - 1
      /\ Len(line.typed) \in Nat \ {0} /\ 1 \in DOMAIN line.typed /\ Head(line.typed) = line.typed[1]
      /\ \A i \in DOMAIN typed : i \in Nat \ {0} /\ i + 1 \in DOMAIN line.typed /\ typed[i] = line.typed[i + 1]
  BY <1>1, <1>3 DEF LineStates
<1>5. prints \in Seq(Said) /\ ToSet(prints) = ToSet(line.prints) \cup ToSet(out)
  BY <1>1, <1>3, SaidTogether DEF LineStates
<1>6. secret \in Seq({"nobody", "user", "pass", "prompt"})
  BY <1>1, <1>2 DEF LineStates
<1>7. line' = [line EXCEPT !.typed = typed, !.secret = secret, !.asks = asks, !.prints = prints]
  BY <1>2, <1>3
<1>8. /\ line' \in LineStates /\ line'.typed = typed /\ line'.secret = secret /\ line'.asks = asks
      /\ line'.prints = prints /\ line'.plain = line.plain
  BY <1>1, <1>4, <1>5, <1>6, <1>7 DEF LineStates
<1>9. ShellTypes'
  BY <1>1, <1>8 DEF ShellTypes
<1>10. ConnectsFirst'
  <2>1. shell.pc \notin {"start", "init", "connect"}
    BY <1>1 DEF ShellInv, ConnectsFirst, NoLine
  <2> QED
    BY <1>1, <1>8, <2>1 DEF ConnectsFirst
<1>11. SecretOnce'
  <2>1. CASE line.typed[1] = "secret"
    <3>1. IsSecret(1)
      BY <2>1 DEF IsSecret
    <3>2. line.secret = <<>> /\ login.step = 2
      BY <1>1, <1>4, <3>1 DEF ShellInv, SecretOnce, ShellTypes
    <3>3. ASSUME NEW i \in DOMAIN typed, typed[i] = "secret"
          PROVE  FALSE
      <4>1. IsSecret(i + 1) /\ i + 1 \in DOMAIN line.typed /\ i \in Nat \ {0}
        BY <1>4, <3>3 DEF IsSecret
      <4>2. i + 1 = 1
        BY <1>4, <3>1, <4>1 DEF ShellInv, SecretOnce
      <4> QED
        BY <4>1, <4>2
    <3>4. Len(secret) = 1
      BY <1>1, <1>2, <1>4, <2>1, <3>2 DEF LineStates
    <3> QED
      BY <1>1, <1>8, <3>2, <3>3, <3>4 DEF SecretOnce, IsSecret
  <2>2. CASE line.typed[1] # "secret"
    <3>1. secret = line.secret
      BY <1>2, <1>4, <2>2
    <3>2. \A i \in DOMAIN typed : typed[i] = "secret" => IsSecret(i + 1) /\ i + 1 \in DOMAIN line.typed
      BY <1>4 DEF IsSecret
    <3>3. ASSUME NEW i \in DOMAIN typed, NEW j \in DOMAIN typed, typed[i] = "secret", typed[j] = "secret"
          PROVE  i = j
      <4>1. i + 1 = j + 1
        BY <3>2, <3>3 DEF ShellInv, SecretOnce
      <4> QED
        BY <1>4, <4>1
    <3>4. line'.secret = <<>> \/ (Len(line'.secret) = 1 /\ \A i \in DOMAIN typed : typed[i] # "secret")
      BY <1>8, <3>1, <3>2 DEF ShellInv, SecretOnce
    <3>5. login.step < 2 => line'.secret = <<>> /\ \A i \in DOMAIN typed : typed[i] # "secret"
      BY <1>8, <3>1, <3>2 DEF ShellInv, SecretOnce
    <3> QED
      BY <1>1, <1>8, <3>3, <3>4, <3>5 DEF SecretOnce, IsSecret
  <2> QED
    BY <2>1, <2>2
<1>12. ASSUME line.plain, browser.sent = 0
       PROVE  /\ shell.method = "telnet"
              /\ login.step = 2 => typed = <<>> /\ secret = <<"pass">>
              /\ login.step < 2 => typed = <<>> /\ asks = "pass" /\ "login" \notin Unanswered'
  <2>1. shell.method = "telnet"
    BY <1>1, <1>12 DEF ShellInv, Answers, ShellTypes, ShellStates
  <2>2. ASSUME login.step = 2
        PROVE  typed = <<>> /\ secret = <<"pass">>
    <3>1. line.asks = "pass" /\ line.typed = <<"secret">> /\ line.secret = <<>>
      BY <1>1, <1>12, <2>1, <2>2 DEF ShellInv, Answers
    <3>2. Tail(<<"secret">>) = <<>> /\ Head(<<"secret">>) = "secret" /\ Append(<<>>, "pass") = <<"pass">>
      OBVIOUS
    <3> QED
      BY <1>2, <1>3, <3>1, <3>2
  <2>3. ASSUME login.step < 2
        PROVE  typed = <<>> /\ asks = "pass" /\ "login" \notin Unanswered'
    <3>1. line.asks = "user" /\ login.step = 1 /\ line.typed = <<"name">> /\ "login" \notin Unanswered
      BY <1>1, <1>12, <2>1, <2>3 DEF ShellInv, Answers, ShellTypes
    <3>2. Tail(<<"name">>) = <<>>
      OBVIOUS
    <3>3. Unanswered' = Unanswered \cup {"pass", "word"}
      BY <1>1, <1>2, <1>5, <1>8, <3>1, QuestionsSaid DEF Unanswered
    <3> QED
      BY <1>2, <1>3, <3>1, <3>2, <3>3
  <2> QED
    BY <2>1, <2>2, <2>3
<1>13. Answers'
  BY <1>1, <1>8, <1>12 DEF Answers
<1> QED
  BY <1>9, <1>10, <1>11, <1>13 DEF ShellInv

-----------------------------------------------------------------------------
(* The theorem. *)

LEMMA ShellStarts == DialoguesInit => ShellInv
<1>1. ASSUME line = NoLine, output = NoOutput, login = [step |-> 0, buffer |-> <<>>],
             browser = [there |-> TRUE, sent |-> 0], shell \in ShellStates, shell.pc \in {"start", "over"}
      PROVE  ShellInv
  <2>1. /\ <<>> \in Seq(Said) /\ <<>> \in Seq({"name", "secret", "keys"})
        /\ <<>> \in Seq({"nobody", "user", "pass", "prompt"}) /\ ToSet(<<>>) = {} /\ DOMAIN <<>> = {}
    BY NothingSaid
  <2>2. ShellTypes
    BY <1>1, <2>1 DEF ShellTypes, LineStates, NoLine, NoOutput
  <2>3. ConnectsFirst
    BY <1>1 DEF ConnectsFirst, NoLine
  <2>4. SecretOnce
    BY <1>1, <2>1 DEF SecretOnce, IsSecret, NoLine
  <2>5. Answers
    BY <1>1, <2>1 DEF Answers, NoLine
  <2> QED
    BY <2>2, <2>3, <2>4, <2>5 DEF ShellInv
<1>2. NoShell => ShellInv
  BY <1>1 DEF NoShell, ShellStates
<1>3. ShellInit => ShellInv
  BY <1>1 DEF ShellInit, ShellStates
<1> QED
  BY <1>2, <1>3 DEF DialoguesInit

LEMMA ShellGoesOn == ShellInv /\ [DialoguesNext]_dialogueVars => ShellInv'
<1> SUFFICES ASSUME ShellInv, [DialoguesNext]_dialogueVars
             PROVE  ShellInv'
  OBVIOUS
<1>1. CASE UNCHANGED shellVars
  <2>1. UNCHANGED <<shell, line, browser, output, login>>
    BY <1>1 DEF shellVars
  <2>2. ShellTypes' /\ ConnectsFirst'
    BY <2>1 DEF ShellInv, ShellTypes, ConnectsFirst
  <2> QED
    BY <2>1, <2>2, ShellQuiet
<1>2. CASE ShellNext
  BY <1>2, HandlerSteps, LineSteps, CloseStep, ConnectStep, ReadStep, SendStep, InputStep, DeviceStep
  DEF ShellNext, Relay
<1> QED
  BY <1>1, <1>2 DEF DialoguesNext, dialogueVars

LEMMA OncePassword == ShellInv => PasswordIsTypedOnce
<1> SUFFICES ASSUME ShellInv
             PROVE  PasswordIsTypedOnce
  OBVIOUS
<1> DEFINE places == {i \in DOMAIN line.typed : line.typed[i] = "secret"}
<1>1. /\ \A i, j \in places : i = j
      /\ line.secret = <<>> \/ (Len(line.secret) = 1 /\ places = {})
  BY DEF ShellInv, SecretOnce, IsSecret
<1>2. places = {} \/ \E i : places = {i}
  BY <1>1
<1>3. Cardinality(places) \in {0, 1} /\ (places = {} => Cardinality(places) = 0)
  BY <1>2, FS_EmptySet, FS_Singleton
<1>4. Cardinality(places) + Len(line.secret) <= 1
  <2>1. Len(<<>>) = 0
    OBVIOUS
  <2>2. \/ Cardinality(places) = 0 /\ Len(line.secret) = 1
        \/ Cardinality(places) \in {0, 1} /\ Len(line.secret) = 0
    BY <1>1, <1>3, <2>1, Zenon
  <2>3. \A m, n : (m = 0 /\ n = 1) \/ (m \in {0, 1} /\ n = 0) => m + n <= 1
    OBVIOUS
  <2> QED
    BY <2>2, <2>3, Zenon
<1>5. ASSUME line.plain, browser.sent = 0
      PROVE  ToSet(line.secret) \subseteq {"pass"}
  <2>1. line.secret = <<>> \/ line.secret = <<"pass">>
    BY <1>5 DEF ShellInv, ShellTypes, ShellStates, SecretOnce, Answers
  <2>2. ToSet(<<>>) = {} /\ ToSet(<<"pass">>) = {"pass"}
    BY DEF ToSet
  <2> QED
    BY <2>1, <2>2
<1> QED
  BY <1>4, <1>5 DEF PasswordIsTypedOnce

\* However the output is cut, and whatever the other side does, the login types the
\* stored password once, and what it answers is a question for a password, unless
\* the banner looks like a question or the user typed too.  (device_webshell)
THEOREM PasswordTypedOnce == DialoguesSpec => []PasswordIsTypedOnce
<1>1. DialoguesInit => ShellInv
  BY ShellStarts
<1>2. ShellInv /\ [DialoguesNext]_dialogueVars => ShellInv'
  BY ShellGoesOn
<1>3. ShellInv => PasswordIsTypedOnce
  BY OncePassword
<1> QED
  BY <1>1, <1>2, <1>3, PTL DEF DialoguesSpec

-----------------------------------------------------------------------------
(* What the scripts of the handlers have in common. *)

Kinds == {"change", "half", "audit"}
Refusals == Either \cup Skip \cup Anyway
Writing == Cumulative \cup {"write"}

After == {"audit", "apart", "commit", "dispatch", "wake", "hint", "reload", "answer"}

StepSet == [do : Writing \cup After \cup {"check", "find", "half", "conflict", "queued", "again"},
            how : SUBSET Refusals]

\* A step of what a script names has been passed.
Past(steps, at, what) == \E i \in DOMAIN steps : i < at /\ steps[i].do \in what

\* Before its only write, a handler looks and refuses; after it, constraints may
\* fail; then it logs, commits, tells and answers.
Shape(steps, k) ==
    /\ steps \in Seq(StepSet) /\ k \in 1..(Len(steps) - 1)
    /\ steps[k].do \in Writing /\ steps[k].how \subseteq Either
    /\ steps[Len(steps)].do \in {"answer", "reload"}
    /\ \A i \in 1..(k - 1) :
          /\ steps[i].do \in {"check", "half"} => steps[i].how \subseteq Either
          /\ steps[i].do \in {"check", "half", "find"}
          /\ "anyway" \in steps[i].how => steps[i].how = Anyway /\ i + 1 = k
    /\ \A i \in (k + 1)..Len(steps) :
          \/ /\ steps[i].do = "conflict" /\ steps[i].how \subseteq Either
             /\ \A j \in (k + 1)..i : steps[j].do = "conflict"
          \/ steps[i].do \in {"queued", "again"} /\ steps[i].how \subseteq Either
          \/ /\ steps[i].do \in {"audit", "apart", "commit", "dispatch", "wake", "hint", "reload", "answer"}
             /\ steps[i].how = {}
    /\ \A i, j \in DOMAIN steps : steps[i].do = "answer" /\ i < j => steps[j].do = "reload"
    /\ \A i \in DOMAIN steps : steps[i].do \in {"apart", "queued", "again"} => Past(steps, i, {"commit"})
    /\ \A i \in DOMAIN steps : steps[i].do = "answer" /\ Some(steps, {"commit"}) => Past(steps, i, {"commit"})

\* And what is known of them by name.
ByName(of, steps, k) ==
    /\ Some(steps, {"queued", "again"}) => of \in RefusedLate /\ ~Some(steps, {"half"})
    /\ \A i, j \in 1..(k - 1) : steps[i].do = "half" /\ i < j
       /\ "return" \in steps[j].how => of = "update_group"
    /\ of \notin Unlogged \cup LoggedApart =>
          /\ Some(steps, {"audit"})
          /\ \A i \in DOMAIN steps : /\ steps[i].do = "commit" => Past(steps, i, {"audit"})
                                     /\ steps[i].do \in {"queued", "again"} => "return" \notin steps[i].how
    /\ of \in LoggedApart \ Unlogged =>
          \A i \in DOMAIN steps : /\ steps[i].do = "answer" => Past(steps, i, {"audit", "apart"})
                                  /\ "skip" \notin steps[i].how
    /\ of \notin EarlyWakers =>
          \A i \in DOMAIN steps : steps[i].do \in {"dispatch", "wake", "hint", "reload"} => Past(steps, i, {"commit"})
    /\ of \notin Unguarded =>
          (steps[k].do \in {"once", "write"})
          \/ (steps[k].do = "insert" /\ of \in LookFirst /\ Past(steps, k, {"find"}))

Regular(h, k) == Shape(h.does, k) /\ ByName(h.of, h.does, k)

-----------------------------------------------------------------------------
(* What is known of one request: q is what it is doing, mine the kinds of rows *)
(* it has committed, rows the changes committed by anyone.                     *)

Requests == [phase : {"idle", "running", "over"}, at : Nat \ {0}, open : SUBSET Kinds,
             heard : {"waiting", "ok", "refused", "error", "gone"}, queued : BOOLEAN, late : BOOLEAN]

Begins(q, mine, told) ==
    /\ q.phase = "idle" => q = NotYet /\ mine = {} /\ told = "none"
    /\ q.phase = "over" => q.open = {}

\* Where the change is, from the write on.
Flows(h, k, q, mine, rows) ==
    LET n == Len(h.does)
        past(what) == Past(h.does, q.at, what)
        made == "change" \in mine \/ (GoesOnAnyway(h.does) /\ rows # {}) IN
    /\ "change" \in mine => rows # {}
    /\ q.phase = "running" =>
        /\ k < q.at /\ q.at <= n => "change" \in q.open \/ rows # {}
        /\ k < q.at /\ q.at < n => "change" \in q.open \/ made
        /\ past({"commit"}) /\ q.at <= n => rows # {}
        /\ past({"commit"}) /\ q.at < n => made
        /\ "change" \in q.open => k < q.at /\ ~past({"commit"})
        /\ "half" \in q.open \cup mine => past({"half"})
        /\ "change" \in mine \/ "half" \in mine => past({"commit"})

\* What its client has heard.
Heard(h, k, q, mine, rows) ==
    LET n == Len(h.does) IN
    /\ q.phase = "running" /\ q.heard = "refused" =>
          /\ q.at > n
          /\ "change" \notin q.open
          /\ "half" \in q.open => h.of = "update_group"
    /\ q.heard = "refused" =>
          /\ "change" \in mine => h.of \in RefusedLate
          /\ "half" \in mine => h.of = "update_group"
    /\ q.heard = "ok" =>
          /\ q.phase = "running" => Past(h.does, q.at, {"answer"}) /\ ("change" \in q.open \/ rows # {})
          /\ Some(h.does, {"commit"}) => rows # {}
          /\ q.phase = "over" /\ ~q.late => rows # {}

\* Where its audit entry is.
Logged(h, k, q, mine, rows) ==
    LET n == Len(h.does)
        past(what) == Past(h.does, q.at, what)
        made == "change" \in mine \/ (GoesOnAnyway(h.does) /\ rows # {})
        logged == "audit" \in q.open \cup mine IN
    /\ "audit" \in mine => rows # {} /\ made
    /\ q.phase = "running" /\ "audit" \in q.open => "change" \in q.open \/ made
    /\ h.of \notin Unlogged \cup LoggedApart =>
          /\ "change" \in mine => "audit" \in mine
          /\ q.phase = "running" /\ "change" \in q.open /\ past({"audit"}) => "audit" \in q.open
    /\ h.of \in LoggedApart \ Unlogged =>
          /\ q.phase = "running" /\ q.at <= n /\ past({"audit", "apart"}) => logged
          /\ q.phase = "running" /\ q.heard = "ok" => logged
          /\ q.phase = "over" /\ q.heard = "ok" /\ ~q.late => "audit" \in mine

\* What those it told can find.
Followed(h, q, rows, told) ==
    /\ told = "old" => h.of \in EarlyWakers
    /\ told = "told" /\ h.of \notin EarlyWakers =>
          rows # {} /\ (q.phase = "running" => Past(h.does, q.at, {"commit"}))

\* What is kept of a request from one of its moves to the next.
Knows(h, k, q, mine, rows) ==
    Flows(h, k, q, mine, rows) /\ Heard(h, k, q, mine, rows) /\ Logged(h, k, q, mine, rows)

Sound(h, k, q, mine, rows, told) ==
    Begins(q, mine, told) /\ Knows(h, k, q, mine, rows) /\ Followed(h, q, rows, told)

Mine(r) == {kind \in Kinds : r \in db[kind]}

RequestInv(k, r) == Sound(script, k, req[r], Mine(r), db.change, follower[r])

\* The change of a request, or one that may still be committed.
Has(r) == (r \in db.change) \/ "change" \in req[r].open

OneChange(k) ==
    /\ together \/ \A q, r \in Request : Running(q) /\ Running(r) => q = r
    /\ script.of \notin Unguarded /\ Steps[k].do = "insert" /\ ~together =>
          \A r \in Request : Running(r) /\ req[r].at <= k /\ Past(Steps, req[r].at, {"find"}) => db.change = {}
    /\ script.of \notin Unguarded /\ (Steps[k].do = "once" \/ (Steps[k].do = "insert" /\ ~together)) =>
          \A q, r \in Request : Has(q) /\ Has(r) => q = r

HandlerTypes ==
    /\ req \in [Request -> Requests] /\ db \in [Kinds -> SUBSET Request]
    /\ follower \in [Request -> {"none", "told", "new", "old"}]

HandlerBody(k) ==
    Regular(script, k) /\ HandlerTypes /\ OneChange(k) /\ \A r \in Request : RequestInv(k, r)

HandlersInv == \E k \in DOMAIN Steps : HandlerBody(k)

-----------------------------------------------------------------------------
(* Scripts. *)

\* Where in a script each kind of step is.
LEMMA ShapeFacts ==
    ASSUME NEW steps, NEW k, Shape(steps, k), NEW i \in DOMAIN steps
    PROVE  /\ Len(steps) \in Nat /\ DOMAIN steps = 1..Len(steps) /\ k \in DOMAIN steps /\ k < Len(steps)
           /\ steps[i].do \in Writing <=> i = k
           /\ steps[i].do \in {"check", "find", "half"} => i < k
           /\ steps[i].do \in After \cup {"conflict", "queued", "again"} => k < i
           /\ i < k => steps[i].do \in {"check", "find", "half"}
           /\ k < i => steps[i].do \in After \cup {"conflict", "queued", "again"}
           /\ steps[i].do \notin {"answer", "reload"} => i < Len(steps)
           /\ "skip" \in steps[i].how \/ "anyway" \in steps[i].how => steps[i].do = "find"
           /\ "anyway" \in steps[i].how => steps[i].how = Anyway /\ i + 1 = k
           /\ steps[i].how \subseteq Refusals
<1>1. /\ Len(steps) \in Nat /\ DOMAIN steps = 1..Len(steps) /\ k \in DOMAIN steps /\ k < Len(steps)
      /\ steps[i] \in StepSet
  BY DEF Shape
<1>2. CASE i = k
  <2>1. steps[i].do \in Writing /\ steps[i].how \subseteq Either
    BY <1>2 DEF Shape
  <2>2. steps[i].how \subseteq Refusals
    BY <1>1 DEF StepSet
  <2>3. steps[i].do \notin After \cup {"conflict", "queued", "again", "check", "find", "half"}
    BY <2>1 DEF Writing, Cumulative, After
  <2>4. "skip" \notin Either /\ "anyway" \notin Either
    BY DEF Either, Raise, Return
  <2>5. i < Len(steps) /\ ~(k < i) /\ ~(i < k)
    BY <1>1, <1>2
  <2> QED
    BY <1>1, <1>2, <2>1, <2>2, <2>3, <2>4, <2>5
<1>3. CASE i < k
  <2>1. i \in 1..(k - 1)
    BY <1>1, <1>3
  <2>2. /\ steps[i].do \in {"check", "half"} => steps[i].how \subseteq Either
        /\ steps[i].do \in {"check", "half", "find"}
        /\ "anyway" \in steps[i].how => steps[i].how = Anyway /\ i + 1 = k
    BY <2>1 DEF Shape
  <2>3. steps[i].how \subseteq Refusals
    BY <1>1 DEF StepSet
  <2>4. steps[i].do \notin Writing /\ steps[i].do \notin After \cup {"conflict", "queued", "again"}
    BY <2>2 DEF Writing, Cumulative, After
  <2>5. "skip" \notin Either /\ "anyway" \notin Either
    BY DEF Either, Raise, Return
  <2>6. i < Len(steps) /\ ~(k < i) /\ i # k
    BY <1>1, <1>3
  <2> QED
    BY <1>1, <1>3, <2>2, <2>3, <2>4, <2>5, <2>6
<1>4. CASE k < i
  <2>1. i \in (k + 1)..Len(steps)
    BY <1>1, <1>4
  <2>2. \/ steps[i].do \in {"conflict", "queued", "again"} /\ steps[i].how \subseteq Either
        \/ steps[i].do \in After /\ steps[i].how = {}
    BY <2>1 DEF Shape, After
  <2>3. steps[i].do \notin {"answer", "reload"} => i # Len(steps)
    BY DEF Shape
  <2> QED
    BY <1>1, <1>4, <2>2, <2>3 DEF Writing, Cumulative, After, StepSet, Either, Raise, Return
<1> QED
  BY <1>1, <1>2, <1>3, <1>4

\* A step is past once the request is beyond it.
LEMMA PastNext ==
    ASSUME NEW steps, NEW at \in DOMAIN steps, DOMAIN steps \subseteq Nat, NEW what
    PROVE  Past(steps, at + 1, what) <=> Past(steps, at, what) \/ steps[at].do \in what
<1>1. ASSUME NEW i \in DOMAIN steps
      PROVE  i < at + 1 <=> i < at \/ i = at
  BY <1>1
<1> QED
  BY <1>1, Zenon DEF Past

\* What is past stays past.
LEMMA PastLater ==
    ASSUME NEW steps, NEW at \in Nat, NEW later \in Nat, at <= later, DOMAIN steps \subseteq Nat,
           NEW what, Past(steps, at, what)
    PROVE  Past(steps, later, what)
<1>1. PICK i \in DOMAIN steps : i < at /\ steps[i].do \in what
  BY DEF Past
<1>2. i < later
  BY <1>1
<1> QED
  BY <1>1, <1>2, Zenon DEF Past

\* Nothing that comes after the write has been passed before it.
LEMMA NothingAfter ==
    ASSUME NEW steps, NEW k, Shape(steps, k), NEW at \in Nat, at <= k + 1, NEW what, what \subseteq After
    PROVE  ~Past(steps, at, what)
<1> SUFFICES ASSUME NEW i \in DOMAIN steps, i < at, steps[i].do \in what
             PROVE  FALSE
  BY DEF Past
<1>1. k < i /\ k \in Nat /\ i \in Nat
  BY ShapeFacts
<1> QED
  BY <1>1

\* Constraints fail before anything is logged, committed or answered.
LEMMA ConflictFirst ==
    ASSUME NEW steps, NEW k, Shape(steps, k), NEW at \in DOMAIN steps, steps[at].do = "conflict",
           NEW what, what \subseteq After
    PROVE  ~Past(steps, at, what)
<1> SUFFICES ASSUME NEW i \in DOMAIN steps, i < at, steps[i].do \in what
             PROVE  FALSE
  BY DEF Past
<1>1. k < i /\ k \in Nat /\ i \in Nat /\ at \in Nat /\ at <= Len(steps) /\ Len(steps) \in Nat
  BY ShapeFacts
<1>2. i \in (k + 1)..at /\ at \in (k + 1)..Len(steps)
  BY <1>1
<1>3. steps[i].do = "conflict"
  BY <1>2 DEF Shape, After
<1> QED
  BY <1>3 DEF After

-----------------------------------------------------------------------------
(* What a request is known by survives each kind of move. *)

Moving(h, k, q, mine, rows) ==
    /\ Regular(h, k) /\ q \in Requests /\ mine \subseteq Kinds
    /\ Flows(h, k, q, mine, rows) /\ Heard(h, k, q, mine, rows) /\ Logged(h, k, q, mine, rows)
    /\ q.phase = "running"

\* What one step more has passed.
Advances(h, q, q2) ==
    LET passes(what) ==
          Past(h.does, q2.at, what) <=> Past(h.does, q.at, what) \/ h.does[q.at].do \in what IN
    /\ passes({"commit"}) /\ passes({"half"}) /\ passes({"answer"})
    /\ passes({"audit"}) /\ passes({"audit", "apart"})

\* Where the steps of a running request are.
LEMMA Places ==
    ASSUME NEW h, NEW k, NEW q, NEW mine, NEW rows, Moving(h, k, q, mine, rows), q.at \in DOMAIN h.does
    PROVE  /\ Len(h.does) \in Nat /\ DOMAIN h.does = 1..Len(h.does) /\ k \in 1..Len(h.does) /\ k < Len(h.does)
           /\ q.at \in Nat /\ q.at <= Len(h.does) /\ q.heard # "refused"
           /\ q.open \subseteq Kinds /\ \A q2 : q2.at = q.at + 1 => Advances(h, q, q2)
<1>1. Shape(h.does, k) /\ q \in Requests
  BY DEF Moving, Regular
<1>2. /\ Len(h.does) \in Nat /\ DOMAIN h.does = 1..Len(h.does) /\ k \in 1..Len(h.does) /\ k < Len(h.does)
      /\ q.at \in Nat /\ q.at <= Len(h.does)
  BY <1>1, ShapeFacts
<1>3. q.heard # "refused"
  BY <1>2 DEF Moving, Advances, Heard
<1>4. ASSUME NEW q2, q2.at = q.at + 1
      PROVE  Advances(h, q, q2)
  <2>1. DOMAIN h.does \subseteq Nat
    BY <1>2
  <2>2. \A what : Past(h.does, q.at + 1, what) <=> Past(h.does, q.at, what) \/ h.does[q.at].do \in what
    BY <2>1, PastNext, Zenon
  <2> QED
    BY <1>4, <2>2 DEF Advances
<1> QED
  BY <1>1, <1>2, <1>3, <1>4 DEF Requests

\* A step that leaves rows, session and client alone.
LEMMA PassKeeps ==
    ASSUME NEW h, NEW k, NEW q, NEW mine, NEW rows, Moving(h, k, q, mine, rows), q.at \in DOMAIN h.does,
           h.does[q.at].do \in {"check", "find", "conflict", "queued", "again", "dispatch", "wake", "hint", "reload"},
           NEW q2 \in Requests, q2.phase = "running", q2.at = q.at + 1, q2.open = q.open, q2.heard = q.heard
    PROVE  Knows(h, k, q2, mine, rows)
<1> DEFINE past(what) == Past(h.does, q.at, what)
<1>1. /\ Len(h.does) \in Nat /\ k \in Nat /\ q.at \in Nat /\ q.at <= Len(h.does) /\ q.heard # "refused"
      /\ k # q.at /\ k < Len(h.does)
  BY Places, ShapeFacts DEF Moving, Regular, Writing, Cumulative
<1>2. Advances(h, q, q2)
  BY Places
<1>3. Flows(h, k, q2, mine, rows)
  BY <1>1, <1>2 DEF Moving, Advances, Flows
<1>4. Heard(h, k, q2, mine, rows)
  BY <1>1, <1>2 DEF Moving, Advances, Heard
<1>5. Logged(h, k, q2, mine, rows)
  BY <1>1, <1>2 DEF Moving, Advances, Logged
<1> QED
  BY <1>3, <1>4, <1>5 DEF Knows

\* The write: the session holds the change.
LEMMA WriteKeeps ==
    ASSUME NEW h, NEW k, NEW q, NEW mine, NEW rows, Moving(h, k, q, mine, rows), q.at \in DOMAIN h.does,
           h.does[q.at].do \in Writing,
           NEW q2 \in Requests, q2.phase = "running", q2.at = q.at + 1, q2.open = q.open \cup {"change"},
           q2.heard = q.heard
    PROVE  Knows(h, k, q2, mine, rows)
<1>1. /\ Len(h.does) \in Nat /\ k \in Nat /\ q.at = k /\ k < Len(h.does) /\ q.heard # "refused"
  BY Places, ShapeFacts DEF Moving, Regular
<1>2. Advances(h, q, q2)
  BY Places
<1>3. \A what : what \in {{"commit"}, {"answer"}, {"audit"}, {"audit", "apart"}} => ~Past(h.does, q.at, what)
  BY <1>1, NothingAfter DEF Moving, Regular, After
<1>4. Flows(h, k, q2, mine, rows)
  BY <1>1, <1>2, <1>3 DEF Moving, Advances, Writing, Cumulative, Flows
<1>5. Heard(h, k, q2, mine, rows)
  BY <1>1, <1>2, <1>3 DEF Moving, Advances, Writing, Cumulative, Heard
<1>6. Logged(h, k, q2, mine, rows)
  BY <1>1, <1>2, <1>3 DEF Moving, Advances, Writing, Cumulative, Logged
<1> QED
  BY <1>4, <1>5, <1>6 DEF Knows

\* A half change is kept open.
LEMMA HalfKeeps ==
    ASSUME NEW h, NEW k, NEW q, NEW mine, NEW rows, Moving(h, k, q, mine, rows), q.at \in DOMAIN h.does,
           h.does[q.at].do = "half",
           NEW q2 \in Requests, q2.phase = "running", q2.at = q.at + 1, q2.open = q.open \cup {"half"},
           q2.heard = q.heard
    PROVE  Knows(h, k, q2, mine, rows)
<1>1. /\ Len(h.does) \in Nat /\ k \in Nat /\ q.at \in Nat /\ q.at < k /\ k < Len(h.does) /\ q.heard # "refused"
  BY Places, ShapeFacts DEF Moving, Regular
<1>2. Advances(h, q, q2)
  BY Places
<1>3. Flows(h, k, q2, mine, rows)
  BY <1>1, <1>2 DEF Moving, Advances, Flows
<1>4. Heard(h, k, q2, mine, rows)
  BY <1>1, <1>2 DEF Moving, Advances, Heard
<1>5. Logged(h, k, q2, mine, rows)
  BY <1>1, <1>2 DEF Moving, Advances, Logged
<1> QED
  BY <1>3, <1>4, <1>5 DEF Knows

\* A log entry is kept open.
LEMMA AuditKeeps ==
    ASSUME NEW h, NEW k, NEW q, NEW mine, NEW rows, Moving(h, k, q, mine, rows), q.at \in DOMAIN h.does,
           h.does[q.at].do = "audit",
           NEW q2 \in Requests, q2.phase = "running", q2.at = q.at + 1, q2.open = q.open \cup {"audit"},
           q2.heard = q.heard
    PROVE  Knows(h, k, q2, mine, rows)
<1>1. /\ Len(h.does) \in Nat /\ k \in Nat /\ q.at \in Nat /\ k < q.at /\ q.at < Len(h.does)
         /\ q.heard # "refused"
  BY Places, ShapeFacts DEF Moving, Regular, After
<1>2. Advances(h, q, q2)
  BY Places
<1>3. Flows(h, k, q2, mine, rows)
  BY <1>1, <1>2 DEF Moving, Advances, Flows
<1>4. Heard(h, k, q2, mine, rows)
  BY <1>1, <1>2 DEF Moving, Advances, Heard
<1>5. Logged(h, k, q2, mine, rows)
  BY <1>1, <1>2 DEF Moving, Advances, Flows, Logged
<1> QED
  BY <1>3, <1>4, <1>5 DEF Knows

\* An entry in a session of its own comes after the commit.
LEMMA ApartKeeps ==
    ASSUME NEW h, NEW k, NEW q, NEW mine, NEW rows, Moving(h, k, q, mine, rows), q.at \in DOMAIN h.does,
           h.does[q.at].do = "apart",
           NEW q2 \in Requests, q2.phase = "running", q2.at = q.at + 1, q2.open = q.open, q2.heard = q.heard
    PROVE  Knows(h, k, q2, mine \cup {"audit"}, rows)
<1>1. /\ Len(h.does) \in Nat /\ k \in Nat /\ q.at \in Nat /\ k < q.at /\ q.at < Len(h.does)
         /\ q.heard # "refused"
      /\ Past(h.does, q.at, {"commit"})
  <2>1. Past(h.does, q.at, {"commit"})
    BY DEF Moving, Regular, Shape
  <2> QED
    BY <2>1, Places, ShapeFacts DEF Moving, Regular, After
<1>2. Advances(h, q, q2)
  BY Places
<1>3. Flows(h, k, q2, mine \cup {"audit"}, rows)
  BY <1>1, <1>2 DEF Moving, Advances, Flows
<1>4. Heard(h, k, q2, mine \cup {"audit"}, rows)
  BY <1>1, <1>2 DEF Moving, Advances, Heard
<1>5. Logged(h, k, q2, mine \cup {"audit"}, rows)
  BY <1>1, <1>2 DEF Moving, Advances, Flows, Logged
<1> QED
  BY <1>3, <1>4, <1>5 DEF Knows

\* A commit makes what is open the request's own.
LEMMA CommitKeeps ==
    ASSUME NEW h, NEW k, NEW q, NEW mine, NEW rows, Moving(h, k, q, mine, rows), q.at \in DOMAIN h.does,
           h.does[q.at].do = "commit", NEW rows2, rows \subseteq rows2, "change" \in q.open => rows2 # {},
           NEW q2 \in Requests, q2.phase = "running", q2.at = q.at + 1, q2.open = {}, q2.heard = q.heard
    PROVE  Knows(h, k, q2, mine \cup q.open, rows2)
<1>1. /\ Len(h.does) \in Nat /\ k \in Nat /\ q.at \in Nat /\ k < q.at /\ q.at < Len(h.does)
         /\ q.heard # "refused"
      /\ rows # {} => rows2 # {}
  BY Places, ShapeFacts DEF Moving, Regular, After
<1>2. Advances(h, q, q2)
  BY Places
<1>3. Flows(h, k, q2, mine \cup q.open, rows2)
  BY <1>1, <1>2 DEF Moving, Advances, Flows
<1>4. Heard(h, k, q2, mine \cup q.open, rows2)
  BY <1>1, <1>2 DEF Moving, Advances, Heard
<1>5. h.of \notin Unlogged \cup LoggedApart => Past(h.does, q.at, {"audit"})
  BY DEF Moving, Regular, ByName
<1>6. Logged(h, k, q2, mine \cup q.open, rows2)
  BY <1>1, <1>2, <1>5 DEF Moving, Advances, Flows, Logged
<1> QED
  BY <1>3, <1>4, <1>6 DEF Knows

\* The answer: what it tells of is with the session or committed.
LEMMA AnswerKeeps ==
    ASSUME NEW h, NEW k, NEW q, NEW mine, NEW rows, Moving(h, k, q, mine, rows), q.at \in DOMAIN h.does,
           h.does[q.at].do = "answer",
           NEW q2 \in Requests, q2.phase = "running", q2.at = q.at + 1, q2.open = q.open,
           q2.heard \in {q.heard, "ok"}
    PROVE  Knows(h, k, q2, mine, rows)
<1>1. /\ Len(h.does) \in Nat /\ k \in Nat /\ q.at \in Nat /\ k < q.at /\ q.at <= Len(h.does)
         /\ q.heard # "refused"
  BY Places, ShapeFacts DEF Moving, Regular, After
<1>2. Advances(h, q, q2)
  BY Places
<1>3. Flows(h, k, q2, mine, rows)
  BY <1>1, <1>2 DEF Moving, Advances, Flows
<1>4. Some(h.does, {"commit"}) => Past(h.does, q.at, {"commit"})
  BY DEF Moving, Regular, Shape
<1>5. Heard(h, k, q2, mine, rows)
  BY <1>1, <1>2, <1>4 DEF Moving, Advances, Flows, Heard
<1>6. h.of \in LoggedApart \ Unlogged => Past(h.does, q.at, {"audit", "apart"})
  BY DEF Moving, Regular, ByName
<1>7. Logged(h, k, q2, mine, rows)
  BY <1>1, <1>2, <1>6 DEF Moving, Advances, Flows, Logged
<1> QED
  BY <1>3, <1>5, <1>7 DEF Knows

-----------------------------------------------------------------------------
(* Refusals. *)

\* What refuses comes before the commit, or tells that nothing was queued.
LEMMA RefusesFirst ==
    ASSUME NEW h, NEW k, NEW q, NEW mine, NEW rows, Moving(h, k, q, mine, rows), q.at \in DOMAIN h.does,
           h.does[q.at].how # {}
    PROVE  /\ "change" \in mine => h.of \in RefusedLate
           /\ "half" \notin mine
           /\ h.does[q.at].do \in {"queued", "again"} => h.of \in RefusedLate /\ "half" \notin q.open
           /\ h.does[q.at].do \notin {"queued", "again"} => /\ ~Past(h.does, q.at, {"commit"})
                                               /\ ~Past(h.does, q.at, {"answer"})
                                            /\ "change" \notin mine /\ q.heard # "ok"
           /\ h.does[q.at].do \in {"check", "find", "queued", "again"} => "change" \notin q.open
<1>1. /\ Len(h.does) \in Nat /\ k \in Nat /\ q.at \in Nat /\ q.at <= Len(h.does) /\ k < Len(h.does)
      /\ DOMAIN h.does = 1..Len(h.does)
  BY Places
<1>2. Shape(h.does, k)
  BY DEF Moving, Regular
<1>3. CASE h.does[q.at].do \in {"queued", "again"}
  <2>1. h.of \in RefusedLate /\ ~Some(h.does, {"half"})
    BY <1>3 DEF Moving, Regular, ByName, Some
  <2>2. ~Past(h.does, q.at, {"half"})
    BY <2>1 DEF Past, Some
  <2>3. Past(h.does, q.at, {"commit"})
    BY <1>2, <1>3 DEF Shape
  <2> QED
    BY <1>3, <2>1, <2>2, <2>3 DEF Moving, Flows
<1>4. CASE h.does[q.at].do \notin {"queued", "again"}
  <2>1. h.does[q.at].do = "conflict" \/ q.at <= k
    <3>1. ASSUME k < q.at
          PROVE  h.does[q.at].do = "conflict"
      <4>1. q.at \in (k + 1)..Len(h.does)
        BY <1>1, <3>1
      <4> QED
        BY <1>2, <1>4, <4>1 DEF Shape
    <3> QED
      BY <1>1, <3>1
  <2>2. {"commit"} \subseteq After /\ {"answer"} \subseteq After
    BY DEF After
  <2>3. ~Past(h.does, q.at, {"commit"}) /\ ~Past(h.does, q.at, {"answer"})
    <3>1. CASE h.does[q.at].do = "conflict"
      BY <1>2, <2>2, <3>1, ConflictFirst
    <3>2. CASE q.at <= k
      BY <1>1, <1>2, <2>2, <3>2, NothingAfter
    <3> QED
      BY <2>1, <3>1, <3>2
  <2>4. h.does[q.at].do \in {"check", "find"} => q.at < k
    BY <1>2, ShapeFacts
  <2> QED
    BY <1>1, <1>4, <2>3, <2>4 DEF Moving, Flows, Heard
<1> QED
  BY <1>3, <1>4

\* An exception before the write takes everything back.
LEMMA RaiseKeeps ==
    ASSUME NEW h, NEW k, NEW q, NEW mine, NEW rows, Moving(h, k, q, mine, rows), q.at \in DOMAIN h.does,
           h.does[q.at].how # {},
           NEW q2 \in Requests, q2.phase = "over", q2.open = {}, q2.heard \in {q.heard, "refused"},
           q2.heard = "ok" => q2.late = TRUE
    PROVE  Knows(h, k, q2, mine, rows)
<1>1. Flows(h, k, q2, mine, rows)
  BY DEF Moving, Flows
<1>2. Heard(h, k, q2, mine, rows)
  BY RefusesFirst DEF Moving, Heard
<1>3. Logged(h, k, q2, mine, rows)
  BY DEF Moving, Logged
<1> QED
  BY <1>1, <1>2, <1>3 DEF Knows

\* The response says no, and what the session has is committed after it.
LEMMA ReturnKeeps ==
    ASSUME NEW h, NEW k, NEW q, NEW mine, NEW rows, Moving(h, k, q, mine, rows), q.at \in DOMAIN h.does,
           "return" \in h.does[q.at].how,
           NEW q2 \in Requests, q2.phase = "running", q2.at = Len(h.does) + 1,
           (q2.open = q.open /\ h.does[q.at].do \in {"check", "find", "queued", "again"})
              \/ (q2.open = {} /\ h.does[q.at].do \notin {"queued", "again"}),
           q2.heard \in {q.heard, "refused"}
    PROVE  Knows(h, k, q2, mine, rows)
<1>1. /\ Len(h.does) \in Nat /\ k \in Nat /\ q.at \in Nat /\ q.at <= Len(h.does) /\ k < Len(h.does)
      /\ DOMAIN h.does = 1..Len(h.does) /\ q.heard # "refused"
  BY Places
<1>2. \A what : Past(h.does, q.at, what) => Past(h.does, q2.at, what)
  <2>1. q.at <= Len(h.does) + 1 /\ Len(h.does) + 1 \in Nat /\ DOMAIN h.does \subseteq Nat
    BY <1>1
  <2> QED
    BY <1>1, <2>1, PastLater
<1>3. /\ "change" \notin q2.open /\ "half" \notin mine /\ ("change" \in mine => h.of \in RefusedLate)
      /\ q.heard = "ok" => q2.open = q.open
  BY RefusesFirst
<1>4. "half" \in q2.open => h.of = "update_group"
  <2> SUFFICES ASSUME "half" \in q.open, q2.open = q.open
               PROVE  h.of = "update_group"
    BY DEF Moving
  <2>1. h.does[q.at].do \notin {"queued", "again"}
    BY RefusesFirst
  <2>2. q.at \in 1..(k - 1)
    BY <1>1, <2>1, ShapeFacts DEF Moving, Regular
  <2>3. PICK i \in DOMAIN h.does : i < q.at /\ h.does[i].do = "half"
    BY DEF Moving, Flows, Past
  <2>4. i \in 1..(k - 1)
    BY <1>1, <2>2, <2>3
  <2> QED
    BY <2>2, <2>3, <2>4 DEF Moving, Regular, ByName
<1>5. Flows(h, k, q2, mine, rows)
  BY <1>1, <1>2, <1>3 DEF Moving, Flows
<1>6. Heard(h, k, q2, mine, rows)
  BY <1>1, <1>2, <1>3, <1>4 DEF Moving, Heard
<1>7. Logged(h, k, q2, mine, rows)
  BY <1>1, <1>2, <1>3 DEF Moving, Logged
<1> QED
  BY <1>5, <1>6, <1>7 DEF Knows

\* Nothing is left to do, since the row was found.
LEMMA SkipKeeps ==
    ASSUME NEW h, NEW k, NEW q, NEW mine, NEW rows, Moving(h, k, q, mine, rows), q.at \in DOMAIN h.does,
           "skip" \in h.does[q.at].how, rows # {},
           NEW q2 \in Requests, q2.phase = "running", q2.at = Len(h.does), q2.open = q.open, q2.heard = q.heard
    PROVE  Knows(h, k, q2, mine, rows)
<1>1. /\ Len(h.does) \in Nat /\ k \in Nat /\ q.at \in Nat /\ q.at <= Len(h.does) /\ k < Len(h.does)
      /\ DOMAIN h.does = 1..Len(h.does) /\ q.heard # "refused" /\ h.does[q.at].do = "find"
  BY Places, ShapeFacts DEF Moving, Regular
<1>2. \A what : Past(h.does, q.at, what) => Past(h.does, q2.at, what)
  <2>1. DOMAIN h.does \subseteq Nat
    BY <1>1
  <2> QED
    BY <1>1, <2>1, PastLater
<1>3. "change" \notin q.open /\ "change" \notin mine /\ "half" \notin mine /\ q.heard # "ok"
  BY <1>1, RefusesFirst
<1>4. h.of \notin LoggedApart \ Unlogged
  BY DEF Moving, Regular, ByName
<1>5. Flows(h, k, q2, mine, rows)
  BY <1>1, <1>2, <1>3 DEF Moving, Flows
<1>6. Heard(h, k, q2, mine, rows)
  BY <1>1, <1>2, <1>3 DEF Moving, Heard
<1>7. Logged(h, k, q2, mine, rows)
  BY <1>1, <1>2, <1>3, <1>4 DEF Moving, Logged
<1> QED
  BY <1>5, <1>6, <1>7 DEF Knows

\* The row was found, and is not written again.
LEMMA AnywayKeeps ==
    ASSUME NEW h, NEW k, NEW q, NEW mine, NEW rows, Moving(h, k, q, mine, rows), q.at \in DOMAIN h.does,
           "anyway" \in h.does[q.at].how, rows # {},
           NEW q2 \in Requests, q2.phase = "running", q2.at = q.at + 2, q2.open = q.open, q2.heard = q.heard
    PROVE  Knows(h, k, q2, mine, rows)
<1>1. /\ Len(h.does) \in Nat /\ k \in Nat /\ q.at \in Nat /\ q.at <= Len(h.does) /\ k < Len(h.does)
      /\ DOMAIN h.does = 1..Len(h.does) /\ q.heard # "refused" /\ h.does[q.at].do = "find"
      /\ q.at + 1 = k /\ h.does[q.at].how = Anyway
  BY Places, ShapeFacts DEF Moving, Regular
<1>2. \A what : Past(h.does, q.at, what) => Past(h.does, q2.at, what)
  <2>1. q.at <= q.at + 2 /\ q.at + 2 \in Nat /\ DOMAIN h.does \subseteq Nat
    BY <1>1
  <2> QED
    BY <1>1, <2>1, PastLater
<1>3. \A what : what \in {{"commit"}, {"answer"}, {"audit"}, {"audit", "apart"}} => ~Past(h.does, q2.at, what)
  <2>1. Shape(h.does, k) /\ q2.at \in Nat /\ q2.at <= k + 1
    BY <1>1 DEF Moving, Regular
  <2>2. {"commit"} \subseteq After /\ {"answer"} \subseteq After /\ {"audit", "apart"} \subseteq After
        /\ {"audit"} \subseteq After
    BY DEF After
  <2> QED
    BY <2>1, <2>2, NothingAfter
<1>4. "change" \notin q.open /\ "change" \notin mine /\ "half" \notin mine /\ q.heard # "ok"
  BY <1>1, RefusesFirst
<1>5. GoesOnAnyway(h.does)
  BY <1>1 DEF GoesOnAnyway
<1>6. Flows(h, k, q2, mine, rows)
  BY <1>1, <1>2, <1>3, <1>4, <1>5 DEF Moving, Flows
<1>7. Heard(h, k, q2, mine, rows)
  BY <1>1, <1>2, <1>3, <1>4 DEF Moving, Heard
<1>8. Logged(h, k, q2, mine, rows)
  BY <1>1, <1>2, <1>3, <1>4 DEF Moving, Logged
<1> QED
  BY <1>6, <1>7, <1>8 DEF Knows

-----------------------------------------------------------------------------
(* The ends of a request. *)

\* An exception for another reason than a refusal, or a crash.
LEMMA FailKeeps ==
    ASSUME NEW h, NEW k, NEW q, NEW mine, NEW rows, Moving(h, k, q, mine, rows),
           NEW q2 \in Requests, q2.phase = "over", q2.open = {}, q2.heard \in {q.heard, "error"},
           q2.heard = "ok" => q2.late = TRUE
    PROVE  Knows(h, k, q2, mine, rows)
<1>1. Flows(h, k, q2, mine, rows)
  BY DEF Moving, Flows
<1>2. Heard(h, k, q2, mine, rows)
  BY DEF Moving, Heard
<1>3. Logged(h, k, q2, mine, rows)
  BY DEF Moving, Logged
<1> QED
  BY <1>1, <1>2, <1>3 DEF Knows

\* The last commit, or one whose confirmation is lost.
LEMMA EndKeeps ==
    ASSUME NEW h, NEW k, NEW q, NEW mine, NEW rows, Moving(h, k, q, mine, rows),
           q.at > Len(h.does) \/ (q.at \in DOMAIN h.does /\ h.does[q.at].do = "commit"),
           NEW rows2, rows \subseteq rows2, "change" \in q.open => rows2 # {},
           NEW q2 \in Requests, q2.phase = "over", q2.open = {},
           q2.heard = q.heard \/ (q2.heard = "error" /\ q.heard = "waiting"),
           q.at \in DOMAIN h.does /\ q2.heard = "ok" => q2.late = TRUE
    PROVE  Knows(h, k, q2, mine \cup q.open, rows2)
<1>1. rows # {} => rows2 # {}
  OBVIOUS
<1>2. h.of \notin Unlogged \cup LoggedApart => Past(h.does, q.at, {"audit"})
  <2> SUFFICES ASSUME h.of \notin Unlogged \cup LoggedApart
               PROVE  Past(h.does, q.at, {"audit"})
    OBVIOUS
  <2>1. CASE q.at > Len(h.does)
    <3>1. PICK i \in DOMAIN h.does : h.does[i].do \in {"audit"}
      BY DEF Moving, Regular, ByName, Some
    <3>2. i < q.at
      BY <2>1, <3>1, ShapeFacts DEF Moving, Regular, Requests
    <3> QED
      BY <3>1, <3>2 DEF Past
  <2>2. CASE q.at \in DOMAIN h.does /\ h.does[q.at].do = "commit"
    BY <2>2 DEF Moving, Regular, ByName
  <2> QED
    BY <2>1, <2>2
<1>3. Flows(h, k, q2, mine \cup q.open, rows2)
  BY <1>1 DEF Moving, Flows
<1>4. Heard(h, k, q2, mine \cup q.open, rows2)
  BY <1>1 DEF Moving, Heard
<1>5. Logged(h, k, q2, mine \cup q.open, rows2)
  BY <1>1, <1>2 DEF Moving, Flows, Logged
<1> QED
  BY <1>3, <1>4, <1>5 DEF Knows

\* The client gives up, or someone else commits.
LEMMA OutsideKeeps ==
    ASSUME NEW h, NEW k, NEW q, NEW mine, NEW rows, Knows(h, k, q, mine, rows),
           NEW rows2, rows \subseteq rows2,
           NEW q2, q2.phase = q.phase, q2.at = q.at, q2.open = q.open, q2.late = q.late,
           q2.heard \in {q.heard, "gone"}
    PROVE  Knows(h, k, q2, mine, rows2)
<1>1. rows # {} => rows2 # {}
  OBVIOUS
<1>2. Flows(h, k, q2, mine, rows2)
  BY <1>1 DEF Knows, Flows
<1>3. Heard(h, k, q2, mine, rows2)
  BY <1>1 DEF Knows, Heard
<1>4. Logged(h, k, q2, mine, rows2)
  BY <1>1 DEF Knows, Logged
<1> QED
  BY <1>2, <1>3, <1>4 DEF Knows

-----------------------------------------------------------------------------
(* The steps of a request. *)

\* What the invariant says of one request.
LEMMA KnownOf ==
    ASSUME NEW k, HandlerBody(k), NEW r \in Request
    PROVE  /\ req[r] \in Requests /\ Mine(r) \subseteq Kinds /\ Regular(script, k) /\ HandlerTypes
           /\ Knows(script, k, req[r], Mine(r), db.change) /\ Followed(script, req[r], db.change, follower[r])
           /\ Begins(req[r], Mine(r), follower[r])
           /\ Running(r) => Moving(script, k, req[r], Mine(r), db.change)
BY DEF HandlerBody, HandlerTypes, RequestInv, Sound, Mine, Moving, Knows, Running

\* A step of one request leaves the others as they are, and as far as it adds no
\* second change, the only one.
LEMMA StepKeeps ==
    ASSUME NEW k, HandlerBody(k), NEW r \in Request, Running(r), script' = script, together' = together,
           NEW q2 \in Requests, req' = [req EXCEPT ![r] = q2], q2.phase # "idle",
           db' \in [Kinds -> SUBSET Request],
           \A kind \in Kinds : db[kind] \subseteq db'[kind]
           /\ \A s \in Request \ {r} : s \in db'[kind] => s \in db[kind],
           follower' \in [Request -> {"none", "told", "new", "old"}],
           \A s \in Request \ {r} : follower'[s] = follower[s],
           NEW mine, mine = {kind \in Kinds : r \in db'[kind]}, q2.phase = "over" => q2.open = {},
           Knows(script, k, q2, mine, db'.change), Followed(script, q2, db'.change, follower'[r]),
           r \in db'.change \/ "change" \in q2.open =>
              \/ Has(r)
              \/ req[r].at = k /\ (Steps[k].do = "once" => db.change = {} /\ Unlocked(r)),
           q2.phase = "running" /\ q2.at <= k /\ Past(Steps, q2.at, {"find"}) =>
              db' = db /\ (db.change = {} \/ (req[r].at <= k /\ Past(Steps, req[r].at, {"find"})))
    PROVE  HandlerBody(k)'
<1>1. Regular(script, k)'
  BY DEF HandlerBody
<1>2. HandlerTypes'
  BY DEF HandlerBody, HandlerTypes
<1>3. ASSUME NEW s \in Request
      PROVE  RequestInv(k, s)'
  <2>1. CASE s = r
    <3>1. req'[r] = q2 /\ Mine(r)' = mine
      BY DEF HandlerBody, HandlerTypes, Mine
    <3>2. Begins(q2, mine, follower'[r])
      BY DEF Begins
    <3> QED
      BY <2>1, <3>1, <3>2 DEF RequestInv, Sound
  <2>2. CASE s # r
    <3>1. req'[s] = req[s] /\ follower'[s] = follower[s]
      BY <2>2 DEF HandlerBody, HandlerTypes
    <3>2. Mine(s)' = Mine(s) /\ db.change \subseteq db'.change
      BY <2>2 DEF Mine, Kinds
    <3>3. RequestInv(k, s)
      BY DEF HandlerBody
    <3>4. Knows(script, k, req[s], Mine(s), db'.change)
      BY <3>2, <3>3, OutsideKeeps DEF RequestInv, Sound
    <3>5. Followed(script, req[s], db'.change, follower[s])
      BY <3>2, <3>3 DEF RequestInv, Sound, Followed
    <3> QED
      BY <3>1, <3>2, <3>3, <3>4, <3>5 DEF RequestInv, Sound
  <2> QED
    BY <2>1, <2>2
<1>4. OneChange(k)'
  <2>1. /\ \A s \in Request : Running(s)' => Running(s)
        /\ \A s \in Request \ {r} : req'[s] = req[s] /\ (Has(s)' <=> Has(s))
        /\ req'[r] = q2 /\ (Has(r)' <=> r \in db'.change \/ "change" \in q2.open)
    BY DEF HandlerBody, HandlerTypes, Running, Has, Kinds
  <2>2. together' \/ \A q, s \in Request : Running(q)' /\ Running(s)' => q = s
    BY <2>1 DEF HandlerBody, OneChange
  <2>3. ASSUME script.of \notin Unguarded, Steps[k].do = "insert", ~together, NEW s \in Request, Running(s)',
               req'[s].at <= k, Past(Steps, req'[s].at, {"find"})
        PROVE  db'.change = {}
    <3>1. s = r
      BY <2>1, <2>3 DEF HandlerBody, OneChange
    <3>2. q2.phase = "running"
      BY <2>1, <2>3, <3>1 DEF Running
    <3> QED
      BY <2>1, <2>3, <3>1, <3>2 DEF HandlerBody, OneChange
  <2>4. ASSUME script.of \notin Unguarded, Steps[k].do = "once" \/ (Steps[k].do = "insert" /\ ~together),
               NEW q \in Request, NEW s \in Request, Has(q)', Has(s)'
        PROVE  q = s
    <3>1. \A x, y \in Request : Has(x) /\ Has(y) => x = y
      BY <2>4 DEF HandlerBody, OneChange
    <3>2. CASE Has(r)' => Has(r)
      BY <2>1, <2>4, <3>1, <3>2
    <3>3. CASE req[r].at = k /\ (Steps[k].do = "once" => db.change = {} /\ Unlocked(r))
      <4>1. db.change = {}
        <5>1. ASSUME Steps[k].do = "insert", ~together
              PROVE  Past(Steps, k, {"find"})
          BY <2>4, <5>1 DEF HandlerBody, Regular, ByName, Steps
        <5>2. k <= k
          BY ShapeFacts DEF HandlerBody, Regular, Shape
        <5> QED
          BY <2>4, <3>3, <5>1, <5>2 DEF HandlerBody, OneChange
      <4>2. ASSUME NEW x \in Request \ {r}
            PROVE  ~Has(x)
        <5>1. Running(x) => "change" \notin req[x].open
          BY <2>4, <3>3 DEF HandlerBody, OneChange, Unlocked
        <5>2. ~Running(x) => req[x].open = {}
          BY KnownOf DEF Begins, NotYet, Requests, Running
        <5> QED
          BY <4>1, <5>1, <5>2 DEF Has
      <4> QED
        BY <2>1, <2>4, <4>2
    <3> QED
      BY <2>1, <3>2, <3>3
  <2> QED
    BY <2>2, <2>3, <2>4 DEF OneChange, Steps
<1> QED
  BY <1>1, <1>2, <1>3, <1>4 DEF HandlerBody

\* Whom it told finds the change as long as it goes on and nothing is taken back.
LEMMA FollowedOn ==
    ASSUME NEW h, DOMAIN h.does \subseteq Nat, NEW q \in Requests, NEW q2 \in Requests,
           NEW rows, NEW rows2, rows \subseteq rows2, NEW told, Followed(h, q, rows, told),
           q2.phase = "running" => q.phase = "running" /\ q.at <= q2.at
    PROVE  Followed(h, q2, rows2, told)
<1>1. q.at \in Nat /\ q2.at \in Nat
  BY DEF Requests
<1>2. q2.phase = "running" /\ Past(h.does, q.at, {"commit"}) => Past(h.does, q2.at, {"commit"})
  BY <1>1, PastLater
<1> QED
  BY <1>2 DEF Followed

\* What the moves of a request make of it.
LEMMA RequestMoves ==
    ASSUME NEW r, req[r] \in Requests
    PROVE  /\ Onward(r) \in Requests /\ Onward(r).phase = req[r].phase /\ Onward(r).at = req[r].at + 1
           /\ Onward(r).open = req[r].open /\ Onward(r).heard = req[r].heard /\ Onward(r).late = req[r].late
           /\ \A kind \in Kinds :
                 /\ Holding(r, kind) \in Requests /\ Holding(r, kind).phase = req[r].phase
                 /\ Holding(r, kind).at = req[r].at + 1 /\ Holding(r, kind).open = req[r].open \cup {kind}
                 /\ Holding(r, kind).heard = req[r].heard
           /\ \A what \in {"waiting", "refused", "error"} :
                 /\ Raised(r, what) \in Requests /\ Raised(r, what).phase = "over" /\ Raised(r, what).open = {}
                 /\ Raised(r, what).heard = Told(r, what) /\ Told(r, what) \in {req[r].heard, what}
                 /\ Raised(r, what).heard = "ok" => Raised(r, what).late = TRUE
<1> PICK q : q = req[r]
  OBVIOUS
<1>1. q \in Requests /\ q.at \in Nat \ {0} /\ q.open \subseteq Kinds /\ q.late \in BOOLEAN
      /\ q.heard \in {"waiting", "ok", "refused", "error", "gone"}
  BY DEF Requests
<1>2. q = [phase |-> q.phase, at |-> q.at, open |-> q.open, heard |-> q.heard, queued |-> q.queued, late |-> q.late]
  BY <1>1 DEF Requests
<1>3. \A what \in {"waiting", "refused", "error"} : Told(r, what) \in {q.heard, what}
         /\ Told(r, what) \in {"waiting", "ok", "refused", "error", "gone"}
         /\ (Told(r, what) = "ok" => q.heard = "ok")
  BY <1>1 DEF Told
<1>4. q.at + 1 \in Nat \ {0}
  BY <1>1
<1>5. Onward(r) = [phase |-> q.phase, at |-> q.at + 1, open |-> q.open, heard |-> q.heard,
                   queued |-> q.queued, late |-> q.late]
  BY <1>2 DEF Onward
<1>6. \A kind : Holding(r, kind) = [phase |-> q.phase, at |-> q.at + 1, open |-> q.open \cup {kind},
                                    heard |-> q.heard, queued |-> q.queued, late |-> q.late]
  BY <1>5 DEF Holding
<1> DEFINE now(heard, late) == [phase |-> "over", at |-> q.at, open |-> {}, heard |-> heard,
                                queued |-> q.queued, late |-> late]
<1>7. ASSUME NEW what \in {"waiting", "refused", "error"}
      PROVE  \/ Raised(r, what) = now(Told(r, what), TRUE)
             \/ q.heard # "ok" /\ Raised(r, what) = now(Told(r, what), FALSE)
  <2>1. (q.late \/ q.heard = "ok") = TRUE \/ (q.late \/ q.heard = "ok") = FALSE
    OBVIOUS
  <2> PICK heard : heard = Told(r, what)
    OBVIOUS
  <2>2. CASE (q.late \/ q.heard = "ok") = TRUE
    <3>1. Raised(r, what) = [q EXCEPT !.phase = "over", !.open = {}, !.heard = heard, !.late = TRUE]
      BY <2>2, Zenon DEF Raised
    <3> QED
      BY <1>2, <3>1
  <2>3. CASE (q.late \/ q.heard = "ok") = FALSE
    <3>1. Raised(r, what) = [q EXCEPT !.phase = "over", !.open = {}, !.heard = heard, !.late = FALSE]
      BY <2>3, Zenon DEF Raised
    <3> QED
      BY <1>2, <2>3, <3>1
  <2> QED
    BY <2>1, <2>2, <2>3, Zenon
<1>8. \A what \in {"waiting", "refused", "error"} :
         /\ Raised(r, what).phase = "over" /\ Raised(r, what).open = {}
         /\ Raised(r, what).heard = Told(r, what) /\ (q.heard = "ok" => Raised(r, what).late = TRUE)
  BY <1>7
<1>9. Onward(r) \in Requests
  BY <1>1, <1>4, <1>5 DEF Requests
<1>10. ASSUME NEW kind \in Kinds
       PROVE  Holding(r, kind) \in Requests
  BY <1>1, <1>4, <1>6 DEF Requests
<1>11. ASSUME NEW what \in {"waiting", "refused", "error"}
       PROVE  Raised(r, what) \in Requests
  <2> PICK heard \in {"waiting", "ok", "refused", "error", "gone"} : heard = Told(r, what)
    BY <1>3
  <2>1. now(heard, TRUE) \in Requests
    BY <1>1 DEF Requests
  <2>2. now(heard, FALSE) \in Requests
    BY <1>1 DEF Requests
  <2> QED
    BY <1>7, <2>1, <2>2
<1> QED
  BY <1>3, <1>5, <1>6, <1>9, <1>10, <1>11, <1>8

\* A step that leaves the rows and those who were told alone.
LEMMA QuietKeeps ==
    ASSUME NEW k, HandlerBody(k), NEW r \in Request, Running(r), UNCHANGED <<script, together, db, follower>>,
           NEW q2 \in Requests, Goes(r, q2),
           q2.phase = "over" \/ (q2.phase = "running" /\ req[r].at <= q2.at),
           q2.phase = "over" => q2.open = {},
           Knows(script, k, q2, Mine(r), db.change),
           "change" \in q2.open =>
              \/ "change" \in req[r].open
              \/ req[r].at = k /\ (Steps[k].do = "once" => db.change = {} /\ Unlocked(r)),
           q2.phase = "running" /\ q2.at <= k /\ Past(Steps, q2.at, {"find"}) =>
              db.change = {} \/ (req[r].at <= k /\ Past(Steps, req[r].at, {"find"}))
    PROVE  HandlerBody(k)'
<1>1. DOMAIN script.does \subseteq Nat
  BY ShapeFacts DEF HandlerBody, Regular, Shape
<1>2. Followed(script, q2, db.change, follower[r])
  BY <1>1, KnownOf, FollowedOn DEF Running
<1>3. HandlerTypes
  BY DEF HandlerBody
<1> QED
  BY <1>2, <1>3, StepKeeps DEF Goes, HandlerTypes, Mine, Has

\* A request that does a step is at it.
LEMMA DoingFacts ==
    ASSUME NEW k, HandlerBody(k), NEW r \in Request, NEW what, Doing(r, what)
    PROVE  /\ Moving(script, k, req[r], Mine(r), db.change) /\ Running(r) /\ req[r] \in Requests
           /\ req[r].at \in DOMAIN script.does /\ script.does[req[r].at].do = what /\ req[r].phase = "running"
           /\ req[r].at \in Nat /\ req[r].at <= Len(script.does) /\ Len(script.does) \in Nat /\ k \in Nat
           /\ DOMAIN script.does = 1..Len(script.does) /\ Shape(script.does, k)
<1>1. Running(r)
  BY DEF Doing
<1>2. Moving(script, k, req[r], Mine(r), db.change) /\ req[r] \in Requests /\ Shape(script.does, k)
  BY <1>1, KnownOf DEF Regular
<1>3. Len(script.does) \in Nat /\ DOMAIN script.does = 1..Len(script.does) /\ k \in Nat
  BY <1>2 DEF Shape
<1>4. req[r].at \in Nat \ {0}
  BY <1>2 DEF Requests
<1> QED
  BY <1>1, <1>2, <1>3, <1>4 DEF Doing, Running, Steps

\* Steps that change nothing but the place.
LEMMA PassStep ==
    ASSUME NEW k, HandlerBody(k), NEW r \in Request,
           NEW what \in {"check", "find", "conflict", "queued", "again", "hint"},
           Doing(r, what), what = "find" => db.change = {}, Passes(r), UNCHANGED <<script, together>>
    PROVE  HandlerBody(k)'
<1>1. /\ Moving(script, k, req[r], Mine(r), db.change) /\ Running(r) /\ req[r] \in Requests
      /\ req[r].at \in DOMAIN script.does /\ script.does[req[r].at].do = what /\ req[r].phase = "running"
      /\ req[r].at \in Nat /\ k \in Nat /\ DOMAIN script.does \subseteq Nat
  BY DoingFacts
<1>2. PICK q2 : q2 = Onward(r)
  OBVIOUS
<1>3. /\ q2 \in Requests /\ q2.phase = "running" /\ q2.at = req[r].at + 1
      /\ q2.open = req[r].open /\ q2.heard = req[r].heard
  BY <1>1, <1>2, RequestMoves
<1>4. Knows(script, k, q2, Mine(r), db.change)
  BY <1>1, <1>3, PassKeeps
<1>5. Past(Steps, q2.at, {"find"}) /\ what # "find" => Past(Steps, req[r].at, {"find"})
  BY <1>1, <1>3, PastNext DEF Steps
<1>6. Goes(r, q2) /\ UNCHANGED <<db, follower>>
  BY <1>2 DEF Passes
<1> QED
  BY <1>1, <1>3, <1>4, <1>5, <1>6, QuietKeeps

\* A step that refuses, in each of its ways.
LEMMA RefuseStep ==
    ASSUME NEW k, HandlerBody(k), NEW r \in Request,
           NEW what \in {"check", "find", "once", "conflict", "queued", "again"},
           Doing(r, what), what = "find" => db.change # {},
           NEW open, open = (IF what \in {"once", "conflict"} THEN {} ELSE req[r].open),
           Refuses(r, open), UNCHANGED <<script, together>>
    PROVE  HandlerBody(k)'
<1>1. PICK how \in script.does[req[r].at].how : Goes(r, TurnedAway(r, how, open))
  BY DEF Refuses, Steps
<1>2. UNCHANGED <<db, follower>>
  BY DEF Refuses
<1>3. /\ Moving(script, k, req[r], Mine(r), db.change) /\ Running(r) /\ req[r] \in Requests
      /\ req[r].at \in DOMAIN script.does /\ script.does[req[r].at].do = what /\ req[r].phase = "running"
      /\ req[r].at \in Nat /\ req[r].at <= Len(script.does) /\ Len(script.does) \in Nat /\ k \in Nat
      /\ Shape(script.does, k) /\ k < Len(script.does) /\ script.does[req[r].at].how \subseteq Refusals
      /\ req[r].open \subseteq Kinds
  BY DoingFacts, ShapeFacts, Places DEF Requests
<1>4. Told(r, "refused") \in {req[r].heard, "refused"}
  BY <1>3, RequestMoves
<1>5. req[r].heard \in {"waiting", "ok", "refused", "error", "gone"}
  BY <1>3 DEF Requests
<1>6. PICK heard : heard = Told(r, "refused") /\ heard \in {"waiting", "ok", "refused", "error", "gone"}
  BY <1>4, <1>5
<1>7. /\ Len(script.does) + 1 \in Nat \ {0} /\ open \subseteq Kinds
      /\ "change" \in open => "change" \in req[r].open
  BY <1>3
<1>8. CASE how = "raise"
  <2>1. Goes(r, Raised(r, "refused"))
    BY <1>1, <1>8 DEF TurnedAway
  <2> PICK q2 : q2 = Raised(r, "refused")
    OBVIOUS
  <2>2. /\ q2 \in Requests /\ q2.phase = "over" /\ q2.open = {} /\ q2.heard \in {req[r].heard, "refused"}
        /\ q2.heard = "ok" => q2.late = TRUE
    BY <1>3, RequestMoves
  <2>3. Knows(script, k, q2, Mine(r), db.change)
    BY <1>1, <1>3, <2>2, RaiseKeeps
  <2> QED
    BY <1>2, <1>3, <2>1, <2>2, <2>3, QuietKeeps
<1>9. CASE how = "return"
  <2> PICK q2 : q2 = [req[r] EXCEPT !.at = Len(Steps) + 1, !.open = open, !.heard = Told(r, "refused")]
    OBVIOUS
  <2>1. Goes(r, q2)
    BY <1>1, <1>9 DEF TurnedAway
  <2>2. /\ q2 \in Requests /\ q2.phase = "running" /\ q2.at = Len(script.does) + 1 /\ q2.open = open
        /\ q2.heard = Told(r, "refused")
    <3>1. PICK q, at : q = req[r] /\ at = Len(script.does) + 1 /\ q \in Requests /\ at \in Nat \ {0}
      BY <1>3, <1>7
    <3>2. q2 = [q EXCEPT !.at = at, !.open = open, !.heard = heard]
      BY <1>6, <3>1 DEF Steps
    <3>3. q.phase = "running"
      BY <1>3, <3>1
    <3>4. open \in SUBSET Kinds
      BY <1>7, Zenon
    <3>5. q2 \in Requests /\ q2.phase = "running" /\ q2.at = at /\ q2.open = open /\ q2.heard = heard
      BY <1>6, <3>1, <3>2, <3>3, <3>4 DEF Requests
    <3> QED
      BY <1>6, <3>1, <3>5
  <2>3. Knows(script, k, q2, Mine(r), db.change)
    BY <1>1, <1>3, <1>6, <1>7, <1>4, <1>9, <2>2, ReturnKeeps
  <2>4. req[r].at <= q2.at /\ ~(q2.at <= k) /\ ("change" \in q2.open => "change" \in req[r].open)
    BY <1>3, <1>6, <1>7, <2>2
  <2> QED
    BY <1>2, <1>3, <2>1, <2>2, <2>3, <2>4, QuietKeeps
<1>10. what = "find" /\ how = "anyway" => req[r].at + 1 = k
  BY <1>1, <1>3, ShapeFacts
<1>11. how \in {"skip", "anyway"} => what = "find"
  BY <1>1, <1>3, ShapeFacts
<1>12. CASE how = "skip"
  <2> PICK q2 : q2 = [req[r] EXCEPT !.at = Len(Steps)]
    OBVIOUS
  <2>1. Goes(r, q2)
    BY <1>1, <1>12 DEF TurnedAway
  <2>2. /\ q2 \in Requests /\ q2.phase = "running" /\ q2.at = Len(script.does) /\ q2.open = req[r].open
        /\ q2.heard = req[r].heard
    BY <1>3 DEF Requests, Steps
  <2>3. Knows(script, k, q2, Mine(r), db.change)
    BY <1>1, <1>3, <1>11, <1>12, <2>2, SkipKeeps
  <2>4. req[r].at <= q2.at /\ ~(q2.at <= k) /\ ("change" \in q2.open => "change" \in req[r].open)
    BY <1>3, <2>2
  <2> QED
    BY <1>2, <1>3, <2>1, <2>2, <2>3, <2>4, QuietKeeps
<1>13. CASE how = "anyway"
  <2> PICK q2 : q2 = [req[r] EXCEPT !.at = @ + 2]
    OBVIOUS
  <2>1. Goes(r, q2)
    BY <1>1, <1>13 DEF TurnedAway
  <2>2. /\ q2 \in Requests /\ q2.phase = "running" /\ q2.at = req[r].at + 2 /\ q2.open = req[r].open
        /\ q2.heard = req[r].heard
    BY <1>3 DEF Requests
  <2>3. Knows(script, k, q2, Mine(r), db.change)
    BY <1>1, <1>3, <1>11, <1>13, <2>2, AnywayKeeps
  <2>4. req[r].at <= q2.at /\ ~(q2.at <= k) /\ ("change" \in q2.open => "change" \in req[r].open)
    BY <1>3, <1>10, <1>11, <1>13, <2>2
  <2> QED
    BY <1>2, <1>3, <2>1, <2>2, <2>3, <2>4, QuietKeeps
<1> QED
  BY <1>1, <1>3, <1>8, <1>9, <1>12, <1>13 DEF Refusals, Either, Raise, Return, Skip, Anyway

\* A step that fails takes the session back.
LEMMA FailStep ==
    ASSUME NEW k, HandlerBody(k), NEW r \in Request, Running(r), Fails(r), UNCHANGED <<script, together>>
    PROVE  HandlerBody(k)'
<1>1. Moving(script, k, req[r], Mine(r), db.change) /\ req[r] \in Requests
  BY KnownOf
<1>2. PICK q2 : q2 = Raised(r, "error")
  OBVIOUS
<1>3. /\ q2 \in Requests /\ q2.phase = "over" /\ q2.open = {} /\ q2.heard \in {req[r].heard, "error"}
      /\ q2.heard = "ok" => q2.late = TRUE
  BY <1>1, <1>2, RequestMoves
<1>4. Knows(script, k, q2, Mine(r), db.change)
  BY <1>1, <1>3, FailKeeps
<1>5. Goes(r, q2) /\ UNCHANGED <<db, follower>>
  BY <1>2 DEF Fails
<1> QED
  BY <1>3, <1>4, <1>5, QuietKeeps

\* The write, and what is added to the session before and after it.
LEMMA AddStep ==
    ASSUME NEW k, HandlerBody(k), NEW r \in Request, NEW what \in Writing \cup {"half", "audit"},
           Doing(r, what),
           NEW kind, kind = (IF what \in Writing THEN "change" ELSE what), Goes(r, Holding(r, kind)),
           what = "once" => db.change = {} /\ Unlocked(r),
           UNCHANGED <<script, together, db, follower>>
    PROVE  HandlerBody(k)'
<1>1. kind \in Kinds
  BY DEF Kinds, Writing, Cumulative
<1>2. /\ Moving(script, k, req[r], Mine(r), db.change) /\ Running(r) /\ req[r] \in Requests
      /\ req[r].at \in DOMAIN script.does /\ script.does[req[r].at].do = what /\ req[r].phase = "running"
      /\ req[r].at \in Nat /\ k \in Nat /\ Shape(script.does, k)
      /\ DOMAIN script.does = 1..Len(script.does) /\ Len(script.does) \in Nat
  BY DoingFacts
<1>3. req[r].phase = "running" /\ req[r] \in Requests
  BY <1>2
<1>4. /\ Holding(r, kind) \in Requests /\ Holding(r, kind).phase = "running"
      /\ Holding(r, kind).at = req[r].at + 1 /\ Holding(r, kind).open = req[r].open \cup {kind}
      /\ Holding(r, kind).heard = req[r].heard
  BY <1>1, <1>3, RequestMoves
<1>5. (what \in Writing <=> req[r].at = k) /\ (what = "audit" => k < req[r].at)
  BY <1>2, ShapeFacts DEF After
<1>6. what = "half" => (Past(Steps, req[r].at + 1, {"find"}) => Past(Steps, req[r].at, {"find"}))
      /\ req[r].at < k
  BY <1>2, PastNext, ShapeFacts DEF Steps
<1>7. CASE what \in Writing
  <2>1. Knows(script, k, Holding(r, kind), Mine(r), db.change)
    BY <1>2, <1>4, <1>7, WriteKeeps
  <2> QED
    BY <1>2, <1>4, <1>5, <1>7, <2>1, QuietKeeps DEF Steps
<1>8. CASE what = "half"
  <2>1. Knows(script, k, Holding(r, kind), Mine(r), db.change) /\ kind = "half"
    BY <1>2, <1>4, <1>8, HalfKeeps DEF Writing, Cumulative
  <2> QED
    BY <1>2, <1>4, <1>6, <1>8, <2>1, QuietKeeps
<1>9. CASE what = "audit"
  <2>1. Knows(script, k, Holding(r, kind), Mine(r), db.change) /\ kind = "audit"
    BY <1>2, <1>4, <1>9, AuditKeeps DEF Writing, Cumulative
  <2> QED
    BY <1>2, <1>4, <1>5, <1>9, <2>1, QuietKeeps
<1> QED
  BY <1>7, <1>8, <1>9

\* The answer is sent before the session is committed, or after.
LEMMA AnswerStep ==
    ASSUME NEW k, HandlerBody(k), NEW r \in Request, DoAnswer(r), UNCHANGED <<script, together>>
    PROVE  HandlerBody(k)'
<1>1. /\ Moving(script, k, req[r], Mine(r), db.change) /\ Running(r) /\ req[r] \in Requests
      /\ req[r].at \in DOMAIN script.does /\ script.does[req[r].at].do = "answer" /\ req[r].phase = "running"
      /\ req[r].at \in Nat /\ k \in Nat /\ Shape(script.does, k)
  BY DoingFacts DEF DoAnswer
<1>2. PICK heard \in {"waiting", "ok", "refused", "error", "gone"} :
          heard = Told(r, "ok") /\ heard \in {req[r].heard, "ok"}
  BY <1>1 DEF Told, Requests
<1>3. PICK q2 : q2 = [Onward(r) EXCEPT !.heard = heard]
  OBVIOUS
<1>4. Goes(r, q2) /\ UNCHANGED <<db, follower>>
  BY <1>2, <1>3 DEF DoAnswer
<1>5. PICK q1 : q1 = Onward(r)
  OBVIOUS
<1>6. q1 \in Requests /\ q1.phase = "running" /\ q1.at = req[r].at + 1 /\ q1.open = req[r].open
  BY <1>1, <1>5, RequestMoves
<1>7. q2 \in Requests /\ q2.phase = "running" /\ q2.at = req[r].at + 1 /\ q2.open = req[r].open
      /\ q2.heard = heard
  BY <1>2, <1>3, <1>5, <1>6 DEF Requests
<1>8. Knows(script, k, q2, Mine(r), db.change)
  BY <1>1, <1>2, <1>7, AnswerKeeps
<1>9. k < req[r].at
  BY <1>1, ShapeFacts DEF After
<1> QED
  BY <1>1, <1>4, <1>7, <1>8, <1>9, QuietKeeps

\* The tasks could not be published: the handler goes on.
LEMMA UnpublishedStep ==
    ASSUME NEW k, HandlerBody(k), NEW r \in Request, Doing(r, "dispatch"),
           Goes(r, [Onward(r) EXCEPT !.queued = FALSE]), UNCHANGED <<script, together, db, follower>>
    PROVE  HandlerBody(k)'
<1>1. /\ Moving(script, k, req[r], Mine(r), db.change) /\ Running(r) /\ req[r] \in Requests
      /\ req[r].at \in DOMAIN script.does /\ script.does[req[r].at].do = "dispatch" /\ req[r].phase = "running"
      /\ req[r].at \in Nat /\ k \in Nat /\ Shape(script.does, k)
  BY DoingFacts
<1>2. PICK q1 : q1 = Onward(r)
  OBVIOUS
<1>3. /\ q1 \in Requests /\ q1.phase = "running" /\ q1.at = req[r].at + 1 /\ q1.open = req[r].open
      /\ q1.heard = req[r].heard
  BY <1>1, <1>2, RequestMoves
<1>4. PICK q2 : q2 = [q1 EXCEPT !.queued = FALSE]
  OBVIOUS
<1>5. /\ q2 \in Requests /\ q2.phase = "running" /\ q2.at = req[r].at + 1 /\ q2.open = req[r].open
      /\ q2.heard = req[r].heard
  BY <1>3, <1>4 DEF Requests
<1>6. Knows(script, k, q2, Mine(r), db.change)
  BY <1>1, <1>5, PassKeeps
<1>7. k < req[r].at
  BY <1>1, ShapeFacts DEF After
<1>8. Goes(r, q2)
  BY <1>2, <1>4
<1> QED
  BY <1>1, <1>5, <1>6, <1>7, <1>8, QuietKeeps

\* Others are told, or look at once.
LEMMA TellStep ==
    ASSUME NEW k, HandlerBody(k), NEW r \in Request, NEW what \in {"dispatch", "wake", "hint", "reload"},
           Doing(r, what), Goes(r, Onward(r)), UNCHANGED <<script, together, db>>,
           NEW told \in {"told", "new", "old"}, follower' = [follower EXCEPT ![r] = told],
           told = "old" => ~Visible(r)
    PROVE  HandlerBody(k)'
<1>1. /\ Moving(script, k, req[r], Mine(r), db.change) /\ Running(r) /\ req[r] \in Requests
      /\ req[r].at \in DOMAIN script.does /\ script.does[req[r].at].do = what /\ req[r].phase = "running"
      /\ req[r].at \in Nat /\ req[r].at <= Len(script.does) /\ k \in Nat /\ Shape(script.does, k)
      /\ DOMAIN script.does \subseteq Nat
  BY DoingFacts
<1>2. PICK q2 : q2 = Onward(r)
  OBVIOUS
<1>3. /\ q2 \in Requests /\ q2.phase = "running" /\ q2.at = req[r].at + 1
      /\ q2.open = req[r].open /\ q2.heard = req[r].heard
  BY <1>1, <1>2, RequestMoves
<1>4. Knows(script, k, q2, Mine(r), db.change)
  BY <1>1, <1>3, PassKeeps
<1>5. k < req[r].at
  BY <1>1, ShapeFacts DEF After
<1>6. ASSUME script.of \notin EarlyWakers
      PROVE  /\ db.change # {} /\ Past(script.does, q2.at, {"commit"})
             /\ "change" \notin req[r].open
  <2>1. Past(script.does, req[r].at, {"commit"})
    BY <1>1, <1>6 DEF Moving, Regular, ByName
  <2>2. q2.at \in Nat /\ req[r].at <= q2.at
    BY <1>1, <1>3
  <2>3. Past(script.does, q2.at, {"commit"})
    BY <1>1, <2>1, <2>2, PastLater
  <2> QED
    BY <1>1, <2>1, <2>3 DEF Moving, Flows
<1>7. Followed(script, q2, db.change, told)
  BY <1>6 DEF Followed, Visible
<1>8. HandlerTypes
  BY DEF HandlerBody
<1>9. Goes(r, q2)
  BY <1>2
<1>10. /\ follower' \in [Request -> {"none", "told", "new", "old"}] /\ follower'[r] = told
       /\ db \in [Kinds -> SUBSET Request]
       /\ \A s \in Request \ {r} : follower'[s] = follower[s]
  BY <1>8 DEF HandlerTypes
<1>11. /\ "change" \in q2.open => Has(r)
       /\ r \in db'.change \/ "change" \in q2.open => Has(r)
       /\ ~(q2.at <= k)
  BY <1>1, <1>3, <1>5 DEF Has
<1>12. /\ \A kind \in Kinds : db[kind] \subseteq db'[kind]
          /\ \A s \in Request \ {r} : s \in db'[kind] => s \in db[kind]
       /\ db' \in [Kinds -> SUBSET Request]
  BY <1>10
<1>13. Mine(r) = {kind \in Kinds : r \in db'[kind]}
  BY DEF Mine
<1>14. Knows(script, k, q2, Mine(r), db'.change) /\ Followed(script, q2, db'.change, follower'[r])
  BY <1>4, <1>7, <1>10
<1> QED
  BY <1>1, <1>3, <1>9, <1>10, <1>11, <1>12, <1>13, <1>14, StepKeeps DEF Goes

\* What a commit leaves in the database.
LEMMA StoredFacts ==
    ASSUME NEW k, HandlerBody(k), NEW r \in Request, db' = Stored(r)
    PROVE  /\ db' \in [Kinds -> SUBSET Request]
           /\ \A kind \in Kinds : db[kind] \subseteq db'[kind]
              /\ \A s \in Request \ {r} : s \in db'[kind] => s \in db[kind]
           /\ {kind \in Kinds : r \in db'[kind]} = Mine(r) \cup req[r].open
           /\ db.change \subseteq db'.change /\ ("change" \in req[r].open => db'.change # {})
           /\ r \in db'.change => Has(r)
<1>1. /\ db \in [Kinds -> SUBSET Request] /\ req[r] \in Requests
  BY DEF HandlerBody, HandlerTypes
<1>2. db' = [kind \in Kinds |-> IF kind \in req[r].open THEN db[kind] \cup {r} ELSE db[kind]]
  BY <1>1 DEF Stored
<1>3. req[r].open \subseteq Kinds
  BY <1>1 DEF Requests
<1>4. db' \in [Kinds -> SUBSET Request]
  BY <1>1, <1>2
<1>5. \A kind \in Kinds : db[kind] \subseteq db'[kind]
      /\ \A s \in Request \ {r} : s \in db'[kind] => s \in db[kind]
  BY <1>1, <1>2
<1>6. {kind \in Kinds : r \in db'[kind]} = Mine(r) \cup req[r].open
  BY <1>1, <1>2, <1>3 DEF Mine
<1>7. db'.change = IF "change" \in req[r].open THEN db.change \cup {r} ELSE db.change
  BY <1>2 DEF Kinds
<1>8. db.change \subseteq db'.change /\ ("change" \in req[r].open => db'.change # {})
      /\ (r \in db'.change => Has(r))
  BY <1>7 DEF Has
<1> QED
  BY <1>4, <1>5, <1>6, <1>8

\* What is in the session is committed: at a commit of the handler or at the end.
LEMMA CommitStep ==
    ASSUME NEW k, HandlerBody(k), NEW r \in Request, Running(r), db' = Stored(r),
           UNCHANGED <<script, together, follower>>,
           NEW q2 \in Requests, Goes(r, q2), q2.phase = "over" \/ (q2.phase = "running" /\ req[r].at <= q2.at),
           q2.open = {}, q2.phase = "running" => k < q2.at,
           NEW rows2, rows2 = db'.change, Knows(script, k, q2, Mine(r) \cup req[r].open, rows2)
    PROVE  HandlerBody(k)'
<1>1. /\ req[r] \in Requests /\ DOMAIN script.does \subseteq Nat
      /\ Followed(script, req[r], db.change, follower[r]) /\ k \in Nat /\ HandlerTypes
  BY KnownOf, ShapeFacts DEF HandlerBody, Regular, Shape
<1>2. /\ db' \in [Kinds -> SUBSET Request]
      /\ \A kind \in Kinds : db[kind] \subseteq db'[kind]
         /\ \A s \in Request \ {r} : s \in db'[kind] => s \in db[kind]
      /\ {kind \in Kinds : r \in db'[kind]} = Mine(r) \cup req[r].open
      /\ db.change \subseteq db'.change /\ (r \in db'.change => Has(r))
  BY StoredFacts
<1>3. Followed(script, q2, db'.change, follower[r])
  BY <1>1, <1>2, FollowedOn DEF Running
<1>4. /\ follower' \in [Request -> {"none", "told", "new", "old"}] /\ follower'[r] = follower[r]
      /\ \A s \in Request \ {r} : follower'[s] = follower[s]
  BY <1>1 DEF HandlerTypes
<1>5. /\ r \in db'.change \/ "change" \in q2.open => Has(r)
      /\ q2.phase # "idle"
  BY <1>2
<1>6. ~(q2.phase = "running" /\ q2.at <= k)
  BY <1>1 DEF Requests
<1>7. Knows(script, k, q2, Mine(r) \cup req[r].open, db'.change)
      /\ Followed(script, q2, db'.change, follower'[r])
  BY <1>3, <1>4
<1> QED
  BY <1>2, <1>4, <1>5, <1>6, <1>7, StepKeeps DEF Goes

\* The commit is done and the request hears of an error.
LEMMA UnconfirmedStep ==
    ASSUME NEW k, HandlerBody(k), NEW r \in Request, Doing(r, "commit") \/ Returned(r), Unconfirmed(r),
           UNCHANGED <<script, together>>
    PROVE  HandlerBody(k)'
<1>1. Running(r)
  BY DEF Doing, Returned
<1>2. Moving(script, k, req[r], Mine(r), db.change) /\ req[r] \in Requests
  BY <1>1, KnownOf
<1>3. req[r].at > Len(script.does) \/ (req[r].at \in DOMAIN script.does /\ script.does[req[r].at].do = "commit")
  BY DoingFacts DEF Returned, Steps
<1>4. PICK q2 : q2 = Raised(r, "error")
  OBVIOUS
<1>5. /\ q2 \in Requests /\ q2.phase = "over" /\ q2.open = {} /\ q2.heard = Told(r, "error")
      /\ q2.heard = "ok" => q2.late = TRUE
  BY <1>2, <1>4, RequestMoves
<1>6. q2.heard = req[r].heard \/ (q2.heard = "error" /\ req[r].heard = "waiting")
  BY <1>5 DEF Told
<1>7. PICK rows2 : rows2 = db'.change
  OBVIOUS
<1>8. db.change \subseteq rows2 /\ ("change" \in req[r].open => rows2 # {})
  BY <1>7, StoredFacts DEF Unconfirmed
<1>9. Knows(script, k, q2, Mine(r) \cup req[r].open, rows2)
  BY <1>2, <1>3, <1>5, <1>6, <1>8, EndKeeps
<1>10. Goes(r, q2) /\ db' = Stored(r) /\ UNCHANGED follower
  BY <1>4 DEF Unconfirmed
<1> QED
  BY <1>1, <1>5, <1>7, <1>9, <1>10, CommitStep

\* The end of a request: its session is committed, or fails.
LEMMA EndStep ==
    ASSUME NEW k, HandlerBody(k), NEW r \in Request, Close(r), UNCHANGED <<script, together>>
    PROVE  HandlerBody(k)'
<1>1. Running(r) /\ Returned(r)
  BY DEF Close, Returned
<1>2. Moving(script, k, req[r], Mine(r), db.change) /\ req[r] \in Requests /\ req[r].at > Len(script.does)
  BY <1>1, KnownOf DEF Returned, Steps
<1>3. CASE db' = Stored(r) /\ Goes(r, [req[r] EXCEPT !.phase = "over", !.open = {}])
      /\ UNCHANGED <<follower, faults>>
  <2>1. PICK q2 : q2 = [req[r] EXCEPT !.phase = "over", !.open = {}]
    OBVIOUS
  <2>2. q2 \in Requests /\ q2.phase = "over" /\ q2.open = {} /\ q2.heard = req[r].heard
    BY <1>2, <2>1 DEF Requests
  <2>3. PICK rows2 : rows2 = db'.change
    OBVIOUS
  <2>4. db.change \subseteq rows2 /\ ("change" \in req[r].open => rows2 # {})
    BY <1>3, <2>3, StoredFacts
  <2>5. ~(req[r].at \in DOMAIN script.does)
    BY <1>2 DEF Moving, Regular, Shape
  <2>6. Knows(script, k, q2, Mine(r) \cup req[r].open, rows2)
    BY <1>2, <2>2, <2>4, <2>5, EndKeeps
  <2>7. Goes(r, q2)
    BY <1>3, <2>1
  <2> QED
    BY <1>1, <1>3, <2>2, <2>3, <2>6, <2>7, CommitStep
<1>4. CASE Fails(r)
  BY <1>1, <1>4, FailStep
<1>5. CASE Unconfirmed(r)
  BY <1>1, <1>5, UnconfirmedStep
<1> QED
  BY <1>3, <1>4, <1>5 DEF Close

\* A commit in the handler, with each of its outcomes.
LEMMA CommitsStep ==
    ASSUME NEW k, HandlerBody(k), NEW r \in Request, DoCommit(r), UNCHANGED <<script, together>>
    PROVE  HandlerBody(k)'
<1>1. /\ Moving(script, k, req[r], Mine(r), db.change) /\ Running(r) /\ req[r] \in Requests
      /\ req[r].at \in DOMAIN script.does /\ script.does[req[r].at].do = "commit" /\ req[r].phase = "running"
      /\ req[r].at \in Nat /\ k \in Nat /\ Shape(script.does, k)
  BY DoingFacts DEF DoCommit
<1>2. CASE db' = Stored(r) /\ Goes(r, [Onward(r) EXCEPT !.open = {}]) /\ UNCHANGED <<follower, faults>>
  <2>1. PICK q1 : q1 = Onward(r)
    OBVIOUS
  <2>2. q1 \in Requests /\ q1.phase = "running" /\ q1.at = req[r].at + 1 /\ q1.heard = req[r].heard
    BY <1>1, <2>1, RequestMoves
  <2>3. PICK q2 : q2 = [q1 EXCEPT !.open = {}]
    OBVIOUS
  <2>4. q2 \in Requests /\ q2.phase = "running" /\ q2.at = req[r].at + 1 /\ q2.open = {}
        /\ q2.heard = req[r].heard
    BY <2>2, <2>3 DEF Requests
  <2>5. PICK rows2 : rows2 = db'.change
    OBVIOUS
  <2>6. db.change \subseteq rows2 /\ ("change" \in req[r].open => rows2 # {})
    BY <1>2, <2>5, StoredFacts
  <2>7. Knows(script, k, q2, Mine(r) \cup req[r].open, rows2)
    BY <1>1, <2>4, <2>6, CommitKeeps
  <2>8. k < req[r].at
    BY <1>1, ShapeFacts DEF After
  <2>9. Goes(r, q2)
    BY <1>2, <2>1, <2>3
  <2>10. req[r].at <= q2.at /\ k < q2.at
    BY <1>1, <2>4, <2>8
  <2> QED
    BY <1>1, <1>2, <2>4, <2>5, <2>7, <2>9, <2>10, CommitStep
<1>3. CASE Fails(r)
  BY <1>1, <1>3, FailStep
<1>4. CASE Unconfirmed(r)
  BY <1>4, UnconfirmedStep DEF DoCommit
<1> QED
  BY <1>2, <1>3, <1>4 DEF DoCommit

\* The log entry in a session of its own.
LEMMA ApartStep ==
    ASSUME NEW k, HandlerBody(k), NEW r \in Request, DoAuditApart(r), UNCHANGED <<script, together>>
    PROVE  HandlerBody(k)'
<1>1. /\ Moving(script, k, req[r], Mine(r), db.change) /\ Running(r) /\ req[r] \in Requests
      /\ req[r].at \in DOMAIN script.does /\ script.does[req[r].at].do = "apart" /\ req[r].phase = "running"
      /\ req[r].at \in Nat /\ k \in Nat /\ Shape(script.does, k) /\ DOMAIN script.does \subseteq Nat
  BY DoingFacts DEF DoAuditApart
<1>2. CASE db' = [db EXCEPT !.audit = @ \cup {r}] /\ Goes(r, Onward(r)) /\ UNCHANGED <<follower, faults>>
  <2>1. PICK q2 : q2 = Onward(r)
    OBVIOUS
  <2>2. /\ q2 \in Requests /\ q2.phase = "running" /\ q2.at = req[r].at + 1 /\ q2.open = req[r].open
        /\ q2.heard = req[r].heard
    BY <1>1, <2>1, RequestMoves
  <2>3. Knows(script, k, q2, Mine(r) \cup {"audit"}, db.change)
    BY <1>1, <2>2, ApartKeeps
  <2>4. HandlerTypes /\ db \in [Kinds -> SUBSET Request] /\ Followed(script, req[r], db.change, follower[r])
    BY KnownOf DEF HandlerTypes
  <2>5. db' \in [Kinds -> SUBSET Request] /\ db'.change = db.change
    BY <1>2, <2>4 DEF Kinds
  <2>6. \A kind \in Kinds : db[kind] \subseteq db'[kind]
        /\ \A s \in Request \ {r} : s \in db'[kind] => s \in db[kind]
    BY <1>2, <2>4
  <2>7. Mine(r) \cup {"audit"} = {kind \in Kinds : r \in db'[kind]}
    BY <1>2, <2>4 DEF Mine, Kinds
  <2>8. /\ follower' \in [Request -> {"none", "told", "new", "old"}] /\ follower'[r] = follower[r]
        /\ \A s \in Request \ {r} : follower'[s] = follower[s]
    BY <1>2, <2>4 DEF HandlerTypes
  <2>9. q2.phase = "running" => req[r].phase = "running" /\ req[r].at <= q2.at
    BY <1>1, <2>2
  <2>10. Followed(script, q2, db.change, follower[r])
    BY <1>1, <2>2, <2>4, <2>9, FollowedOn
  <2>11. r \in db'.change \/ "change" \in q2.open => Has(r)
    BY <2>2, <2>5 DEF Has
  <2>12. k < req[r].at
    BY <1>1, ShapeFacts DEF After
  <2>13. ~(q2.at <= k) /\ q2.phase # "idle" /\ q2.phase # "over"
    BY <1>1, <2>2, <2>12
  <2>14. Knows(script, k, q2, Mine(r) \cup {"audit"}, db'.change)
         /\ Followed(script, q2, db'.change, follower'[r])
    BY <2>3, <2>5, <2>8, <2>10
  <2>15. req' = [req EXCEPT ![r] = q2]
    BY <1>2, <2>1 DEF Goes
  <2> QED
    BY <1>1, <2>2, <2>5, <2>6, <2>7, <2>8, <2>11, <2>13, <2>14, <2>15, StepKeeps
<1>3. CASE Fails(r)
  BY <1>1, <1>3, FailStep
<1> QED
  BY <1>2, <1>3 DEF DoAuditApart

\* Each step of a script keeps the invariant.
LEMMA DoesStep ==
    ASSUME NEW k, HandlerBody(k), NEW r \in Request, Does(r)
    PROVE  HandlerBody(k)'
<1>1. UNCHANGED <<script, together>>
  BY DEF Does
<1>2. CASE DoCheck(r)
  BY <1>1, <1>2, PassStep, RefuseStep DEF DoCheck
<1>3. CASE DoFind(r)
  BY <1>1, <1>3, PassStep, RefuseStep DEF DoFind
<1>4. CASE DoInsert(r)
  BY <1>1, <1>4, AddStep DEF DoInsert, Writing, Cumulative
<1>5. CASE DoInsertOnce(r)
  <2>1. CASE db.change # {}
    BY <1>1, <1>5, <2>1, RefuseStep DEF DoInsertOnce
  <2>2. CASE db.change = {}
    BY <1>1, <1>5, <2>2, AddStep DEF DoInsertOnce, Writing, Cumulative
  <2> QED
    BY <2>1, <2>2
<1>6. CASE DoConflict(r)
  BY <1>1, <1>6, PassStep, RefuseStep DEF DoConflict
<1>7. CASE DoWrite(r)
  BY <1>1, <1>7, AddStep DEF DoWrite, Writing, Cumulative
<1>8. CASE DoHalf(r)
  BY <1>1, <1>8, AddStep DEF DoHalf, Writing, Cumulative
<1>9. CASE DoAudit(r)
  BY <1>1, <1>9, AddStep DEF DoAudit, Writing, Cumulative
<1>10. CASE DoAuditApart(r)
  BY <1>1, <1>10, ApartStep
<1>11. CASE DoCommit(r)
  BY <1>1, <1>11, CommitsStep
<1>12. CASE DoDispatch(r)
  <2>1. CASE Tells(r)
    BY <1>1, <1>12, <2>1, TellStep DEF DoDispatch, Tells
  <2>2. CASE Doomed /\ Goes(r, [Onward(r) EXCEPT !.queued = FALSE]) /\ UNCHANGED <<db, follower>>
    BY <1>1, <1>12, <2>2, UnpublishedStep DEF DoDispatch
  <2> QED
    BY <1>12, <2>1, <2>2 DEF DoDispatch
<1>13. CASE DoNeedQueued(r)
  BY <1>1, <1>13, PassStep, RefuseStep DEF DoNeedQueued
<1>14. CASE DoWake(r)
  <2>1. CASE Tells(r)
    BY <1>1, <1>14, <2>1, TellStep DEF DoWake, Tells
  <2>2. CASE Fails(r)
    BY <1>1, <1>14, <2>2, FailStep DEF DoWake, Doing
  <2> QED
    BY <1>14, <2>1, <2>2 DEF DoWake
<1>15. CASE DoHint(r)
  <2>1. CASE Tells(r)
    BY <1>1, <1>15, <2>1, TellStep DEF DoHint, Tells
  <2>2. CASE Passes(r)
    BY <1>1, <1>15, <2>2, PassStep DEF DoHint
  <2> QED
    BY <1>15, <2>1, <2>2 DEF DoHint
<1>16. CASE DoReload(r)
  <2>1. CASE follower' = Found(r) /\ Goes(r, Onward(r)) /\ UNCHANGED <<db, faults>>
    <3>1. PICK told \in {"told", "new", "old"} : told = IF Visible(r) THEN "new" ELSE "old"
      OBVIOUS
    <3>2. follower' = [follower EXCEPT ![r] = told] /\ (told = "old" => ~Visible(r))
      BY <2>1, <3>1 DEF Found
    <3> QED
      BY <1>1, <1>16, <2>1, <3>2, TellStep DEF DoReload
  <2>2. CASE Fails(r)
    BY <1>1, <1>16, <2>2, FailStep DEF DoReload, Doing
  <2> QED
    BY <1>16, <2>1, <2>2 DEF DoReload
<1>17. CASE DoAnswer(r)
  BY <1>1, <1>17, AnswerStep
<1>18. CASE Close(r)
  BY <1>1, <1>18, EndStep
<1> QED
  BY <1>2, <1>3, <1>4, <1>5, <1>6, <1>7, <1>8, <1>9, <1>10, <1>11, <1>12, <1>13, <1>14, <1>15, <1>16, <1>17,
     <1>18 DEF Does

\* A request starts with nothing, and from then on those that run are together.
LEMMA ArriveStep ==
    ASSUME NEW k, HandlerBody(k), NEW r \in Request, Arrive(r)
    PROVE  HandlerBody(k)'
<1>1. HandlerTypes /\ Regular(script, k) /\ Shape(script.does, k) /\ k \in Nat
      /\ DOMAIN script.does \subseteq Nat
  BY KnownOf DEF HandlerBody, Regular, Shape
<1>2. req[r].phase = "idle" /\ req[r] = NotYet /\ Mine(r) = {} /\ follower[r] = "none"
  BY KnownOf DEF Arrive, Begins
<1>3. PICK q2 : q2 = [NotYet EXCEPT !.phase = "running"]
  OBVIOUS
<1>4. /\ q2 \in Requests /\ q2.phase = "running" /\ q2.at = 1 /\ q2.open = {} /\ q2.heard = "waiting"
      /\ req' = [req EXCEPT ![r] = q2]
  <2>1. q2 = [phase |-> "running", at |-> 1, open |-> {}, heard |-> "waiting", queued |-> TRUE, late |-> FALSE]
    BY <1>3 DEF NotYet
  <2>2. q2 \in Requests
    BY <2>1 DEF Requests
  <2>3. req' = [req EXCEPT ![r] = [req[r] EXCEPT !.phase = "running"]]
    BY DEF Arrive, Goes
  <2> QED
    BY <1>2, <1>3, <2>1, <2>2, <2>3
<1>5. script' = script /\ db' = db /\ follower' = follower
  BY DEF Arrive
<1>6. \A what : ~Past(script.does, 1, what)
  BY <1>1 DEF Past, Shape
<1>7. ~(k < 1)
  BY <1>1 DEF Shape
<1>8. Knows(script, k, q2, Mine(r), db.change)
  <2>1. Flows(script, k, q2, Mine(r), db.change)
    BY <1>2, <1>4, <1>6, <1>7 DEF Flows
  <2>2. Heard(script, k, q2, Mine(r), db.change)
    BY <1>2, <1>4 DEF Heard
  <2>3. Logged(script, k, q2, Mine(r), db.change)
    BY <1>2, <1>4, <1>6 DEF Logged
  <2> QED
    BY <2>1, <2>2, <2>3 DEF Knows
<1>9. /\ Regular(script, k)' /\ HandlerTypes'
  BY <1>1, <1>4, <1>5 DEF HandlerTypes
<1>10. ASSUME NEW s \in Request
       PROVE  RequestInv(k, s)'
  <2>1. Mine(s)' = Mine(s)
    BY <1>5 DEF Mine
  <2>2. CASE s = r
    <3>1. req'[r] = q2
      BY <1>1, <1>4 DEF HandlerTypes
    <3>2. Begins(q2, Mine(r), follower[r]) /\ Followed(script, q2, db.change, follower[r])
      BY <1>2, <1>4 DEF Begins, Followed
    <3> QED
      BY <1>5, <1>8, <2>1, <2>2, <3>1, <3>2 DEF RequestInv, Sound
  <2>3. CASE s # r
    <3>1. req'[s] = req[s] /\ RequestInv(k, s)
      BY <1>1, <1>4, <2>3 DEF HandlerTypes, HandlerBody
    <3> QED
      BY <1>5, <2>1, <3>1 DEF RequestInv
  <2> QED
    BY <2>2, <2>3
<1>11. OneChange(k)'
  <2>1. /\ \A s \in Request \ {r} : req'[s] = req[s]
        /\ req'[r] = q2
    BY <1>1, <1>4 DEF HandlerTypes
  <2>2. \A s \in Request : Has(s)' <=> Has(s)
    BY <1>2, <1>4, <1>5, <2>1 DEF Has, NotYet
  <2>3. \A s \in Request : Running(s)' <=> Running(s) \/ s = r
    BY <1>4, <2>1 DEF Running
  <2>4. together' <=> together \/ \E q \in Request : Running(q)
    BY DEF Arrive
  <2>5. together' \/ \A q, s \in Request : Running(q)' /\ Running(s)' => q = s
    BY <2>3, <2>4, Zenon
  <2>6. ASSUME ~together', NEW s \in Request, Running(s)'
        PROVE  ~Past(script.does, req'[s].at, {"find"})
    BY <1>4, <1>6, <2>1, <2>3, <2>4, <2>6
  <2>7. OneChange(k)
    BY DEF HandlerBody
  <2>8. ~together' => ~together
    BY <2>4
  <2> QED
    BY <1>5, <2>2, <2>5, <2>6, <2>7, <2>8 DEF OneChange, Steps
<1> QED
  BY <1>9, <1>10, <1>11 DEF HandlerBody

\* The outside moves nothing but what the clients hear and the others find.
LEMMA OutsideStep ==
    ASSUME NEW k, HandlerBody(k), script' = script, db' = db, together' = together, HandlerTypes',
           \A r \in Request :
              /\ req'[r].phase = req[r].phase /\ req'[r].at = req[r].at /\ req'[r].open = req[r].open
              /\ req'[r].late = req[r].late /\ req'[r].heard \in {req[r].heard, "gone"}
              /\ req[r].phase = "idle" => req'[r] = req[r]
              /\ Followed(script, req'[r], db.change, follower'[r])
              /\ follower[r] = "none" => follower'[r] = "none"
    PROVE  HandlerBody(k)'
<1>1. Regular(script, k)'
  BY DEF HandlerBody
<1>2. ASSUME NEW s \in Request
      PROVE  RequestInv(k, s)'
  <2>1. Mine(s)' = Mine(s)
    BY DEF Mine
  <2>2. req'[s] \in Requests /\ Knows(script, k, req[s], Mine(s), db.change)
        /\ Begins(req[s], Mine(s), follower[s])
    BY KnownOf DEF HandlerTypes
  <2>3. Knows(script, k, req'[s], Mine(s), db.change)
    BY <2>2, OutsideKeeps
  <2>4. Begins(req'[s], Mine(s), follower'[s])
    BY <2>2 DEF Begins
  <2> QED
    BY <2>1, <2>3, <2>4 DEF RequestInv, Sound
<1>3. OneChange(k)'
  BY DEF HandlerBody, OneChange, Running, Has, Steps
<1> QED
  BY <1>1, <1>2, <1>3 DEF HandlerBody

\* A client that gives up changes only what it hears.
LEMMA GiveUpStep ==
    ASSUME NEW k, HandlerBody(k), NEW r \in Request, GiveUp(r)
    PROVE  HandlerBody(k)'
<1>1. HandlerTypes
  BY DEF HandlerBody
<1>2. req' = [req EXCEPT ![r] = [req[r] EXCEPT !.heard = "gone"]]
      /\ UNCHANGED <<script, db, follower, together>>
      /\ req[r].phase # "idle"
  BY DEF GiveUp, Goes
<1>3. req[r] \in Requests
  BY <1>1 DEF HandlerTypes
<1>4. PICK q2 : q2 = [req[r] EXCEPT !.heard = "gone"]
  OBVIOUS
<1>5. /\ q2 \in Requests /\ q2.phase = req[r].phase /\ q2.at = req[r].at /\ q2.open = req[r].open
      /\ q2.late = req[r].late /\ q2.heard = "gone"
  BY <1>3, <1>4 DEF Requests
<1>6. req'[r] = q2 /\ \A s \in Request \ {r} : req'[s] = req[s]
  BY <1>1, <1>2, <1>4 DEF HandlerTypes
<1>7. HandlerTypes'
  BY <1>1, <1>2, <1>4, <1>5 DEF HandlerTypes
<1>8. \A s \in Request : Followed(script, req[s], db.change, follower[s])
  BY KnownOf
<1>9. Followed(script, q2, db.change, follower[r])
  BY <1>5, <1>8 DEF Followed
<1>10. follower' = follower
  BY <1>2
<1>11. \A s \in Request :
          /\ req'[s].phase = req[s].phase /\ req'[s].at = req[s].at /\ req'[s].open = req[s].open
          /\ req'[s].late = req[s].late /\ req'[s].heard \in {req[s].heard, "gone"}
          /\ req[s].phase = "idle" => req'[s] = req[s]
          /\ Followed(script, req'[s], db.change, follower'[s])
          /\ follower[s] = "none" => follower'[s] = "none"
  BY <1>2, <1>5, <1>6, <1>8, <1>9, <1>10
<1> QED
  BY <1>2, <1>7, <1>11, OutsideStep

\* Who was told looks, and finds what is there.
LEMMA FollowStep ==
    ASSUME NEW k, HandlerBody(k), NEW r \in Request, Follow(r)
    PROVE  HandlerBody(k)'
<1>1. HandlerTypes /\ \A s \in Request : Followed(script, req[s], db.change, follower[s])
  BY KnownOf DEF HandlerBody
<1>2. follower[r] = "told" /\ follower' = Found(r) /\ UNCHANGED <<script, req, db, together>>
  BY DEF Follow
<1>3. /\ \A s \in Request \ {r} : follower'[s] = follower[s]
      /\ follower'[r] = IF Visible(r) THEN "new" ELSE "old"
      /\ HandlerTypes'
  BY <1>1, <1>2 DEF Found, HandlerTypes
<1>4. script.of \notin EarlyWakers => Visible(r)
  <2>1. CASE Running(r)
    <3>1. Moving(script, k, req[r], Mine(r), db.change)
      BY <2>1, KnownOf
    <3> QED
      BY <1>1, <1>2, <2>1, <3>1 DEF Visible, Followed, Moving, Flows
  <2>2. CASE ~Running(r)
    <3>1. req[r].open = {}
      BY <2>2, KnownOf DEF Begins, NotYet, Requests, Running
    <3> QED
      BY <1>1, <1>2, <3>1 DEF Visible, Followed
  <2> QED
    BY <2>1, <2>2
<1>5. Followed(script, req[r], db.change, follower'[r])
  BY <1>3, <1>4 DEF Followed
<1>6. \A s \in Request : Followed(script, req[s], db.change, follower'[s])
      /\ (follower[s] = "none" => follower'[s] = "none")
  BY <1>1, <1>2, <1>3, <1>5
<1> QED
  BY <1>2, <1>3, <1>6, OutsideStep

\* When the process dies, every open session is taken back.
LEMMA CrashStep ==
    ASSUME NEW k, HandlerBody(k), CrashWeb
    PROVE  HandlerBody(k)'
<1>1. HandlerTypes /\ Regular(script, k) /\ DOMAIN script.does \subseteq Nat
  BY ShapeFacts DEF HandlerBody, Regular, Shape
<1>2. /\ req' = [r \in Request |-> IF Running(r) THEN Raised(r, "waiting") ELSE req[r]]
      /\ script' = script /\ db' = db /\ together' = together /\ follower' = follower
  BY DEF CrashWeb
<1>3. ASSUME NEW r \in Request, Running(r)
      PROVE  /\ req'[r] \in Requests /\ req'[r].phase = "over" /\ req'[r].open = {}
             /\ Knows(script, k, req'[r], Mine(r), db.change)
  <2>1. Moving(script, k, req[r], Mine(r), db.change) /\ req[r] \in Requests
    BY <1>3, KnownOf
  <2>2. PICK q2 : q2 = Raised(r, "waiting")
    OBVIOUS
  <2>3. /\ q2 \in Requests /\ q2.phase = "over" /\ q2.open = {} /\ q2.heard \in {req[r].heard, "waiting"}
        /\ q2.heard = "ok" => q2.late = TRUE
    BY <2>1, <2>2, RequestMoves
  <2>4. q2.heard = Told(r, "waiting")
    BY <2>1, <2>2, RequestMoves
  <2>5. q2.heard = req[r].heard
    BY <2>4 DEF Told
  <2>6. Knows(script, k, q2, Mine(r), db.change)
    BY <2>1, <2>3, <2>5, FailKeeps
  <2> QED
    BY <1>2, <1>3, <2>2, <2>3, <2>6
<1>4. ASSUME NEW r \in Request, ~Running(r)
      PROVE  req'[r] = req[r]
  BY <1>2, <1>4
<1>5. \A r \in Request : req'[r] \in Requests /\ req[r] \in Requests
  BY <1>1, <1>3, <1>4 DEF HandlerTypes
<1>6. HandlerTypes'
  BY <1>1, <1>2, <1>5 DEF HandlerTypes
<1>7. ASSUME NEW r \in Request
      PROVE  RequestInv(k, r)'
  <2>1. Mine(r)' = Mine(r)
    BY <1>2 DEF Mine
  <2>2. CASE Running(r)
    <3>1. Followed(script, req[r], db.change, follower[r])
      BY KnownOf
    <3>2. Followed(script, req'[r], db.change, follower[r])
      BY <1>3, <2>2, <3>1 DEF Followed
    <3>3. Begins(req'[r], Mine(r), follower[r])
      BY <1>3, <2>2 DEF Begins
    <3> QED
      BY <1>2, <1>3, <2>1, <2>2, <3>2, <3>3 DEF RequestInv, Sound
  <2>3. CASE ~Running(r)
    BY <1>2, <1>4, <2>1, <2>3 DEF HandlerBody, RequestInv
  <2> QED
    BY <2>2, <2>3
<1>8. OneChange(k)'
  <2>1. \A r \in Request : ~Running(r)'
    BY <1>3, <1>4 DEF Running
  <2>2. \A r \in Request : Has(r)' => Has(r)
    BY <1>2, <1>3, <1>4 DEF Has
  <2> QED
    BY <1>2, <2>1, <2>2 DEF HandlerBody, OneChange, Steps
<1> QED
  BY <1>1, <1>2, <1>6, <1>7, <1>8 DEF HandlerBody

-----------------------------------------------------------------------------
(* What the scripts are composed of. *)

\* What comes before the write, and the write.
Leads(of, steps, k) ==
    /\ steps \in Seq(StepSet) /\ k \in 1..Len(steps)
    /\ steps[k].do \in Writing /\ steps[k].how \subseteq Either
    /\ \A i \in 1..(k - 1) :
          /\ steps[i].do \in {"check", "half"} => steps[i].how \subseteq Either
          /\ steps[i].do \in {"check", "half", "find"}
          /\ "anyway" \in steps[i].how => steps[i].how = Anyway /\ i + 1 = k
          /\ steps[i].do = "half" => of \notin RefusedLate
          /\ of \in LoggedApart \ Unlogged => "skip" \notin steps[i].how
    /\ \A i, j \in 1..(k - 1) : steps[i].do = "half" /\ i < j
       /\ "return" \in steps[j].how => of = "update_group"
    /\ of \notin Unguarded =>
          \/ steps[k].do \in {"once", "write"}
          \/ steps[k].do = "insert" /\ of \in LookFirst /\ \E i \in 1..(k - 1) : steps[i].do = "find"

\* What comes after it.
Follows(of, steps) ==
    /\ steps \in Seq(StepSet) /\ Len(steps) > 0 /\ steps[Len(steps)].do \in {"answer", "reload"}
    /\ \A i \in DOMAIN steps :
          \/ /\ steps[i].do = "conflict" /\ steps[i].how \subseteq Either
             /\ \A j \in 1..i : steps[j].do = "conflict"
          \/ steps[i].do \in {"queued", "again"} /\ steps[i].how \subseteq Either
          \/ steps[i].do \in After /\ steps[i].how = {}
    /\ \A i, j \in DOMAIN steps : steps[i].do = "answer" /\ i < j => steps[j].do = "reload"
    /\ \A i \in DOMAIN steps :
          /\ steps[i].do \in {"apart", "queued", "again"} => Past(steps, i, {"commit"})
          /\ steps[i].do = "answer" /\ Some(steps, {"commit"}) => Past(steps, i, {"commit"})
          /\ steps[i].do \in {"queued", "again"} => of \in RefusedLate
          /\ of \notin Unlogged \cup LoggedApart =>
                /\ steps[i].do = "commit" => Past(steps, i, {"audit"})
                /\ steps[i].do \in {"queued", "again"} => "return" \notin steps[i].how
          /\ of \in LoggedApart \ Unlogged => (steps[i].do = "answer" => Past(steps, i, {"audit", "apart"}))
          /\ of \notin EarlyWakers =>
                (steps[i].do \in {"dispatch", "wake", "hint", "reload"} => Past(steps, i, {"commit"}))
    /\ of \notin Unlogged \cup LoggedApart => Some(steps, {"audit"})

\* steps ends with tail, after its first k.
Joins(steps, k, tail) ==
    /\ Len(steps) = k + Len(tail)
    /\ \A i \in 1..Len(tail) : steps[k + i] = tail[i]

\* What leads to the write and what follows it make a script with a place for it.
LEMMA Composed ==
    ASSUME NEW of, NEW steps, NEW k, Leads(of, steps, k), NEW tail, Follows(of, tail), Joins(steps, k, tail)
    PROVE  Regular(Handler(of, steps), k)
<1>1. /\ steps \in Seq(StepSet) /\ Len(steps) \in Nat /\ DOMAIN steps = 1..Len(steps) /\ k \in 1..Len(steps)
      /\ tail \in Seq(StepSet) /\ Len(tail) \in Nat /\ DOMAIN tail = 1..Len(tail) /\ Len(tail) > 0
      /\ Len(steps) = k + Len(tail)
  BY DEF Leads, Follows, Joins
<1>2. ASSUME NEW i \in (k + 1)..Len(steps)
      PROVE  i - k \in 1..Len(tail) /\ steps[i] = tail[i - k] /\ i = k + (i - k)
  BY <1>1, <1>2 DEF Joins
<1>3. ASSUME NEW i \in DOMAIN tail, NEW what, Past(tail, i, what)
      PROVE  Past(steps, k + i, what)
  <2>1. PICK j \in DOMAIN tail : j < i /\ tail[j].do \in what
    BY <1>3 DEF Past
  <2>2. k + j \in DOMAIN steps /\ k + j < k + i /\ steps[k + j].do \in what
    BY <1>1, <1>3, <2>1 DEF Joins
  <2> QED
    BY <2>2, Zenon DEF Past
<1>4. ASSUME NEW i \in (k + 1)..Len(steps), NEW what, Past(tail, i - k, what)
      PROVE  Past(steps, i, what)
  BY <1>1, <1>2, <1>3, <1>4
<1>5. ASSUME NEW what, what \subseteq After \cup {"conflict", "queued", "again"}
      PROVE  Some(steps, what) <=> Some(tail, what)
  <2>1. ASSUME NEW i \in DOMAIN steps, steps[i].do \in what
        PROVE  i \in (k + 1)..Len(steps)
    <3>1. i # k
      BY <1>5, <2>1 DEF Leads, After, Writing, Cumulative
    <3>2. ~(i < k)
      BY <1>1, <1>5, <2>1 DEF Leads, After
    <3> QED
      BY <1>1, <3>1, <3>2
  <2>2. ASSUME NEW i \in DOMAIN tail
        PROVE  k + i \in DOMAIN steps /\ steps[k + i] = tail[i]
    BY <1>1 DEF Joins
  <2>3. Some(steps, what) => Some(tail, what)
    BY <1>1, <1>2, <2>1 DEF Some
  <2>4. Some(tail, what) => Some(steps, what)
    BY <2>2, Zenon DEF Some
  <2> QED
    BY <2>3, <2>4
<1>6. ASSUME NEW i \in DOMAIN steps
      PROVE  i \in 1..(k - 1) \/ i = k \/ i \in (k + 1)..Len(steps)
  BY <1>1
<1>7. Some(steps, {"commit"}) <=> Some(tail, {"commit"})
  BY <1>5 DEF After
<1>8. Some(steps, {"audit"}) <=> Some(tail, {"audit"})
  BY <1>5 DEF After
<1>9. Shape(steps, k)
  <2>1. steps[Len(steps)].do \in {"answer", "reload"}
    BY <1>1 DEF Follows, Joins
  <2>2. ASSUME NEW i \in 1..(k - 1)
        PROVE  steps[i].do \in {"check", "half", "find"}
    BY DEF Leads
  <2>3. steps[k].do \in Writing
    BY DEF Leads
  <2>4. ASSUME NEW i \in (k + 1)..Len(steps)
        PROVE  \/ /\ steps[i].do = "conflict" /\ steps[i].how \subseteq Either
                  /\ \A j \in (k + 1)..i : steps[j].do = "conflict"
               \/ steps[i].do \in {"queued", "again"} /\ steps[i].how \subseteq Either
               \/ steps[i].do \in After /\ steps[i].how = {}
    <3>1. i - k \in DOMAIN tail /\ steps[i] = tail[i - k]
      BY <1>1, <1>2
    <3>2. ASSUME NEW j \in (k + 1)..i, \A m \in 1..(i - k) : tail[m].do = "conflict"
          PROVE  steps[j].do = "conflict"
      BY <1>1, <1>2, <3>2
    <3> QED
      BY <3>1, <3>2 DEF Follows
  <2>5. ASSUME NEW i \in DOMAIN steps, steps[i].do \in After \cup {"queued", "again"}
        PROVE  i \in (k + 1)..Len(steps) /\ i - k \in DOMAIN tail /\ steps[i] = tail[i - k]
    BY <1>1, <1>2, <1>6, <2>2, <2>3, <2>5 DEF After, Writing, Cumulative
  <2>6. ASSUME NEW i \in DOMAIN steps, NEW j \in DOMAIN steps, steps[i].do = "answer", i < j
        PROVE  steps[j].do = "reload"
    <3>1. i \in (k + 1)..Len(steps) /\ i - k \in DOMAIN tail /\ steps[i] = tail[i - k]
      BY <2>5, <2>6 DEF After
    <3>2. j \in (k + 1)..Len(steps) /\ j - k \in DOMAIN tail /\ steps[j] = tail[j - k] /\ i - k < j - k
      BY <1>1, <1>2, <2>6, <3>1
    <3> QED
      BY <2>6, <3>1, <3>2 DEF Follows
  <2>7. ASSUME NEW i \in DOMAIN steps, steps[i].do \in {"apart", "queued", "again"}
               \/ (steps[i].do = "answer" /\ Some(steps, {"commit"}))
        PROVE  Past(steps, i, {"commit"})
    <3>1. i \in (k + 1)..Len(steps) /\ i - k \in DOMAIN tail /\ steps[i] = tail[i - k]
      BY <2>5, <2>7 DEF After
    <3>2. Past(tail, i - k, {"commit"})
      BY <1>7, <2>7, <3>1 DEF Follows
    <3> QED
      BY <1>4, <3>1, <3>2
  <2>8. k \in 1..(Len(steps) - 1)
    BY <1>1
  <2> QED
    BY <1>1, <2>1, <2>4, <2>6, <2>7, <2>8 DEF Shape, Leads, After
<1>10. ASSUME NEW i \in DOMAIN steps, steps[i].do \in After \cup {"queued", "again"}
       PROVE  i \in (k + 1)..Len(steps) /\ i - k \in DOMAIN tail /\ steps[i] = tail[i - k]
  <2>1. steps[i].do \in After \cup {"conflict", "queued", "again"}
    BY <1>10
  <2>2. k < i
    BY <1>9, <2>1, ShapeFacts
  <2>3. i \in (k + 1)..Len(steps)
    BY <1>1, <2>2
  <2> QED
    BY <1>1, <1>2, <2>3
<1>11. Some(steps, {"queued", "again"}) => of \in RefusedLate /\ ~Some(steps, {"half"})
  <2> SUFFICES ASSUME Some(steps, {"queued", "again"})
               PROVE  of \in RefusedLate /\ ~Some(steps, {"half"})
    OBVIOUS
  <2>1. Some(tail, {"queued", "again"})
    BY <1>5
  <2>2. of \in RefusedLate
    BY <2>1 DEF Some, Follows
  <2>3. ASSUME NEW i \in DOMAIN steps, steps[i].do = "half"
        PROVE  FALSE
    <3>1. i < k
      BY <1>9, <2>3, ShapeFacts
    <3> QED
      BY <1>1, <2>2, <2>3, <3>1 DEF Leads
  <2> QED
    BY <2>2, <2>3 DEF Some
<1>12. ASSUME of \notin Unlogged \cup LoggedApart, NEW i \in DOMAIN steps
       PROVE  /\ steps[i].do = "commit" => Past(steps, i, {"audit"})
              /\ steps[i].do \in {"queued", "again"} => "return" \notin steps[i].how
  BY <1>4, <1>10, <1>12 DEF Follows, After
<1>13. ASSUME of \in LoggedApart \ Unlogged, NEW i \in DOMAIN steps
       PROVE  /\ steps[i].do = "answer" => Past(steps, i, {"audit", "apart"})
              /\ "skip" \notin steps[i].how
  <2>1. steps[i].do = "answer" => Past(steps, i, {"audit", "apart"})
    BY <1>4, <1>10, <1>13 DEF Follows, After
  <2>2. "skip" \in steps[i].how => steps[i].do = "find" /\ i < k
    BY <1>9, ShapeFacts
  <2>3. "skip" \notin steps[i].how
    BY <1>1, <1>13, <2>2 DEF Leads
  <2> QED
    BY <2>1, <2>3
<1>14. ASSUME of \notin EarlyWakers, NEW i \in DOMAIN steps,
              steps[i].do \in {"dispatch", "wake", "hint", "reload"}
       PROVE  Past(steps, i, {"commit"})
  BY <1>4, <1>10, <1>14 DEF Follows, After
<1>15. of \notin Unguarded =>
          (steps[k].do \in {"once", "write"})
          \/ (steps[k].do = "insert" /\ of \in LookFirst /\ Past(steps, k, {"find"}))
  <2>1. ASSUME NEW i \in 1..(k - 1), steps[i].do = "find"
        PROVE  Past(steps, k, {"find"})
    BY <1>1, <2>1 DEF Past
  <2> QED
    BY <2>1 DEF Leads
<1>16. of \notin Unlogged \cup LoggedApart => Some(steps, {"audit"})
  BY <1>8 DEF Follows
<1>17. \A i, j \in 1..(k - 1) : steps[i].do = "half" /\ i < j
       /\ "return" \in steps[j].how => of = "update_group"
  BY DEF Leads
<1>18. ByName(of, steps, k)
  BY <1>11, <1>12, <1>13, <1>14, <1>15, <1>16, <1>17 DEF ByName
<1> QED
  BY <1>9, <1>18 DEF Regular, Handler

\* The part of a script between its first check and what is common to several.
Work(of, body) ==
    \E k \in 1..Len(body) :
        /\ Leads(of, body, k)
        /\ \/ Len(body) = k
           \/ Len(body) = k + 1 /\ body[k + 1].do = "conflict" /\ body[k + 1].how \subseteq Either

HasPlace(h) == \E k \in DOMAIN h.does : Regular(h, k)

\* A constraint may fail before anything else is done.
LEMMA ConflictFollows ==
    ASSUME NEW of, NEW tail, Follows(of, tail), NEW c \in StepSet, c.do = "conflict", c.how \subseteq Either,
           NEW both \in Seq(StepSet), Len(both) = Len(tail) + 1, both[1] = c,
           \A i \in 1..Len(tail) : both[i + 1] = tail[i]
    PROVE  Follows(of, both)
<1>1. /\ tail \in Seq(StepSet) /\ Len(tail) \in Nat /\ DOMAIN tail = 1..Len(tail) /\ Len(tail) > 0
      /\ DOMAIN both = 1..(Len(tail) + 1)
  BY DEF Follows
<1>2. ASSUME NEW i \in DOMAIN both, i # 1
      PROVE  i - 1 \in DOMAIN tail /\ both[i] = tail[i - 1] /\ i = (i - 1) + 1
  BY <1>1, <1>2
<1>3. ASSUME NEW i \in DOMAIN tail, NEW what, Past(tail, i, what)
      PROVE  Past(both, i + 1, what)
  <2>1. PICK j \in DOMAIN tail : j < i /\ tail[j].do \in what
    BY <1>3 DEF Past
  <2>2. j + 1 \in DOMAIN both /\ j + 1 < i + 1 /\ both[j + 1].do \in what
    BY <1>1, <1>3, <2>1
  <2> QED
    BY <2>2, Zenon DEF Past
<1>4. ASSUME NEW i \in DOMAIN both, i # 1, NEW what, Past(tail, i - 1, what)
      PROVE  Past(both, i, what)
  BY <1>2, <1>3, <1>4
<1>5. Some(both, {"commit"}) => Some(tail, {"commit"})
  BY <1>2 DEF Some
<1>6. Some(tail, {"audit"}) => Some(both, {"audit"})
  <2>1. ASSUME NEW i \in DOMAIN tail
        PROVE  i + 1 \in DOMAIN both /\ both[i + 1] = tail[i]
    BY <1>1
  <2> QED
    BY <2>1, Zenon DEF Some
<1>7. both[Len(both)].do \in {"answer", "reload"} /\ Len(both) > 0
  BY <1>1 DEF Follows
<1>8. ASSUME NEW i \in DOMAIN both
      PROVE  \/ /\ both[i].do = "conflict" /\ both[i].how \subseteq Either
                /\ \A j \in 1..i : both[j].do = "conflict"
             \/ both[i].do \in {"queued", "again"} /\ both[i].how \subseteq Either
             \/ both[i].do \in After /\ both[i].how = {}
  <2>1. CASE i = 1
    BY <2>1
  <2>2. CASE i # 1
    <3>1. i - 1 \in DOMAIN tail /\ both[i] = tail[i - 1]
      BY <1>2, <2>2
    <3>2. ASSUME \A j \in 1..(i - 1) : tail[j].do = "conflict", NEW j \in 1..i
          PROVE  both[j].do = "conflict"
      <4>1. j # 1 => j \in DOMAIN both /\ j - 1 \in 1..(i - 1)
        BY <1>1, <3>2
      <4> QED
        BY <1>2, <3>2, <4>1
    <3> QED
      BY <3>1, <3>2 DEF Follows
  <2> QED
    BY <2>1, <2>2
<1>9. ASSUME NEW i \in DOMAIN both, NEW j \in DOMAIN both, both[i].do = "answer", i < j
      PROVE  both[j].do = "reload"
  <2>1. i # 1 /\ j # 1
    BY <1>1, <1>9
  <2>2. i - 1 \in DOMAIN tail /\ both[i] = tail[i - 1] /\ j - 1 \in DOMAIN tail /\ both[j] = tail[j - 1]
        /\ i - 1 < j - 1
    BY <1>1, <1>2, <1>9, <2>1
  <2> QED
    BY <1>9, <2>2 DEF Follows
<1>10. ASSUME NEW i \in DOMAIN both
       PROVE  /\ both[i].do \in {"apart", "queued", "again"} => Past(both, i, {"commit"})
              /\ both[i].do = "answer" /\ Some(both, {"commit"}) => Past(both, i, {"commit"})
              /\ both[i].do \in {"queued", "again"} => of \in RefusedLate
              /\ of \notin Unlogged \cup LoggedApart =>
                    /\ both[i].do = "commit" => Past(both, i, {"audit"})
                    /\ both[i].do \in {"queued", "again"} => "return" \notin both[i].how
              /\ of \in LoggedApart \ Unlogged => (both[i].do = "answer" => Past(both, i, {"audit", "apart"}))
              /\ of \notin EarlyWakers =>
                    (both[i].do \in {"dispatch", "wake", "hint", "reload"} => Past(both, i, {"commit"}))
  <2>1. CASE i = 1
    BY <2>1
  <2>2. CASE i # 1
    <3>1. i - 1 \in DOMAIN tail /\ both[i] = tail[i - 1]
      BY <1>2, <2>2
    <3>2. \A what : Past(tail, i - 1, what) => Past(both, i, what)
      BY <1>4, <2>2
    <3> QED
      BY <1>5, <3>1, <3>2 DEF Follows
  <2> QED
    BY <2>1, <2>2
<1>11. of \notin Unlogged \cup LoggedApart => Some(both, {"audit"})
  BY <1>6 DEF Follows
<1> QED
  BY <1>7, <1>8, <1>9, <1>10, <1>11 DEF Follows

\* A check more before a script, and any steps after its write.
LEMMA LeadsWithin ==
    ASSUME NEW of, NEW body, NEW k, Leads(of, body, k), NEW c \in StepSet, c.do = "check",
           c.how \subseteq Either,
           NEW steps \in Seq(StepSet), Len(steps) > Len(body), steps[1] = c,
           \A i \in 1..Len(body) : steps[i + 1] = body[i]
    PROVE  Leads(of, steps, k + 1)
<1>1. body \in Seq(StepSet) /\ Len(body) \in Nat /\ k \in 1..Len(body) /\ Len(steps) \in Nat
  BY DEF Leads
<1>2. k + 1 \in 1..Len(steps) /\ steps[k + 1] = body[k] /\ (k + 1) - 1 = k
  BY <1>1
<1>3. ASSUME NEW i \in 1..((k + 1) - 1)
      PROVE  i = 1 \/ (i - 1 \in 1..(k - 1) /\ steps[i] = body[i - 1])
  <2>1. i # 1 => i - 1 \in 1..(k - 1) /\ i - 1 \in 1..Len(body) /\ (i - 1) + 1 = i
    BY <1>1, <1>2
  <2> QED
    BY <2>1
<1>4. ASSUME NEW i \in 1..((k + 1) - 1)
      PROVE  /\ steps[i].do \in {"check", "half"} => steps[i].how \subseteq Either
             /\ steps[i].do \in {"check", "half", "find"}
             /\ "anyway" \in steps[i].how => steps[i].how = Anyway /\ i + 1 = k + 1
             /\ steps[i].do = "half" => of \notin RefusedLate
             /\ of \in LoggedApart \ Unlogged => "skip" \notin steps[i].how
  <2>1. CASE i = 1
    BY <2>1 DEF Either, Raise, Return
  <2>2. CASE i - 1 \in 1..(k - 1) /\ steps[i] = body[i - 1]
    BY <1>1, <2>2 DEF Leads
  <2> QED
    BY <1>3, <2>1, <2>2
<1>5. ASSUME NEW i \in 1..((k + 1) - 1), NEW j \in 1..((k + 1) - 1), steps[i].do = "half", i < j,
             "return" \in steps[j].how
      PROVE  of = "update_group"
  <2>1. i # 1 /\ j # 1
    BY <1>1, <1>5
  <2>2. i - 1 \in 1..(k - 1) /\ steps[i] = body[i - 1] /\ j - 1 \in 1..(k - 1) /\ steps[j] = body[j - 1]
        /\ i - 1 < j - 1
    BY <1>1, <1>3, <1>5, <2>1
  <2> QED
    BY <1>5, <2>2 DEF Leads
<1>6. ASSUME NEW i \in 1..(k - 1), body[i].do = "find"
      PROVE  \E j \in 1..((k + 1) - 1) : steps[j].do = "find"
  <2>1. i + 1 \in 1..((k + 1) - 1) /\ steps[i + 1] = body[i]
    BY <1>1
  <2> QED
    BY <1>6, <2>1
<1> QED
  BY <1>2, <1>4, <1>5, <1>6 DEF Leads

\* A handler that checks, does its work and goes on has a place for its write.
LEMMA Wrapped ==
    ASSUME NEW of, NEW body, Work(of, body), NEW tail, Follows(of, tail),
           NEW c \in StepSet, c.do = "check", c.how \subseteq Either,
           NEW steps \in Seq(StepSet), Len(steps) = 1 + Len(body) + Len(tail), steps[1] = c,
           \A i \in 1..Len(body) : steps[i + 1] = body[i],
           \A i \in 1..Len(tail) : steps[1 + Len(body) + i] = tail[i]
    PROVE  HasPlace(Handler(of, steps))
<1>1. PICK k \in 1..Len(body) :
          /\ Leads(of, body, k)
          /\ \/ Len(body) = k
             \/ Len(body) = k + 1 /\ body[k + 1].do = "conflict" /\ body[k + 1].how \subseteq Either
  BY DEF Work
<1>2. body \in Seq(StepSet) /\ tail \in Seq(StepSet) /\ Len(body) \in Nat /\ Len(tail) \in Nat /\ Len(tail) > 0
  BY <1>1 DEF Leads, Follows
<1>3. Leads(of, steps, k + 1)
  <2>1. Len(steps) > Len(body)
    BY <1>2
  <2> QED
    BY <1>1, <2>1, LeadsWithin
<1>4. k + 1 \in DOMAIN Handler(of, steps).does
  BY <1>1, <1>2 DEF Handler
<1>5. CASE Len(body) = k
  <2>1. Joins(steps, k + 1, tail)
    BY <1>1, <1>2, <1>5 DEF Joins
  <2>2. Regular(Handler(of, steps), k + 1)
    BY <1>3, <2>1, Composed
  <2> QED
    BY <1>4, <2>2, Zenon DEF HasPlace
<1>6. CASE Len(body) = k + 1 /\ body[k + 1].do = "conflict" /\ body[k + 1].how \subseteq Either
  <2> DEFINE both == [i \in 1..(Len(tail) + 1) |-> IF i = 1 THEN body[k + 1] ELSE tail[i - 1]]
  <2>1. body[k + 1] \in StepSet
    BY <1>1, <1>2, <1>6
  <2>2. /\ both \in Seq(StepSet) /\ Len(both) = Len(tail) + 1 /\ both[1] = body[k + 1]
        /\ \A i \in 1..Len(tail) : both[i + 1] = tail[i]
    BY <1>2, <2>1
  <2>3. ASSUME NEW i \in 1..Len(both)
        PROVE  steps[(k + 1) + i] = both[i]
    <3>1. CASE i = 1
      BY <1>1, <1>2, <1>6, <2>2, <3>1
    <3>2. CASE i # 1
      <4>1. i - 1 \in 1..Len(tail) /\ both[i] = tail[i - 1] /\ (k + 1) + i = 1 + Len(body) + (i - 1)
        BY <1>1, <1>2, <1>6, <2>2, <3>2
      <4> QED
        BY <4>1
    <3> QED
      BY <3>1, <3>2
  <2> HIDE DEF both
  <2>4. Follows(of, both)
    BY <1>6, <2>1, <2>2, ConflictFollows
  <2>5. Joins(steps, k + 1, both)
    BY <1>1, <1>2, <1>6, <2>2, <2>3 DEF Joins
  <2>6. Regular(Handler(of, steps), k + 1)
    BY <1>3, <2>4, <2>5, Composed
  <2> QED
    BY <1>4, <2>6, Zenon DEF HasPlace
<1> QED
  BY <1>1, <1>5, <1>6

-----------------------------------------------------------------------------
(* Each script of the application. *)

\* What each step does, and that it is one.
LEMMA StepFacts ==
    /\ \A how \in SUBSET Refusals :
          /\ Check(how) \in StepSet /\ Check(how).do = "check" /\ Check(how).how = how
          /\ Find(how) \in StepSet /\ Find(how).do = "find" /\ Find(how).how = how
          /\ InsertOnce(how) \in StepSet /\ InsertOnce(how).do = "once" /\ InsertOnce(how).how = how
          /\ Conflict(how) \in StepSet /\ Conflict(how).do = "conflict" /\ Conflict(how).how = how
          /\ NeedQueued(how) \in StepSet /\ NeedQueued(how).do = "queued" /\ NeedQueued(how).how = how
          /\ Again(how) \in StepSet /\ Again(how).do = "again" /\ Again(how).how = how
    /\ Insert \in StepSet /\ Insert.do = "insert" /\ Insert.how = {}
    /\ Write \in StepSet /\ Write.do = "write" /\ Write.how = {}
    /\ Flip \in StepSet /\ Flip.do = "flip" /\ Flip.how = {}
    /\ Half \in StepSet /\ Half.do = "half" /\ Half.how = {}
    /\ Audit \in StepSet /\ Audit.do = "audit" /\ Audit.how = {}
    /\ AuditApart \in StepSet /\ AuditApart.do = "apart" /\ AuditApart.how = {}
    /\ Commit \in StepSet /\ Commit.do = "commit" /\ Commit.how = {}
    /\ Dispatch \in StepSet /\ Dispatch.do = "dispatch" /\ Dispatch.how = {}
    /\ Wake \in StepSet /\ Wake.do = "wake" /\ Wake.how = {}
    /\ Hint \in StepSet /\ Hint.do = "hint" /\ Hint.how = {}
    /\ Reload \in StepSet /\ Reload.do = "reload" /\ Reload.how = {}
    /\ Answer \in StepSet /\ Answer.do = "answer" /\ Answer.how = {}
<1> DEFINE names == Writing \cup After \cup {"check", "find", "half", "conflict", "queued", "again"}
<1>1. ASSUME NEW what \in names, NEW how \in SUBSET Refusals
      PROVE  /\ Refusable(what, how) \in StepSet /\ Refusable(what, how).do = what
                /\ Refusable(what, how).how = how
             /\ Plain(what) \in StepSet /\ Plain(what).do = what /\ Plain(what).how = {}
  BY DEF Refusable, Plain, StepSet
<1>2. ASSUME NEW how \in SUBSET Refusals
      PROVE  /\ Check(how) \in StepSet /\ Check(how).do = "check" /\ Check(how).how = how
             /\ Find(how) \in StepSet /\ Find(how).do = "find" /\ Find(how).how = how
             /\ InsertOnce(how) \in StepSet /\ InsertOnce(how).do = "once" /\ InsertOnce(how).how = how
             /\ Conflict(how) \in StepSet /\ Conflict(how).do = "conflict" /\ Conflict(how).how = how
             /\ NeedQueued(how) \in StepSet /\ NeedQueued(how).do = "queued" /\ NeedQueued(how).how = how
             /\ Again(how) \in StepSet /\ Again(how).do = "again" /\ Again(how).how = how
  BY <1>1 DEF Check, Find, InsertOnce, Conflict, NeedQueued, Again, Writing, Cumulative
<1>3. {} \in SUBSET Refusals
  OBVIOUS
<1>4. /\ Insert \in StepSet /\ Insert.do = "insert" /\ Insert.how = {}
      /\ Write \in StepSet /\ Write.do = "write" /\ Write.how = {}
      /\ Flip \in StepSet /\ Flip.do = "flip" /\ Flip.how = {}
      /\ Half \in StepSet /\ Half.do = "half" /\ Half.how = {}
      /\ Audit \in StepSet /\ Audit.do = "audit" /\ Audit.how = {}
      /\ AuditApart \in StepSet /\ AuditApart.do = "apart" /\ AuditApart.how = {}
      /\ Commit \in StepSet /\ Commit.do = "commit" /\ Commit.how = {}
  BY <1>1, <1>3 DEF Insert, Write, Flip, Half, Audit, AuditApart, Commit, Writing, Cumulative, After
<1>5. /\ Dispatch \in StepSet /\ Dispatch.do = "dispatch" /\ Dispatch.how = {}
      /\ Wake \in StepSet /\ Wake.do = "wake" /\ Wake.how = {}
      /\ Hint \in StepSet /\ Hint.do = "hint" /\ Hint.how = {}
      /\ Reload \in StepSet /\ Reload.do = "reload" /\ Reload.how = {}
      /\ Answer \in StepSet /\ Answer.do = "answer" /\ Answer.how = {}
  BY <1>1, <1>3 DEF Dispatch, Wake, Hint, Reload, Answer, After
<1> QED
  BY <1>2, <1>4, <1>5

\* The ways to refuse that neither skip nor go on.
LEMMA Hows == \A how \in SUBSET Either : how \in SUBSET Refusals /\ how \subseteq Either /\ "anyway" \notin how
      /\ "skip" \notin how
BY DEF Refusals, Either, Raise, Return

\* The writes that need no look at what is there.
Repeatable(of, w) == w.how \subseteq Either
   /\ ((of \in Unguarded /\ w.do \in Writing) \/ w.do \in {"once", "write"})

\* What a check, or a look at what is there, is before a write.
Before(of, a) ==
    a.do \in {"check", "find"} /\ a.how \subseteq Either

\* A write alone.
LEMMA OneStep ==
    ASSUME NEW of, NEW w \in StepSet, Repeatable(of, w)
    PROVE  Work(of, <<w>>)
<1>1. Leads(of, <<w>>, 1)
  BY DEF Leads, Repeatable, Writing, Cumulative
<1> QED
  BY <1>1 DEF Work

\* A check or a look, and the write.
LEMMA TwoSteps ==
    ASSUME NEW of, NEW a \in StepSet, NEW w \in StepSet, Before(of, a),
           Repeatable(of, w) \/ (w = Insert /\ a.do = "find" /\ of \in LookFirst)
    PROVE  Work(of, <<a, w>>)
<1>1. Leads(of, <<a, w>>, 2)
  BY StepFacts DEF Leads, Repeatable, Before, Writing, Cumulative, Either, Raise, Return
<1> QED
  BY <1>1 DEF Work

\* Two of them, and the write.
LEMMA ThreeSteps ==
    ASSUME NEW of, NEW a \in StepSet, NEW b \in StepSet, NEW w \in StepSet, Before(of, a), Before(of, b),
           Repeatable(of, w) \/ (w = Insert /\ (a.do = "find" \/ b.do = "find") /\ of \in LookFirst)
    PROVE  Work(of, <<a, b, w>>)
<1>1. Leads(of, <<a, b, w>>, 3)
  BY StepFacts DEF Leads, Repeatable, Before, Writing, Cumulative, Either, Raise, Return
<1> QED
  BY <1>1 DEF Work

\* A write whose constraint may fail.
LEMMA ConflictSteps ==
    ASSUME NEW of, NEW a \in StepSet, NEW w \in StepSet, NEW c \in StepSet, Before(of, a), Repeatable(of, w),
           c.do = "conflict", c.how \subseteq Either
    PROVE  Work(of, <<a, w, c>>)
<1>1. Leads(of, <<a, w, c>>, 2)
  BY StepFacts DEF Leads, Repeatable, Before, Writing, Cumulative, Either, Raise, Return
<1> QED
  BY <1>1 DEF Work

\* The handlers that write before their last look are neither starts nor logged apart.
LEMMA HalfSteps ==
    ASSUME NEW of \in {"update_group", "update_group_api", "import_devices_csv"},
           NEW a \in StepSet, NEW b \in StepSet, NEW w \in StepSet,
           a.do = "check", a.how \subseteq Either, Repeatable(of, w),
           \/ Before(of, b) /\ (of = "update_group" \/ "return" \notin b.how)
           \/ b.do = "find" /\ b.how \in {Skip, Anyway},
           NEW steps \in Seq(StepSet), Len(steps) >= 4,
           steps[1] = a, steps[2] = Half, steps[3] = b, steps[4] = w
    PROVE  Leads(of, steps, 4)
<1>1. of \notin RefusedLate /\ of \notin LoggedApart
  BY DEF RefusedLate, Starts, LoggedApart
<1> QED
  BY <1>1, StepFacts DEF Leads, Repeatable, Before, Writing, Cumulative, Skip, Anyway, Either, Raise, Return

\* The row of a file is found, and skipped or updated.
LEMMA RowSteps ==
    ASSUME NEW of \in {"import_devices_csv", "import_credentials_csv"}, NEW a \in StepSet, NEW b \in StepSet,
           NEW w \in StepSet,
           a.do = "check", a.how \subseteq Either, b.do = "find", b.how \in {Skip, Anyway},
           Repeatable(of, w) \/ (w = Insert /\ of \in LookFirst),
           NEW steps \in Seq(StepSet), Len(steps) >= 3, steps[1] = a, steps[2] = b, steps[3] = w
    PROVE  Leads(of, steps, 3)
<1>1. of \notin RefusedLate /\ of \notin LoggedApart
  BY DEF RefusedLate, Starts, LoggedApart
<1> QED
  BY <1>1, StepFacts DEF Leads, Repeatable, Before, Writing, Cumulative, Skip, Anyway, Either, Raise, Return

\* The bodies of the import of devices.
LEMMA ImportSteps ==
    ASSUME NEW row \in ImportedRows
    PROVE  Work("import_devices_csv", <<Check(Either)>> \o row)
<1>1. PICK group \in {<<>>, <<Half>>},
           what \in {<<Find(Skip), InsertOnce(Raise)>>, <<Find(Anyway), InsertOnce(Raise)>>,
                                                <<Write, Conflict(Raise)>>} : row = group \o what
  BY DEF ImportedRows
<1>2. \A how \in {Skip, Anyway, Raise, Either} : how \in SUBSET Refusals
  BY DEF Refusals, Skip, Anyway, Either
<1>3. /\ Check(Either) \in StepSet /\ Check(Either).do = "check" /\ Check(Either).how = Either
      /\ InsertOnce(Raise) \in StepSet /\ Repeatable("import_devices_csv", InsertOnce(Raise))
      /\ Conflict(Raise) \in StepSet /\ Conflict(Raise).do = "conflict" /\ Conflict(Raise).how \subseteq Either
      /\ Write \in StepSet /\ Repeatable("import_devices_csv", Write) /\ Half \in StepSet
  BY <1>2, StepFacts DEF Repeatable, Either
<1>4. ASSUME NEW how \in {Skip, Anyway}, what = <<Find(how), InsertOnce(Raise)>>
      PROVE  Work("import_devices_csv", <<Check(Either)>> \o row)
  <2>1. Find(how) \in StepSet /\ Find(how).do = "find" /\ Find(how).how \in {Skip, Anyway}
    BY <1>2, StepFacts
  <2> DEFINE body == <<Check(Either)>> \o row
  <2>2. CASE group = <<>>
    <3>1. body \in Seq(StepSet) /\ Len(body) = 3 /\ body[1] = Check(Either) /\ body[2] = Find(how)
          /\ body[3] = InsertOnce(Raise)
      BY <1>1, <1>3, <1>4, <2>1, <2>2
    <3> HIDE DEF body
    <3>2. Len(body) >= 3
      BY <3>1
    <3>3. Leads("import_devices_csv", body, 3)
      BY <1>3, <2>1, <3>1, <3>2, RowSteps
    <3>4. Work("import_devices_csv", body)
      BY <3>1, <3>3 DEF Work
    <3> QED
      BY <3>4 DEF body
  <2>3. CASE group = <<Half>>
    <3>1. /\ body \in Seq(StepSet) /\ Len(body) = 4 /\ body[1] = Check(Either) /\ body[2] = Half
             /\ body[3] = Find(how)
          /\ body[4] = InsertOnce(Raise)
      BY <1>1, <1>3, <1>4, <2>1, <2>3
    <3> HIDE DEF body
    <3>2. Len(body) >= 4
      BY <3>1
    <3>3. Leads("import_devices_csv", body, 4)
      BY <1>3, <2>1, <3>1, <3>2, HalfSteps
    <3>4. Work("import_devices_csv", body)
      BY <3>1, <3>3 DEF Work
    <3> QED
      BY <3>4 DEF body
  <2> QED
    BY <2>2, <2>3
<1>5. CASE what = <<Write, Conflict(Raise)>>
  <2> DEFINE body == <<Check(Either)>> \o row
  <2>1. CASE group = <<>>
    <3>1. body \in Seq(StepSet) /\ Len(body) = 3 /\ body[1] = Check(Either) /\ body[2] = Write
          /\ body[3] = Conflict(Raise)
      BY <1>1, <1>3, <1>5, <2>1
    <3>2. Leads("import_devices_csv", body, 2)
      BY <1>3, <3>1 DEF Leads, Repeatable, Writing, Cumulative, Either, Raise, Return
    <3> QED
      BY <1>3, <3>1, <3>2 DEF Work
  <2>2. CASE group = <<Half>>
    <3>1. /\ body \in Seq(StepSet) /\ Len(body) = 4 /\ body[1] = Check(Either) /\ body[2] = Half
             /\ body[3] = Write
          /\ body[4] = Conflict(Raise)
      BY <1>1, <1>3, <1>5, <2>2
    <3>2. Leads("import_devices_csv", body, 3)
      BY <1>3, <3>1, StepFacts DEF Leads, Repeatable, Writing, Cumulative, Either, Raise, Return, RefusedLate, Starts
    <3> QED
      BY <1>3, <3>1, <3>2 DEF Work
  <2> QED
    BY <2>1, <2>2
<1> QED
  BY <1>1, <1>4, <1>5

\* What the scripts end with.
LEMMA Endings ==
    ASSUME NEW of
    PROVE  /\ Follows(of, <<Audit, Answer>>)
           /\ Follows(of, <<Audit, Commit, Reload, Answer>>)
           /\ of = "api_toggle_schedule" => Follows(of, <<Audit, Commit, Reload, Again(Raise), Answer>>)
           /\ of \in Unlogged => Follows(of, <<Answer>>) /\ Follows(of, <<Commit, Reload, Answer>>)
           /\ of \in EarlyWakers => /\ Follows(of, <<Audit, Wake, Answer>>)
                                       /\ Follows(of, <<Audit, Hint, Answer>>)
                                    /\ Follows(of, <<Audit, Answer, Reload>>)
           /\ of \in LoggedApart => Follows(of, <<Commit, AuditApart, Hint, Answer>>)
<1> PICK again \in StepSet : again = Again(Raise) /\ again.do = "again" /\ again.how = Raise
  BY StepFacts DEF Refusals, Either
<1> USE StepFacts DEF Follows, Past, Some, After
<1>1. Follows(of, <<Audit, Answer>>)
  OBVIOUS
<1>2. Follows(of, <<Audit, Commit, Reload, Answer>>)
  OBVIOUS
<1>3. ASSUME of \in Unlogged
      PROVE  Follows(of, <<Answer>>) /\ Follows(of, <<Commit, Reload, Answer>>)
  BY <1>3
<1>4. ASSUME of \in EarlyWakers
      PROVE  /\ Follows(of, <<Audit, Wake, Answer>>) /\ Follows(of, <<Audit, Hint, Answer>>)
             /\ Follows(of, <<Audit, Answer, Reload>>)
  BY <1>4
<1>5. ASSUME of \in LoggedApart
      PROVE  Follows(of, <<Commit, AuditApart, Hint, Answer>>)
  BY <1>5
<1>6. ASSUME of = "api_toggle_schedule"
      PROVE  Follows(of, <<Audit, Commit, Reload, again, Answer>>)
  BY <1>6 DEF RefusedLate, Either, Raise
<1> HIDE StepFacts DEF Follows, Past, Some, After
<1> QED
  BY <1>1, <1>2, <1>3, <1>4, <1>5, <1>6

\* What the starts of backups end with.
LEMMA StartEndings ==
    ASSUME NEW of \in Starts, NEW how \in SUBSET Either
    PROVE  /\ of \in LoggedApart =>
                /\ Follows(of, <<Commit, Dispatch, NeedQueued(how), Audit, Answer>>)
                /\ Follows(of, <<Commit, Dispatch, Audit, NeedQueued(how), Answer>>)
                /\ Follows(of, <<Commit, Dispatch, NeedQueued(how), Commit, AuditApart, Answer>>)
           /\ of \in Unlogged => Follows(of, <<Commit, Dispatch, NeedQueued(how), Answer>>)
           /\ "return" \notin how => Follows(of, <<Audit, Commit, Dispatch, NeedQueued(how), Answer>>)
<1> PICK q \in StepSet : q = NeedQueued(how) /\ q.do = "queued" /\ q.how = how
  BY StepFacts, Hows
<1> of \in RefusedLate
  BY DEF RefusedLate
<1> USE StepFacts DEF Follows, Past, Some, After
<1>1. ASSUME of \in LoggedApart
      PROVE  Follows(of, <<Commit, Dispatch, q, Audit, Answer>>)
  BY <1>1
<1>2. ASSUME of \in LoggedApart
      PROVE  Follows(of, <<Commit, Dispatch, Audit, q, Answer>>)
  BY <1>2
<1>3. ASSUME of \in LoggedApart
      PROVE  Follows(of, <<Commit, Dispatch, q, Commit, AuditApart, Answer>>)
  BY <1>3
<1>4. ASSUME of \in Unlogged
      PROVE  Follows(of, <<Commit, Dispatch, q, Answer>>)
  BY <1>4
<1>5. ASSUME "return" \notin how
      PROVE  Follows(of, <<Audit, Commit, Dispatch, q, Answer>>)
  BY <1>5
<1> HIDE StepFacts DEF Follows, Past, Some, After
<1> QED
  BY <1>1, <1>2, <1>3, <1>4, <1>5

\* A check, the work, and any ending.
LEMMA Checked ==
    ASSUME NEW of, NEW body, Work(of, body), NEW tail, Follows(of, tail), NEW how \in SUBSET Either
    PROVE  HasPlace(Handler(of, <<Check(how)>> \o body \o tail))
<1>1. body \in Seq(StepSet) /\ tail \in Seq(StepSet)
  BY DEF Work, Leads, Follows
<1>2. how \in SUBSET Refusals /\ how \subseteq Either
  BY Hows
<1>3. PICK c \in StepSet : c = Check(how) /\ c.do = "check" /\ c.how \subseteq Either
  BY <1>2, StepFacts
<1> DEFINE steps == <<c>> \o body \o tail
<1>4. /\ steps \in Seq(StepSet) /\ Len(steps) = 1 + Len(body) + Len(tail) /\ steps[1] = c
      /\ \A i \in 1..Len(body) : steps[i + 1] = body[i]
      /\ \A i \in 1..Len(tail) : steps[1 + Len(body) + i] = tail[i]
  BY <1>1
<1> HIDE DEF steps
<1>5. HasPlace(Handler(of, steps))
  BY <1>3, <1>4, Wrapped
<1> QED
  BY <1>3, <1>5 DEF steps

\* The handlers that are composed in the same ways.
LEMMA Forms ==
    ASSUME NEW of, NEW body, Work(of, body)
    PROVE  /\ HasPlace(Handler(of, Form(body))) /\ HasPlace(Handler(of, Rescheduled(body)))
           /\ HasPlace(Handler(of, <<Check(Return)>> \o body \o <<Audit, Answer>>))
           /\ of \in Unlogged => HasPlace(Handler(of, Api(body)))
           /\ of \in EarlyWakers => HasPlace(Handler(of, Watched(body)))
<1>1. Raise \in SUBSET Either /\ Return \in SUBSET Either
  BY DEF Either
<1> QED
  BY <1>1, Checked, Endings DEF Form, Rescheduled, Api, Watched

\* The bodies that several handlers share.
LEMMA Bodies ==
    ASSUME NEW of, NEW how \in SUBSET Either, NEW how2 \in SUBSET Either
    PROVE  /\ Work(of, <<Write>>) /\ Work(of, <<Check(how), Write>>) /\ Work(of, <<Find(how), Write>>)
           /\ Work(of, <<Find(how), Check(how), Write>>) /\ Work(of, <<Check(how), Write, Conflict(how2)>>)
           /\ Work(of, <<Check(how), InsertOnce(how)>>) /\ Work(of, <<Check(how), Find(how), InsertOnce(how2)>>)
           /\ of \in Unguarded => Work(of, <<Insert>>) /\ Work(of, <<Check(how), Flip>>)
              /\ Work(of, <<Check(how), Insert>>)
           /\ of \in LookFirst => /\ Work(of, <<Find(how), Insert>>)
                                     /\ Work(of, <<Find(how), Check(how), Insert>>)
                                  /\ Work(of, <<Check(how), Find(how), Insert>>)
<1>1. /\ Check(how) \in StepSet /\ Before(of, Check(how)) /\ Find(how) \in StepSet /\ Before(of, Find(how))
      /\ Find(how).do = "find"
      /\ InsertOnce(how) \in StepSet /\ Repeatable(of, InsertOnce(how))
      /\ InsertOnce(how2) \in StepSet /\ Repeatable(of, InsertOnce(how2))
      /\ Conflict(how2) \in StepSet /\ Conflict(how2).do = "conflict" /\ Conflict(how2).how \subseteq Either
  <2>1. ASSUME NEW way \in SUBSET Either
        PROVE  /\ Check(way) \in StepSet /\ Before(of, Check(way)) /\ Find(way) \in StepSet
                  /\ Before(of, Find(way))
               /\ Find(way).do = "find" /\ InsertOnce(way) \in StepSet /\ Repeatable(of, InsertOnce(way))
               /\ Conflict(way) \in StepSet /\ Conflict(way).do = "conflict"
                  /\ Conflict(way).how \subseteq Either
    <3>1. way \in SUBSET Refusals /\ way \subseteq Either
      BY Hows
    <3> QED
      BY <3>1, StepFacts DEF Before, Repeatable
  <2> QED
    BY <2>1
<1>2. /\ Write \in StepSet /\ Repeatable(of, Write) /\ Insert \in StepSet /\ Flip \in StepSet
      /\ of \in Unguarded => Repeatable(of, Insert) /\ Repeatable(of, Flip)
  BY StepFacts DEF Repeatable, Writing, Cumulative
<1>3. Work(of, <<Write>>) /\ (of \in Unguarded => Work(of, <<Insert>>))
  BY <1>2, OneStep
<1>4. /\ Work(of, <<Check(how), Write>>) /\ Work(of, <<Find(how), Write>>)
         /\ Work(of, <<Check(how), InsertOnce(how)>>)
      /\ of \in Unguarded => Work(of, <<Check(how), Flip>>) /\ Work(of, <<Check(how), Insert>>)
      /\ of \in LookFirst => Work(of, <<Find(how), Insert>>)
  BY <1>1, <1>2, TwoSteps
<1>5. /\ Work(of, <<Find(how), Check(how), Write>>) /\ Work(of, <<Check(how), Find(how), InsertOnce(how2)>>)
      /\ of \in LookFirst => Work(of, <<Find(how), Check(how), Insert>>)
         /\ Work(of, <<Check(how), Find(how), Insert>>)
  BY <1>1, <1>2, ThreeSteps
<1>6. Work(of, <<Check(how), Write, Conflict(how2)>>)
  BY <1>1, <1>2, ConflictSteps
<1> QED
  BY <1>3, <1>4, <1>5, <1>6

\* The bodies that find nothing left to do, or go on without the next step.
LEMMA OddBodies ==
    ASSUME NEW how \in SUBSET Either
    PROVE  /\ Work("update_group", <<Check(how), Half, Check(how), Write>>)
           /\ "return" \notin how => Work("update_group_api", <<Check(how), Half, Check(how), Write>>)
           /\ \A of : of \notin LoggedApart => /\ Work(of, <<Find(Skip), Write>>)
                                                  /\ Work(of, <<Check(how), Find(Skip), Write>>)
                                               /\ Work(of, <<Check(how), Find(Skip), Write, Conflict(Raise)>>)
           /\ \A of : Work(of, <<Check(how), Find(Anyway), Write>>)
           /\ \A row \in {<<Find(Skip), Insert>>, <<Find(Anyway), Insert>>, <<Write>>} :
                 Work("import_credentials_csv", <<Check(Return)>> \o row)
<1>1. /\ Check(how) \in StepSet /\ Check(how).do = "check" /\ Check(how).how \subseteq Either
      /\ Write \in StepSet /\ Half \in StepSet /\ Insert \in StepSet /\ \A of : Repeatable(of, Write)
  BY StepFacts, Hows DEF Repeatable
<1>2. Check(how).how = how
  BY StepFacts, Hows
<1>3. ASSUME NEW way \in {Skip, Anyway}
      PROVE  Find(way) \in StepSet /\ Find(way).do = "find" /\ Find(way).how = way
  BY StepFacts DEF Refusals
<1>4. /\ Conflict(Raise) \in StepSet /\ Conflict(Raise).do = "conflict" /\ Conflict(Raise).how \subseteq Either
      /\ Check(Return) \in StepSet /\ Check(Return).do = "check" /\ Check(Return).how \subseteq Either
  BY StepFacts DEF Refusals, Either
<1>5. ASSUME NEW of \in {"update_group", "update_group_api"}, of = "update_group" \/ "return" \notin how
      PROVE  Work(of, <<Check(how), Half, Check(how), Write>>)
  <2>1. Leads(of, <<Check(how), Half, Check(how), Write>>, 4)
    <3> DEFINE body == <<Check(how), Half, Check(how), Write>>
    <3>1. /\ body \in Seq(StepSet) /\ Len(body) >= 4 /\ body[1] = Check(how) /\ body[2] = Half
             /\ body[3] = Check(how)
          /\ body[4] = Write /\ Before(of, Check(how))
      BY <1>1 DEF Before
    <3> HIDE DEF body
    <3>2. Leads(of, body, 4)
      BY <1>1, <1>5, <1>2, <3>1, HalfSteps
    <3> QED
      BY <3>2 DEF body
  <2> QED
    BY <2>1 DEF Work
<1>6. ASSUME NEW of, of \notin LoggedApart
      PROVE  /\ Work(of, <<Find(Skip), Write>>) /\ Work(of, <<Check(how), Find(Skip), Write>>)
             /\ Work(of, <<Check(how), Find(Skip), Write, Conflict(Raise)>>)
  <2>1. Leads(of, <<Find(Skip), Write>>, 2)
    BY <1>1, <1>3, <1>6, StepFacts DEF Leads, Writing, Cumulative, Skip
  <2>2. Leads(of, <<Check(how), Find(Skip), Write>>, 3)
    BY <1>1, <1>3, <1>6, StepFacts DEF Leads, Writing, Cumulative, Skip, Either, Raise, Return
  <2>3. Leads(of, <<Check(how), Find(Skip), Write, Conflict(Raise)>>, 3)
    BY <1>1, <1>3, <1>4, <1>6, StepFacts DEF Leads, Writing, Cumulative, Skip, Either, Raise, Return
  <2> QED
    BY <1>4, <2>1, <2>2, <2>3 DEF Work
<1>7. ASSUME NEW of
      PROVE  Work(of, <<Check(how), Find(Anyway), Write>>)
  <2>1. Leads(of, <<Check(how), Find(Anyway), Write>>, 3)
    BY <1>1, <1>3, StepFacts DEF Leads, Writing, Cumulative, Anyway, Either, Raise, Return
  <2> QED
    BY <2>1 DEF Work
<1>8. ASSUME NEW way \in {Skip, Anyway}
      PROVE  Work("import_credentials_csv", <<Check(Return)>> \o <<Find(way), Insert>>)
  <2> DEFINE body == <<Check(Return)>> \o <<Find(way), Insert>>
  <2>1. /\ body \in Seq(StepSet) /\ Len(body) = 3 /\ body[1] = Check(Return) /\ body[2] = Find(way)
           /\ body[3] = Insert
    BY <1>1, <1>3, <1>4
  <2> HIDE DEF body
  <2>2. Len(body) >= 3 /\ "import_credentials_csv" \in LookFirst
    BY <2>1 DEF LookFirst
  <2>3. Leads("import_credentials_csv", body, 3)
    BY <1>1, <1>3, <1>4, <2>1, <2>2, RowSteps
  <2>4. Work("import_credentials_csv", body)
    BY <2>1, <2>3 DEF Work
  <2> QED
    BY <2>4 DEF body
<1>9. Work("import_credentials_csv", <<Check(Return)>> \o <<Write>>)
  <2> DEFINE body == <<Check(Return)>> \o <<Write>>
  <2>1. body \in Seq(StepSet) /\ Len(body) = 2 /\ body[1] = Check(Return) /\ body[2] = Write
    BY <1>1, <1>4
  <2> HIDE DEF body
  <2>2. Leads("import_credentials_csv", body, 2)
    BY <1>4, <2>1, StepFacts DEF Leads, Writing, Cumulative, Either, Raise, Return
  <2>3. Work("import_credentials_csv", body)
    BY <2>1, <2>2 DEF Work
  <2> QED
    BY <2>3 DEF body
<1> QED
  BY <1>5, <1>6, <1>7, <1>8, <1>9

\* The handlers that only compose what the services do.
LEMMA PlainPlaces ==
    \A h \in UNION {CredentialForms, GroupDeletion, TemplateForms, DeviceForms, DeviceUpdate,
                  ScheduleForms, ScheduleToggle, BackupDeletion, StorageForm, ChannelForm,
                  ChannelButtons, NotificationTemplateForms, PolicyForms, RoleForms} : HasPlace(h)
<1>1. /\ Raise \in SUBSET Either /\ Return \in SUBSET Either /\ Either \in SUBSET Either
  BY DEF Either
<1>2. \A h \in CredentialForms : HasPlace(h)
  BY <1>1, Bodies, Forms DEF CredentialForms, Credentials, LookFirst
<1>3. \A h \in GroupDeletion : HasPlace(h)
  BY <1>1, Bodies, Forms DEF GroupDeletion, Groups
<1>4. \A h \in TemplateForms : HasPlace(h)
  BY <1>1, Bodies, Forms DEF TemplateForms, Templates, Unguarded
<1>5. \A h \in DeviceForms : HasPlace(h)
  BY <1>1, Bodies, Forms DEF DeviceForms, Devices, EarlyWakers
<1>6. \A h \in DeviceUpdate : HasPlace(h)
  BY <1>1, Bodies, Forms DEF DeviceUpdate, Devices, EarlyWakers
<1>7. \A h \in ScheduleForms : HasPlace(h)
  BY <1>1, Bodies, Forms DEF ScheduleForms, Schedules, LookFirst
<1>8. \A h \in ScheduleToggle : HasPlace(h)
  BY <1>1, Bodies, Checked, Endings DEF ScheduleToggle, Schedules, Unguarded
<1>9. \A h \in BackupDeletion : HasPlace(h)
  BY <1>1, Bodies, Forms DEF BackupDeletion, RemoveBackup
<1>10. \A h \in StorageForm : HasPlace(h)
  BY <1>1, Bodies, Forms DEF StorageForm, SaveSettings
<1>11. \A h \in ChannelForm : HasPlace(h)
  BY <1>1, Bodies, Forms DEF ChannelForm, NotificationChannels
<1>12. \A h \in ChannelButtons : HasPlace(h)
  BY <1>1, Bodies, Forms DEF ChannelButtons, Switched, DeletedChannel
<1>13. \A h \in NotificationTemplateForms : HasPlace(h)
  BY <1>1, Bodies, Forms DEF NotificationTemplateForms, NotificationTemplates, Switched
<1>14. \A h \in PolicyForms : HasPlace(h)
  BY <1>1, Bodies, Forms DEF PolicyForms, NotificationPolicies, Switched, DeletedPolicy
<1>15. \A h \in RoleForms : HasPlace(h)
  BY <1>1, Bodies, Forms DEF RoleForms, Roles
<1> QED
  BY <1>2, <1>3, <1>4, <1>5, <1>6, <1>7, <1>8, <1>9, <1>10, <1>11, <1>12, <1>13, <1>14, <1>15

\* The handlers with a body of their own.
LEMMA OddPlaces ==
    \A h \in UNION {DeviceFile, CredentialFile, GroupForms, DeviceSelections, ApiKeyForms, UserForms, DiffRules,
                    Terminations, SocketTerminations} : HasPlace(h)
<1>1. /\ Raise \in SUBSET Either /\ Return \in SUBSET Either /\ Either \in SUBSET Either
  BY DEF Either
<1>2. \A h \in DeviceFile : HasPlace(h)
  BY ImportSteps, Forms DEF DeviceFile, EarlyWakers
<1>3. \A h \in CredentialFile : HasPlace(h)
  BY OddBodies, Forms DEF CredentialFile
<1>4. \A h \in GroupForms : HasPlace(h)
  BY <1>1, Bodies, OddBodies, Forms DEF GroupForms, Groups, LookFirst
<1>5. \A h \in DeviceSelections : HasPlace(h)
  BY <1>1, OddBodies, Forms DEF DeviceSelections, DeleteSeveral, SetSeveral, EarlyWakers, LoggedApart, Starts
<1>6. \A h \in ApiKeyForms : HasPlace(h)
  BY <1>1, Bodies, OddBodies, Forms DEF ApiKeyForms, NewKey, Unguarded, LoggedApart, Starts
<1>7. \A h \in UserForms : HasPlace(h)
  BY <1>1, Bodies, OddBodies, Forms DEF UserForms, Users, LookFirst
<1>8. \A h \in DiffRules : HasPlace(h)
  <2> DEFINE body == <<Check(Either)>> \o <<Write>>
  <2>0. Check(Either) \in StepSet /\ Write \in StepSet
    BY <1>1, StepFacts, Hows
  <2>1. body \in Seq(StepSet) /\ Len(body) = 2 /\ body[1] = Check(Either) /\ body[2] = Write
    BY <2>0
  <2> HIDE DEF body
  <2>2. Check(Either).do = "check" /\ Check(Either).how = Either
    BY <1>1, StepFacts, Hows
  <2>3. Leads("update_diff_rules", body, 2)
    BY <2>1, <2>2, StepFacts DEF Leads, Writing, Cumulative, Either, Raise, Return
  <2>4. Work("update_diff_rules", body)
    BY <2>1, <2>3 DEF Work
  <2>5. HasPlace(Handler("update_diff_rules", Form(body)))
    BY <2>4, Forms
  <2> QED
    BY <2>5 DEF body, DiffRules, SaveSettings
<1>9. \A h \in Terminations \cup SocketTerminations : HasPlace(h)
  BY <1>1, OddBodies, Checked, Endings DEF Terminations, SocketTerminations, Terminate, EarlyWakers, LoggedApart
<1> QED
  BY <1>2, <1>3, <1>4, <1>5, <1>6, <1>7, <1>8, <1>9

\* The handlers of the public API log nothing.
LEMMA ApiPlaces ==
    \A h \in PublicApi : HasPlace(h)
<1>1. Raise \in SUBSET Either
  BY DEF Either
<1>2. ASSUME NEW name, NEW steps, Handler(name, steps) \in PublicApi
      PROVE  name \in Unlogged
  BY <1>2 DEF Unlogged, Handler
<1>3. \A h \in CredentialApi : HasPlace(h)
  BY <1>1, <1>2, Bodies, Forms DEF PublicApi, CredentialApi, Credentials, LookFirst
<1>4. \A h \in DeviceApi : HasPlace(h)
  BY <1>1, <1>2, Bodies, Forms DEF PublicApi, DeviceApi, Devices
<1>5. \A h \in GroupApi : HasPlace(h)
  BY <1>1, <1>2, Bodies, OddBodies, Forms DEF PublicApi, GroupApi, Groups, LookFirst, Raise
<1>6. \A h \in TemplateApi : HasPlace(h)
  BY <1>1, <1>2, Bodies, Forms DEF PublicApi, TemplateApi, Templates, Unguarded
<1> QED
  BY <1>3, <1>4, <1>5, <1>6 DEF PublicApi

\* A check, two steps of work, and an ending.
LEMMA WrappedPair ==
    ASSUME NEW of, NEW a \in StepSet, NEW b \in StepSet, NEW c \in StepSet, NEW tail, Follows(of, tail),
           c.do = "check", c.how \subseteq Either, Work(of, <<a, b>>),
           NEW steps \in Seq(StepSet), Joins(steps, 3, tail),
           steps[1] = c, steps[2] = a, steps[3] = b
    PROVE  HasPlace(Handler(of, steps))
<1>1. PICK body : body = <<a, b>>
  OBVIOUS
<1>2. Work(of, body) /\ Len(body) = 2
  BY <1>1
<1>3. Len(tail) \in Nat
  BY DEF Follows
<1>4. Len(steps) = 1 + Len(body) + Len(tail)
  BY <1>2, <1>3 DEF Joins
<1>5. \A i \in 1..Len(body) : steps[i + 1] = body[i]
  BY <1>1
<1>6. \A i \in 1..Len(tail) : steps[1 + Len(body) + i] = tail[i]
  BY <1>2 DEF Joins
<1>7. Work(of, body)
  BY <1>2
<1> QED
  BY <1>4, <1>5, <1>6, <1>7, Wrapped

\* A check, a write, and an ending.
LEMMA WrappedOne ==
    ASSUME NEW of, NEW b \in StepSet, NEW c \in StepSet, NEW tail, Follows(of, tail),
           c.do = "check", c.how \subseteq Either, Work(of, <<b>>),
           NEW steps \in Seq(StepSet), Joins(steps, 2, tail),
           steps[1] = c, steps[2] = b
    PROVE  HasPlace(Handler(of, steps))
<1>1. PICK body : body = <<b>>
  OBVIOUS
<1>2. Work(of, body) /\ Len(body) = 1
  BY <1>1
<1>3. Len(tail) \in Nat
  BY DEF Follows
<1>4. Len(steps) = 1 + Len(body) + Len(tail)
  BY <1>2, <1>3 DEF Joins
<1>5. \A i \in 1..Len(body) : steps[i + 1] = body[i]
  BY <1>1
<1>6. \A i \in 1..Len(tail) : steps[1 + Len(body) + i] = tail[i]
  BY <1>2 DEF Joins
<1>7. Work(of, body)
  BY <1>2
<1> QED
  BY <1>4, <1>5, <1>6, <1>7, Wrapped

\* A start checks twice, and makes its rows.
LEMMA Started ==
    ASSUME NEW of \in Unguarded, NEW how \in {Raise, Return}, NEW tail, Follows(of, tail),
           NEW steps \in Seq(StepSet), Joins(steps, 3, tail),
           steps[1] = Check(Raise), steps[2] = Check(how), steps[3] = Insert
    PROVE  HasPlace(Handler(of, steps))
<1>1. how \in SUBSET Either /\ Raise \in SUBSET Either
  BY DEF Either
<1>2. ASSUME NEW way \in SUBSET Either
      PROVE  Check(way) \in StepSet /\ Check(way).do = "check" /\ Check(way).how \subseteq Either
  <2>1. way \in SUBSET Refusals /\ way \subseteq Either
    BY Hows
  <2> QED
    BY <2>1, StepFacts
<1>3. Work(of, <<Check(how), Insert>>) /\ Insert \in StepSet
  BY <1>1, Bodies, StepFacts
<1> QED
  BY <1>1, <1>2, <1>3, WrappedPair

\* The handlers that are written out, and those that publish tasks.
LEMMA OwnPlaces ==
    \A h \in UNION {LegacySchedule, Profile, SettingsForm, ScheduleStart, Retries, SocketRetries, BackupStarts,
                    BackupForm, BackupSelection} : HasPlace(h)
<1>1. /\ Raise \in SUBSET Either /\ Return \in SUBSET Either /\ Either \in SUBSET Either
         /\ "return" \notin Raise
  BY DEF Either, Raise, Return
<1>2. ASSUME NEW how \in SUBSET Either
      PROVE  /\ Check(how) \in StepSet /\ Check(how).do = "check" /\ Check(how).how \subseteq Either
             /\ NeedQueued(how) \in StepSet /\ Find(how) \in StepSet
  <2>1. how \in SUBSET Refusals /\ how \subseteq Either
    BY Hows
  <2> QED
    BY <2>1, StepFacts
<1>3. HasPlace(Handler("api_run_schedule",
                       <<Check(Raise), Check(Return), Insert, Audit>> \o Enqueue \o <<NeedQueued(Raise), Answer>>))
  <2>1. Follows("api_run_schedule", <<Audit, Commit, Dispatch, NeedQueued(Raise), Answer>>)
    BY <1>1, StartEndings DEF Starts, LoggedApart, Unlogged
  <2>2. "api_run_schedule" \in Unguarded
    BY DEF Unguarded, Starts
  <2>3. PICK steps : steps = <<Check(Raise), Check(Return), Insert, Audit>> \o Enqueue
                             \o <<NeedQueued(Raise), Answer>>
    OBVIOUS
  <2>4. PICK tail : tail = <<Audit, Commit, Dispatch, NeedQueued(Raise), Answer>>
    OBVIOUS
  <2>5. /\ steps \in Seq(StepSet) /\ Len(steps) = 8 /\ Len(tail) = 5
        /\ steps[1] = Check(Raise) /\ steps[2] = Check(Return) /\ steps[3] = Insert
        /\ \A i \in 1..5 : steps[3 + i] = tail[i]
    BY <1>1, <1>2, <2>3, <2>4, StepFacts DEF Enqueue, RetryRun, StartOne, StartSeveral
  <2>6. Follows("api_run_schedule", tail) /\ Joins(steps, 3, tail)
    BY <2>1, <2>4, <2>5 DEF Joins
  <2>7. HasPlace(Handler("api_run_schedule", steps))
    BY <1>1, <2>2, <2>5, <2>6, Started
  <2> QED
    BY <2>3, <2>7
<1>4. HasPlace(Handler("api_retry_schedule_run", <<Check(Raise)>> \o RetryRun(Raise) \o <<Audit, Answer>>))
  <2>1. Follows("api_retry_schedule_run", <<Commit, Dispatch, NeedQueued(Raise), Audit, Answer>>)
    BY <1>1, StartEndings DEF Starts, LoggedApart, Unlogged
  <2>2. "api_retry_schedule_run" \in Unguarded
    BY DEF Unguarded, Starts
  <2>3. PICK steps : steps = <<Check(Raise)>> \o RetryRun(Raise) \o <<Audit, Answer>>
    OBVIOUS
  <2>4. PICK tail : tail = <<Commit, Dispatch, NeedQueued(Raise), Audit, Answer>>
    OBVIOUS
  <2>5. /\ steps \in Seq(StepSet) /\ Len(steps) = 8 /\ Len(tail) = 5
        /\ steps[1] = Check(Raise) /\ steps[2] = Check(Raise) /\ steps[3] = Insert
        /\ \A i \in 1..5 : steps[3 + i] = tail[i]
    BY <1>1, <1>2, <2>3, <2>4, StepFacts DEF Enqueue, RetryRun, StartOne, StartSeveral
  <2>6. Follows("api_retry_schedule_run", tail) /\ Joins(steps, 3, tail)
    BY <2>1, <2>4, <2>5 DEF Joins
  <2>7. HasPlace(Handler("api_retry_schedule_run", steps))
    BY <1>1, <2>2, <2>5, <2>6, Started
  <2> QED
    BY <2>3, <2>7
<1>5. HasPlace(Handler("ws_retry_run", <<Check(Raise)>> \o RetryRun(Raise) \o <<Commit, AuditApart, Answer>>))
  <2>1. Follows("ws_retry_run", <<Commit, Dispatch, NeedQueued(Raise), Commit, AuditApart, Answer>>)
    BY <1>1, StartEndings DEF Starts, LoggedApart, Unlogged
  <2>2. "ws_retry_run" \in Unguarded
    BY DEF Unguarded, Starts
  <2>3. PICK steps : steps = <<Check(Raise)>> \o RetryRun(Raise) \o <<Commit, AuditApart, Answer>>
    OBVIOUS
  <2>4. PICK tail : tail = <<Commit, Dispatch, NeedQueued(Raise), Commit, AuditApart, Answer>>
    OBVIOUS
  <2>5. /\ steps \in Seq(StepSet) /\ Len(steps) = 9 /\ Len(tail) = 6
        /\ steps[1] = Check(Raise) /\ steps[2] = Check(Raise) /\ steps[3] = Insert
        /\ \A i \in 1..6 : steps[3 + i] = tail[i]
    BY <1>1, <1>2, <2>3, <2>4, StepFacts DEF Enqueue, RetryRun, StartOne, StartSeveral
  <2>6. Follows("ws_retry_run", tail) /\ Joins(steps, 3, tail)
    BY <2>1, <2>4, <2>5 DEF Joins
  <2>7. HasPlace(Handler("ws_retry_run", steps))
    BY <1>1, <2>2, <2>5, <2>6, Started
  <2> QED
    BY <2>3, <2>7
<1>6. HasPlace(Handler("api_trigger_backup",
                       <<Check(Raise)>> \o StartOne(Raise) \o <<Audit, NeedQueued(Raise), Answer>>))
  <2>1. Follows("api_trigger_backup", <<Commit, Dispatch, Audit, NeedQueued(Raise), Answer>>)
    BY <1>1, StartEndings DEF Starts, LoggedApart, Unlogged
  <2>2. "api_trigger_backup" \in Unguarded
    BY DEF Unguarded, Starts
  <2>3. PICK steps : steps = <<Check(Raise)>> \o StartOne(Raise) \o <<Audit, NeedQueued(Raise), Answer>>
    OBVIOUS
  <2>4. PICK tail : tail = <<Commit, Dispatch, Audit, NeedQueued(Raise), Answer>>
    OBVIOUS
  <2>5. /\ steps \in Seq(StepSet) /\ Len(steps) = 8 /\ Len(tail) = 5
        /\ steps[1] = Check(Raise) /\ steps[2] = Check(Raise) /\ steps[3] = Insert
        /\ \A i \in 1..5 : steps[3 + i] = tail[i]
    BY <1>1, <1>2, <2>3, <2>4, StepFacts DEF Enqueue, RetryRun, StartOne, StartSeveral
  <2>6. Follows("api_trigger_backup", tail) /\ Joins(steps, 3, tail)
    BY <2>1, <2>4, <2>5 DEF Joins
  <2>7. HasPlace(Handler("api_trigger_backup", steps))
    BY <1>1, <2>2, <2>5, <2>6, Started
  <2> QED
    BY <2>3, <2>7
<1>7. HasPlace(Handler("api_bulk_backup",
                       <<Check(Raise), Check(Return)>> \o StartSeveral \o <<Audit, NeedQueued(Raise), Answer>>))
  <2>1. Follows("api_bulk_backup", <<Commit, Dispatch, Audit, NeedQueued(Raise), Answer>>)
    BY <1>1, StartEndings DEF Starts, LoggedApart, Unlogged
  <2>2. "api_bulk_backup" \in Unguarded
    BY DEF Unguarded, Starts
  <2>3. PICK steps : steps = <<Check(Raise), Check(Return)>> \o StartSeveral
                             \o <<Audit, NeedQueued(Raise), Answer>>
    OBVIOUS
  <2>4. PICK tail : tail = <<Commit, Dispatch, Audit, NeedQueued(Raise), Answer>>
    OBVIOUS
  <2>5. /\ steps \in Seq(StepSet) /\ Len(steps) = 8 /\ Len(tail) = 5
        /\ steps[1] = Check(Raise) /\ steps[2] = Check(Return) /\ steps[3] = Insert
        /\ \A i \in 1..5 : steps[3 + i] = tail[i]
    BY <1>1, <1>2, <2>3, <2>4, StepFacts DEF Enqueue, RetryRun, StartOne, StartSeveral
  <2>6. Follows("api_bulk_backup", tail) /\ Joins(steps, 3, tail)
    BY <2>1, <2>4, <2>5 DEF Joins
  <2>7. HasPlace(Handler("api_bulk_backup", steps))
    BY <1>1, <2>2, <2>5, <2>6, Started
  <2> QED
    BY <2>3, <2>7
<1>8. HasPlace(Handler("trigger_backup",
                       <<Check(Raise)>> \o StartOne(Raise) \o <<Audit, NeedQueued(Return), Answer>>))
  <2>1. Follows("trigger_backup", <<Commit, Dispatch, Audit, NeedQueued(Return), Answer>>)
    BY <1>1, StartEndings DEF Starts, LoggedApart, Unlogged
  <2>2. "trigger_backup" \in Unguarded
    BY DEF Unguarded, Starts
  <2>3. PICK steps : steps = <<Check(Raise)>> \o StartOne(Raise) \o <<Audit, NeedQueued(Return), Answer>>
    OBVIOUS
  <2>4. PICK tail : tail = <<Commit, Dispatch, Audit, NeedQueued(Return), Answer>>
    OBVIOUS
  <2>5. /\ steps \in Seq(StepSet) /\ Len(steps) = 8 /\ Len(tail) = 5
        /\ steps[1] = Check(Raise) /\ steps[2] = Check(Raise) /\ steps[3] = Insert
        /\ \A i \in 1..5 : steps[3 + i] = tail[i]
    BY <1>1, <1>2, <2>3, <2>4, StepFacts DEF Enqueue, RetryRun, StartOne, StartSeveral
  <2>6. Follows("trigger_backup", tail) /\ Joins(steps, 3, tail)
    BY <2>1, <2>4, <2>5 DEF Joins
  <2>7. HasPlace(Handler("trigger_backup", steps))
    BY <1>1, <2>2, <2>5, <2>6, Started
  <2> QED
    BY <2>3, <2>7
<1>9. HasPlace(Handler("bulk_backup",
                       <<Check(Raise), Check(Return)>> \o StartSeveral \o <<NeedQueued(Return), Answer>>))
  <2>1. Follows("bulk_backup", <<Commit, Dispatch, NeedQueued(Return), Answer>>)
    BY <1>1, StartEndings DEF Starts, LoggedApart, Unlogged
  <2>2. "bulk_backup" \in Unguarded
    BY DEF Unguarded, Starts
  <2>3. PICK steps : steps = <<Check(Raise), Check(Return)>> \o StartSeveral \o <<NeedQueued(Return), Answer>>
    OBVIOUS
  <2>4. PICK tail : tail = <<Commit, Dispatch, NeedQueued(Return), Answer>>
    OBVIOUS
  <2>5. /\ steps \in Seq(StepSet) /\ Len(steps) = 7 /\ Len(tail) = 4
        /\ steps[1] = Check(Raise) /\ steps[2] = Check(Return) /\ steps[3] = Insert
        /\ \A i \in 1..4 : steps[3 + i] = tail[i]
    BY <1>1, <1>2, <2>3, <2>4, StepFacts DEF Enqueue, RetryRun, StartOne, StartSeveral
  <2>6. Follows("bulk_backup", tail) /\ Joins(steps, 3, tail)
    BY <2>1, <2>4, <2>5 DEF Joins
  <2>7. HasPlace(Handler("bulk_backup", steps))
    BY <1>1, <2>2, <2>5, <2>6, Started
  <2> QED
    BY <2>3, <2>7
<1>10. /\ Find(Anyway) \in StepSet /\ Find(Anyway).do = "find" /\ Find(Anyway).how = Anyway
       /\ Insert \in StepSet /\ Write \in StepSet /\ Answer \in StepSet
  BY StepFacts DEF Refusals
<1>11. HasPlace(Handler("legacy_update_schedule",
                        <<Check(Raise), Find(Anyway), Insert, Commit, Reload, Answer>>))
  <2>1. Follows("legacy_update_schedule", <<Commit, Reload, Answer>>)
    BY Endings DEF Unlogged
  <2>2. Work("legacy_update_schedule", <<Find(Anyway), Insert>>)
    <3>1. Leads("legacy_update_schedule", <<Find(Anyway), Insert>>, 2)
      BY <1>10, StepFacts DEF Leads, Writing, Cumulative, LookFirst, Unlogged, RefusedLate, Starts, LoggedApart, Anyway
    <3> QED
      BY <3>1 DEF Work
  <2>3. PICK steps : steps = <<Check(Raise), Find(Anyway), Insert, Commit, Reload, Answer>>
    OBVIOUS
  <2>4. PICK tail : tail = <<Commit, Reload, Answer>>
    OBVIOUS
  <2>5. /\ steps \in Seq(StepSet) /\ Len(steps) = 6 /\ Len(tail) = 3
        /\ steps[1] = Check(Raise) /\ steps[2] = Find(Anyway) /\ steps[3] = Insert
        /\ \A i \in 1..3 : steps[3 + i] = tail[i]
    BY <1>1, <1>2, <1>10, <2>3, <2>4, StepFacts DEF Form, SaveSettings
  <2>6. Follows("legacy_update_schedule", tail) /\ Joins(steps, 3, tail)
    BY <2>1, <2>4, <2>5 DEF Joins
  <2>7. PICK c, a, b : c = Check(Raise) /\ a = Find(Anyway) /\ b = Insert
    OBVIOUS
  <2>8. /\ c.do = "check" /\ c.how \subseteq Either /\ Work("legacy_update_schedule", <<a, b>>)
        /\ c \in StepSet /\ a \in StepSet /\ b \in StepSet /\ steps[1] = c /\ steps[2] = a /\ steps[3] = b
    BY <1>1, <1>2, <1>10, <2>2, <2>5, <2>7
  <2>9. steps \in Seq(StepSet)
    BY <2>5
  <2>10. HasPlace(Handler("legacy_update_schedule", steps))
    BY <2>6, <2>8, <2>9, WrappedPair
  <2> QED
    BY <2>3, <2>10
<1>12. HasPlace(Handler("profile_update_locale", <<Check(Either), Write, Answer>>))
  <2>1. Follows("profile_update_locale", <<Answer>>)
    BY Endings DEF Unlogged
  <2>2. Work("profile_update_locale", <<Write>>)
    BY <1>1, Bodies
  <2>3. PICK steps : steps = <<Check(Either), Write, Answer>>
    OBVIOUS
  <2>4. PICK tail : tail = <<Answer>>
    OBVIOUS
  <2>5. /\ steps \in Seq(StepSet) /\ Len(steps) = 3 /\ Len(tail) = 1
        /\ steps[1] = Check(Either) /\ steps[2] = Write
        /\ \A i \in 1..1 : steps[2 + i] = tail[i]
    BY <1>1, <1>2, <1>10, <2>3, <2>4, StepFacts DEF Form, SaveSettings
  <2>6. Follows("profile_update_locale", tail) /\ Joins(steps, 2, tail)
    BY <2>1, <2>4, <2>5 DEF Joins
  <2>7. PICK c, b : c = Check(Either) /\ b = Write
    OBVIOUS
  <2>8. /\ c.do = "check" /\ c.how \subseteq Either /\ Work("profile_update_locale", <<b>>)
        /\ c \in StepSet /\ b \in StepSet /\ steps[1] = c /\ steps[2] = b
    BY <1>1, <1>2, <1>10, <2>2, <2>5, <2>7
  <2>9. steps \in Seq(StepSet)
    BY <2>5
  <2>10. HasPlace(Handler("profile_update_locale", steps))
    BY <2>6, <2>8, <2>9, WrappedOne
  <2> QED
    BY <2>3, <2>10
<1>13. HasPlace(Handler("profile_change_password", <<Check(Either), Find(Return), Write, Audit, Answer>>))
  <2>1. Follows("profile_change_password", <<Audit, Answer>>)
    BY Endings DEF Unlogged
  <2>2. Work("profile_change_password", <<Find(Return), Write>>)
    BY <1>1, Bodies
  <2>3. PICK steps : steps = <<Check(Either), Find(Return), Write, Audit, Answer>>
    OBVIOUS
  <2>4. PICK tail : tail = <<Audit, Answer>>
    OBVIOUS
  <2>5. /\ steps \in Seq(StepSet) /\ Len(steps) = 5 /\ Len(tail) = 2
        /\ steps[1] = Check(Either) /\ steps[2] = Find(Return) /\ steps[3] = Write
        /\ \A i \in 1..2 : steps[3 + i] = tail[i]
    BY <1>1, <1>2, <1>10, <2>3, <2>4, StepFacts DEF Form, SaveSettings
  <2>6. Follows("profile_change_password", tail) /\ Joins(steps, 3, tail)
    BY <2>1, <2>4, <2>5 DEF Joins
  <2>7. PICK c, a, b : c = Check(Either) /\ a = Find(Return) /\ b = Write
    OBVIOUS
  <2>8. /\ c.do = "check" /\ c.how \subseteq Either /\ Work("profile_change_password", <<a, b>>)
        /\ c \in StepSet /\ a \in StepSet /\ b \in StepSet /\ steps[1] = c /\ steps[2] = a /\ steps[3] = b
    BY <1>1, <1>2, <1>10, <2>2, <2>5, <2>7
  <2>9. steps \in Seq(StepSet)
    BY <2>5
  <2>10. HasPlace(Handler("profile_change_password", steps))
    BY <2>6, <2>8, <2>9, WrappedPair
  <2> QED
    BY <2>3, <2>10
<1>14. HasPlace(Handler("update_settings", Form(<<Write>>) \o <<Reload>>))
  <2>1. Follows("update_settings", <<Audit, Answer, Reload>>)
    BY Endings DEF EarlyWakers
  <2>2. Work("update_settings", <<Write>>)
    BY <1>1, Bodies
  <2>3. PICK steps : steps = Form(<<Write>>) \o <<Reload>>
    OBVIOUS
  <2>4. PICK tail : tail = <<Audit, Answer, Reload>>
    OBVIOUS
  <2>5. /\ steps \in Seq(StepSet) /\ Len(steps) = 5 /\ Len(tail) = 3
        /\ steps[1] = Check(Raise) /\ steps[2] = Write
        /\ \A i \in 1..3 : steps[2 + i] = tail[i]
    BY <1>1, <1>2, <1>10, <2>3, <2>4, StepFacts DEF Form, SaveSettings
  <2>6. Follows("update_settings", tail) /\ Joins(steps, 2, tail)
    BY <2>1, <2>4, <2>5 DEF Joins
  <2>7. PICK c, b : c = Check(Raise) /\ b = Write
    OBVIOUS
  <2>8. /\ c.do = "check" /\ c.how \subseteq Either /\ Work("update_settings", <<b>>)
        /\ c \in StepSet /\ b \in StepSet /\ steps[1] = c /\ steps[2] = b
    BY <1>1, <1>2, <1>10, <2>2, <2>5, <2>7
  <2>9. steps \in Seq(StepSet)
    BY <2>5
  <2>10. HasPlace(Handler("update_settings", steps))
    BY <2>6, <2>8, <2>9, WrappedOne
  <2> QED
    BY <2>3, <2>10
<1>15. HasPlace(Handler("logout", <<Insert, Answer>>))
  <2>1. Follows("logout", <<Answer>>)
    BY Endings DEF Unlogged
  <2>2. Leads("logout", <<Insert, Answer>>, 1)
    BY <1>10, StepFacts DEF Leads, Writing, Cumulative, Unguarded
  <2>3. Joins(<<Insert, Answer>>, 1, <<Answer>>)
    BY DEF Joins
  <2>4. Regular(Handler("logout", <<Insert, Answer>>), 1)
    BY <2>1, <2>2, <2>3, Composed
  <2>5. 1 \in DOMAIN Handler("logout", <<Insert, Answer>>).does
    BY DEF Handler
  <2> QED
    BY <2>4, <2>5, Zenon DEF HasPlace
<1>16. \A h \in UNION {ScheduleStart, Retries, SocketRetries, BackupStarts, BackupForm, BackupSelection} :
       HasPlace(h)
  BY <1>3, <1>4, <1>5, <1>6, <1>7, <1>8, <1>9
     DEF ScheduleStart, Retries, SocketRetries, BackupStarts, BackupForm, BackupSelection
<1>17. \A h \in UNION {LegacySchedule, Profile, SettingsForm} : HasPlace(h)
  BY <1>11, <1>12, <1>13, <1>14, <1>15 DEF LegacySchedule, Profile, SettingsForm, SaveSettings
<1> QED
  BY <1>16, <1>17

\* Every handler of the application has its write where the proofs need it.
LEMMA AllPlaces == \A h \in App : HasPlace(h)
<1>1. ASSUME NEW h \in App
      PROVE  \/ h \in UNION {CredentialForms, GroupDeletion, TemplateForms, DeviceForms, DeviceUpdate,
                             ScheduleForms, ScheduleToggle, BackupDeletion, StorageForm, ChannelForm,
                             ChannelButtons, NotificationTemplateForms, PolicyForms, RoleForms}
             \/ h \in UNION {DeviceFile, CredentialFile, GroupForms, DeviceSelections, ApiKeyForms, UserForms,
                             DiffRules, Terminations, SocketTerminations}
             \/ h \in UNION {LegacySchedule, Profile, SettingsForm, ScheduleStart, Retries, SocketRetries,
                             BackupStarts, BackupForm, BackupSelection}
             \/ h \in PublicApi
  BY <1>1 DEF App
<1> QED
  BY <1>1, PlainPlaces, OddPlaces, OwnPlaces, ApiPlaces, Zenon

-----------------------------------------------------------------------------
(* The behaviours. *)

\* There are requests of an application's handler, or none.
NoRequestLeft ==
    /\ script.does = <<>> /\ faults = MaxFaults /\ db = [change |-> {}, half |-> {}, audit |-> {}]
    /\ \A r \in Request : req[r].phase = "over" /\ req[r].heard = "ok" /\ follower[r] = "none"

WebInv == HandlersInv \/ NoRequestLeft

\* At the start nothing is done and nothing is heard.
LEMMA HandlersStart ==
    ASSUME Scripts \subseteq App, HandlersInit
    PROVE  HandlersInv
<1>1. script \in App
  BY DEF HandlersInit
<1>2. PICK k \in DOMAIN script.does : Regular(script, k)
  BY <1>1, AllPlaces DEF HasPlace
<1>3. /\ req = [r \in Request |-> NotYet] /\ db = [change |-> {}, half |-> {}, audit |-> {}]
      /\ follower = [r \in Request |-> "none"]
  BY DEF HandlersInit
<1>4. NotYet \in Requests /\ NotYet.phase = "idle" /\ NotYet.open = {} /\ NotYet.heard = "waiting"
  BY DEF NotYet, Requests
<1>5. HandlerTypes
  <2>1. req \in [Request -> Requests] /\ follower \in [Request -> {"none", "told", "new", "old"}]
    BY <1>3, <1>4
  <2>2. db \in [Kinds -> SUBSET Request]
    BY <1>3 DEF Kinds
  <2> QED
    BY <2>1, <2>2 DEF HandlerTypes
<1>6. ASSUME NEW r \in Request
      PROVE  RequestInv(k, r) /\ ~Running(r) /\ ~Has(r)
  <2>1. req[r] = NotYet /\ Mine(r) = {} /\ follower[r] = "none" /\ db.change = {}
    BY <1>3 DEF Mine, Kinds
  <2>2. Flows(script, k, NotYet, {}, {})
    BY <1>4 DEF Flows
  <2>3. Heard(script, k, NotYet, {}, {})
    BY <1>4 DEF Heard
  <2>4. Logged(script, k, NotYet, {}, {})
    BY <1>4 DEF Logged
  <2>5. Begins(NotYet, {}, "none") /\ Followed(script, NotYet, {}, "none")
    BY <1>4 DEF Begins, Followed
  <2> QED
    BY <1>4, <2>1, <2>2, <2>3, <2>4, <2>5 DEF RequestInv, Sound, Knows, Running, Has
<1>7. OneChange(k)
  BY <1>6 DEF OneChange
<1> QED
  BY <1>2, <1>5, <1>6, <1>7 DEF HandlersInv, HandlerBody, Steps

\* Every move of the handlers keeps their invariant.
LEMMA HandlersMove ==
    ASSUME HandlersInv, HandlersNext
    PROVE  HandlersInv'
<1>1. PICK k \in DOMAIN Steps : HandlerBody(k)
  BY DEF HandlersInv
<1>2. HandlerBody(k)' /\ script' = script
  <2>1. CASE CrashWeb
    BY <1>1, <2>1, CrashStep DEF CrashWeb
  <2>2. ASSUME NEW r \in Request, Arrive(r) \/ GiveUp(r) \/ Does(r) \/ Follow(r)
        PROVE  HandlerBody(k)' /\ script' = script
    <3>1. CASE Arrive(r)
      BY <1>1, <3>1, ArriveStep DEF Arrive
    <3>2. CASE GiveUp(r)
      BY <1>1, <3>2, GiveUpStep DEF GiveUp
    <3>3. CASE Does(r)
      BY <1>1, <3>3, DoesStep DEF Does
    <3>4. CASE Follow(r)
      BY <1>1, <3>4, FollowStep DEF Follow
    <3> QED
      BY <2>2, <3>1, <3>2, <3>3, <3>4
  <2> QED
    BY <2>1, <2>2 DEF HandlersNext
<1> QED
  BY <1>1, <1>2 DEF HandlersInv, Steps

\* Requests that are all over do nothing more.
LEMMA NoRequestMoves ==
    ASSUME NoRequestLeft
    PROVE  ~HandlersNext
<1>1. ~CrashWeb
  BY HandlersAssumption DEF NoRequestLeft, CrashWeb, Doomed
<1>2. ASSUME NEW r \in Request
      PROVE  ~Arrive(r) /\ ~GiveUp(r) /\ ~Does(r) /\ ~Follow(r)
  <2>1. ~Running(r) /\ ~Returned(r) /\ \A what : ~Doing(r, what)
    BY DEF NoRequestLeft, Running, Returned, Doing
  <2>2. ~Does(r)
    BY <2>1 DEF Does, DoCheck, DoFind, DoInsert, DoInsertOnce, DoConflict, DoWrite, DoHalf, DoAudit,
       DoAuditApart,
                DoCommit, DoDispatch, DoNeedQueued, DoWake, DoHint, DoReload, DoAnswer, Close
  <2> QED
    BY <2>2 DEF NoRequestLeft, Arrive, GiveUp, Follow
<1> QED
  BY <1>1, <1>2 DEF HandlersNext

\* The invariant of the handlers, of whichever there are.
LEMMA HandlersHold ==
    ASSUME Scripts \subseteq App
    PROVE  DialoguesSpec => []WebInv
<1>1. DialoguesInit => WebInv
  <2>1. ASSUME NoRequest
        PROVE  NoRequestLeft
    BY <2>1 DEF NoRequest, NoRequestLeft, Handler, NotYet
  <2> QED
    BY <2>1, HandlersStart DEF DialoguesInit, WebInv
<1>2. WebInv /\ [DialoguesNext]_dialogueVars => WebInv'
  <2> SUFFICES ASSUME WebInv, [DialoguesNext]_dialogueVars
               PROVE  WebInv'
    OBVIOUS
  <2>1. CASE UNCHANGED handlerVars
    BY <2>1 DEF WebInv, HandlersInv, HandlerBody, NoRequestLeft, handlerVars, Steps, HandlerTypes, RequestInv,
                OneChange, Has, Running, Mine
  <2>2. CASE HandlersNext
    BY <2>2, HandlersMove, NoRequestMoves DEF WebInv
  <2> QED
    BY <2>1, <2>2 DEF DialoguesNext, dialogueVars
<1> QED
  BY <1>1, <1>2, PTL DEF DialoguesSpec

-----------------------------------------------------------------------------
(* What the handlers' clients, the log and the others may rely on. *)

\* The invariant holds what the properties promise.
LEMMA PromisesKept ==
    ASSUME HandlersInv
    PROVE  AnswersAreTrue /\ ChangesAreAudited /\ FollowersSee /\ RepeatsAreHarmless
<1>1. PICK k \in DOMAIN Steps : HandlerBody(k)
  BY DEF HandlersInv
<1>2. \A r \in Request : /\ Heard(script, k, req[r], Mine(r), db.change)
                         /\ Logged(script, k, req[r], Mine(r), db.change)
                         /\ Followed(script, req[r], db.change, follower[r])
  BY <1>1 DEF HandlerBody, RequestInv, Sound, Knows
<1>3. \A r \in Request : \A kind \in Kinds : kind \in Mine(r) <=> r \in db[kind]
  BY DEF Mine
<1>4. {"change", "half", "audit"} \subseteq Kinds
  BY DEF Kinds
<1>5. AnswersAreTrue
  BY <1>2, <1>3, <1>4 DEF AnswersAreTrue, Heard
<1>6. ChangesAreAudited
  <2>1. ASSUME NEW r \in Request, r \in db.audit
        PROVE  db.change # {} /\ (r \in db.change \/ GoesOnAnyway(script.does))
    BY <1>2, <1>3, <1>4, <2>1 DEF Logged
  <2>2. ASSUME NEW r \in Request, r \in db.change, script.of \notin Unlogged
        PROVE  r \in db.audit \/ (script.of \in LoggedApart
               /\ (req[r].phase # "over" \/ req[r].heard # "ok" \/ req[r].late))
    BY <1>2, <1>3, <1>4, <2>2 DEF Logged
  <2> QED
    BY <2>1, <2>2 DEF ChangesAreAudited
<1>7. FollowersSee
  BY <1>2 DEF FollowersSee, Followed
<1>8. RepeatsAreHarmless
  <2> SUFFICES ASSUME Adds(script.does), script.of \notin Unguarded, ~(together /\ script.of \in LookFirst)
               PROVE  ~(Cardinality(db.change) > 1)
    BY DEF RepeatsAreHarmless
  <2>1. PICK i \in DOMAIN script.does : script.does[i].do \in Cumulative
    BY DEF Adds, Some
  <2>2. Shape(script.does, k) /\ ByName(script.of, script.does, k) /\ OneChange(k) /\ HandlerTypes
    BY <1>1 DEF HandlerBody, Regular
  <2>3. i = k
    BY <2>1, <2>2, ShapeFacts DEF Writing
  <2>4. Steps[k].do = "once" \/ (Steps[k].do = "insert" /\ ~together)
    BY <2>1, <2>2, <2>3 DEF ByName, Cumulative, Steps
  <2>5. \A q, r \in Request : Has(q) /\ Has(r) => q = r
    BY <2>2, <2>4 DEF OneChange
  <2>6. db.change \subseteq Request
    BY <1>4, <2>2 DEF HandlerTypes
  <2>7. CASE db.change = {}
    <3>1. Cardinality(db.change) = 0
      BY <2>7, FS_EmptySet
    <3> QED
      BY <3>1
  <2>8. ASSUME NEW r \in db.change
        PROVE  db.change = {r}
    BY <2>5, <2>6 DEF Has
  <2>9. CASE db.change # {}
    <3>1. PICK r \in db.change : db.change = {r}
      BY <2>8, <2>9
    <3>2. Cardinality(db.change) = 1
      BY <3>1, FS_Singleton
    <3> QED
      BY <3>2
  <2> QED
    BY <2>7, <2>9
<1> QED
  BY <1>5, <1>6, <1>7, <1>8

\* Where there is no request there is nothing to promise.
LEMMA NothingPromised ==
    ASSUME NoRequestLeft
    PROVE  AnswersAreTrue /\ ChangesAreAudited /\ FollowersSee /\ RepeatsAreHarmless
BY DEF NoRequestLeft, AnswersAreTrue, ChangesAreAudited, FollowersSee, RepeatsAreHarmless, Adds, Writes, Some

\* Whatever handler of the application runs, however often its request is repeated and whatever fails: a client
\* that heard of success finds the change, and one that heard of a refusal finds nothing of its request but what
\* the handler is known to leave.
THEOREM AnswersAreAlwaysTrue ==
    ASSUME Scripts \subseteq App
    PROVE  DialoguesSpec => []AnswersAreTrue
<1>1. WebInv => AnswersAreTrue
  BY PromisesKept, NothingPromised DEF WebInv
<1> QED
  BY <1>1, HandlersHold, PTL

\* The audit log tells of a change if and only if it was made, but for the handlers that commit before they log.
THEOREM EveryChangeIsAudited ==
    ASSUME Scripts \subseteq App
    PROVE  DialoguesSpec => []ChangesAreAudited
<1>1. WebInv => ChangesAreAudited
  BY PromisesKept, NothingPromised DEF WebInv
<1> QED
  BY <1>1, HandlersHold, PTL

\* Who is told of a change finds it, unless the handler is one of those that tell before they commit.
THEOREM FollowersFindTheChange ==
    ASSUME Scripts \subseteq App
    PROVE  DialoguesSpec => []FollowersSee
<1>1. WebInv => FollowersSee
  BY PromisesKept, NothingPromised DEF WebInv
<1> QED
  BY <1>1, HandlersHold, PTL

\* A repeated request changes nothing twice, as far as a constraint or a look at what is there prevents it.
THEOREM RepeatsChangeNothing ==
    ASSUME Scripts \subseteq App
    PROVE  DialoguesSpec => []RepeatsAreHarmless
<1>1. WebInv => RepeatsAreHarmless
  BY PromisesKept, NothingPromised DEF WebInv
<1> QED
  BY <1>1, HandlersHold, PTL
=============================================================================

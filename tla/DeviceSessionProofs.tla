------------------------- MODULE DeviceSessionProofs -------------------------
(***************************************************************************)
(* RepliesAreWhole for every set of replies, every number of commands and  *)
(* every size of the wire: whatever the device prints and however the      *)
(* reads fall, a reply is cut at its own prompt unless it is misread.      *)
(*                                                                         *)
(* The invariant follows one command's reply.  What the device has still   *)
(* to print and what was printed and not taken make the whole reply        *)
(* (Rest, Own); between two commands nothing is left over, unless a reply  *)
(* was cut short (Misread) and its rest may be taken for the next.  The    *)
(* lemmas before the steps say what the text operators do, by induction    *)
(* over the length of the text.                                            *)
(***************************************************************************)
EXTENDS DeviceSession, NaturalsInduction, FiniteSetTheorems, TLAPS

\* What a reply may be made of on the device, and what a token may be.
Items == ReplyKinds \cup {"echo", "prompt"}
Tokens == [kind : Items \ {"again"}, by : Commands]

Active == client.pc \in {"send", "echo", "read", "page", "turned"}

Devices == [left : Seq(Items), by : 0..NumCommands, paused : BOOLEAN, input : Seq(0..NumCommands)]

Clients == [pc : {"connect", "send", "echo", "read", "page", "turned", "done", "failed"},
            cmd : 0..NumCommands, got : Seq(Tokens), idle : Nat, total : Nat]

SessionTypes ==
    /\ reply \in [Commands -> Seq(ReplyKinds)]
    /\ device \in Devices /\ client \in Clients
    /\ wire \in Seq(Tokens)
    /\ parts \in Seq(Seq(Tokens))
    /\ events \in [commands : Seq(Commands), lost : BOOLEAN]
    /\ Active => client.cmd \in Commands /\ Len(parts) = client.cmd - 1
    /\ client.pc = "done" => Len(parts) = NumCommands
    /\ client.pc = "send" => client.got = <<>>

\* All that the device prints for command k, if it does not start anew.
Size(k) == Len(reply[k]) + 2
Whole(k) == <<"echo">> \o reply[k] \o <<"prompt">>

\* What is left is the end of it; a reply that starts anew has that still to come.
Rest(left, k) ==
    /\ Len(left) <= Size(k)
    /\ \A i \in DOMAIN left : left[i] = Whole(k)[Size(k) - Len(left) + i]
    /\ Prints(k, "again") => \E i \in DOMAIN left : left[i] = "again"

\* The pager never waits with nothing left.
DeviceInv ==
    /\ device.left = <<>> => device.paused = FALSE
    /\ device.by = 0 => device.left = <<>>
    /\ device.by # 0 => Rest(device.left, device.by)

\* How many commands of the session were sent.
Sent == IF client.pc = "send" THEN client.cmd - 1
        ELSE IF client.pc = "done" THEN NumCommands ELSE client.cmd

\* Commands are typed once, in order.
InputInv ==
    Active =>
        /\ device.by <= Sent
        /\ \A i \in DOMAIN device.input :
              device.input[i] # 0 => device.input[i] > device.by /\ device.input[i] <= Sent
        /\ \A i, j \in DOMAIN device.input :
              i < j /\ device.input[j] # 0 => device.input[i] < device.input[j]

\* What was printed and not taken for the reply to an earlier command.
Data == client.got \o wire

Printing(t) == t.by <= device.by /\ (t.kind \in {"echo", "prompt"} \/ Prints(t.by, t.kind))

DataInv == Active => \A i \in DOMAIN Data : Printing(Data[i])

\* After m tokens of other commands, the ones the device has printed for k.
Own(data, m, k, left) ==
    /\ m \in 0..Len(data)
    /\ \A i \in 1..m : data[i].by < k
    /\ \A i \in (m + 1)..Len(data) : data[i].by = k /\ (data[i].kind = "echo" <=> i = m + 1)
    /\ Len(data) = m <=> Len(left) = Size(k)
    /\ IF Prints(k, "again")
       THEN \A i \in (m + 1)..Len(data) : data[i].kind # "prompt"
       ELSE /\ Len(data) = m + Size(k) - Len(left)
            /\ \A i \in (m + 1)..Len(data) : data[i].kind = Whole(k)[i - m]

\* The leftover of the replies before may be taken for the echo of command k.
Astray(k) == Misread(k - 1) /\ Prints(k - 1, "echoish")

\* Nothing is left over.
Nothing ==
    /\ device.left = <<>> /\ Data = <<>>
    /\ \A i \in DOMAIN device.input : device.input[i] \in {0, client.cmd}

StreamInv ==
    LET c == client.cmd IN
    /\ client.pc = "send" => Misread(c - 1) \/ Nothing
    /\ client.pc = "echo" =>
          /\ Misread(c - 1) \/ (device.by = c /\ Own(Data, 0, c, device.left)) \/
                (device.by < c /\ Nothing)
          /\ Astray(c) \/ device.by # c \/ \E m \in 0..Len(Data) : Own(Data, m, c, device.left)
    /\ client.pc \in {"read", "page", "turned"} =>
          Astray(c) \/ (device.by = c /\ client.got # <<>> /\ Own(Data, 0, c, device.left))

Plain == \A k \in Commands : ~Prints(k, "echoish")

\* A part that starts with the command and holds nothing else like one.
Section(s, k) ==
    /\ s # <<>> /\ s[1] = Token("echo", k)
    /\ \A i \in 2..Len(s) : s[i].by = k /\ s[i].kind \notin {"echo", "echoish"}

PartsInv ==
    Active \/ client.pc = "done" =>
        \A k \in DOMAIN parts : /\ parts[k] = Printed(k) \/ Misread(k)
                                /\ Plain => Section(parts[k], k)

\* The events end with those of this attempt.
EventsInv ==
    (Active \/ client.pc = "done") /\ ~events.lost =>
        /\ Len(events.commands) >= Sent
        /\ \A i \in 1..Sent : events.commands[Len(events.commands) - Sent + i] = i

SessionInv == SessionTypes /\ DeviceInv /\ InputInv /\ DataInv /\ StreamInv /\ PartsInv /\ EventsInv
-----------------------------------------------------------------------------
(* Sequences of tokens. *)

LEMMA LeastNumber ==
    ASSUME NEW S, S \subseteq Nat, S # {}
    PROVE  \E m \in S : \A k \in S : m <= k
<1>1. \E m \in S : \A k \in S : <<k, m>> \notin OpToRel(<, Nat)
  BY NatLessThanWellFounded, WFMin
<1>2. \A k, m \in S : <<k, m>> \in OpToRel(<, Nat) <=> k < m
  BY DEF OpToRel
<1>3. \A k, m \in S : ~(k < m) => m <= k
  OBVIOUS
<1> QED
  BY <1>1, <1>2, <1>3

LEMMA GreatestNumber ==
    ASSUME NEW n \in Nat, NEW S, S \subseteq 1..n, S # {}
    PROVE  \E m \in S : \A k \in S : k <= m
<1> DEFINE D == {n - k : k \in S}
<1>1. D \subseteq Nat /\ D # {}
  <2>1. \A k \in S : k \in 1..n
    OBVIOUS
  <2>2. \A k \in S : n - k \in Nat
    BY <2>1
  <2> QED
    BY <2>2
<1>2. PICK d \in D : \A e \in D : d <= e
  BY <1>1, LeastNumber
<1>3. PICK m \in S : d = n - m
  OBVIOUS
<1>4. ASSUME NEW k \in S
      PROVE  k <= m
  <2>1. n - m <= n - k /\ k \in Int /\ m \in Int
    BY <1>2, <1>3
  <2> QED
    BY <2>1
<1> QED
  BY <1>4

\* Induction, with the set of the numbers for which the claim holds.
LEMMA StepByStep ==
    ASSUME NEW n \in Nat, NEW G \in SUBSET (0..n), 0 \in G,
           \A i \in 1..n : i - 1 \in G => i \in G
    PROVE  \A i \in 0..n : i \in G
<1> DEFINE Bad == (0..n) \ G
<1>1. SUFFICES ASSUME Bad # {} PROVE FALSE
  OBVIOUS
<1>2. PICK m \in Bad : \A k \in Bad : m <= k
  <2>1. Bad \subseteq Nat
    OBVIOUS
  <2> HIDE DEF Bad
  <2> QED
    BY <1>1, <2>1, LeastNumber
<1>3. m \in 1..n /\ m \notin G
  BY <1>2
<1>4. m - 1 \in Bad
  BY <1>3
<1> QED
  BY <1>2, <1>3, <1>4

\* The functions from a, each value from the one before.
Recursive(n, V, a, h) ==
    {f \in [0..n -> V] : f[0] = a /\ \A i \in 1..n : f[i] = h[i][f[i - 1]]}

\* There is one.
LEMMA Recursion ==
    ASSUME NEW n \in Nat, NEW V, NEW a \in V, NEW h \in [1..n -> [V -> V]]
    PROVE  Recursive(n, V, a, h) # {}
<1> DEFINE Good(m) == \E f \in [0..m -> V] :
                         f[0] = a /\ \A i \in 1..m : f[i] = h[i][f[i - 1]]
           G == {m \in 0..n : Good(m)}
<1>1. Good(0)
  <2>1. [i \in 0..0 |-> a] \in [0..0 -> V] /\ [i \in 0..0 |-> a][0] = a /\ 1..0 = {}
    OBVIOUS
  <2> QED
    BY <2>1
<1>2. ASSUME NEW m \in 1..n, Good(m - 1)
      PROVE  Good(m)
  <2>1. PICK f \in [0..(m - 1) -> V] :
           f[0] = a /\ \A i \in 1..(m - 1) : f[i] = h[i][f[i - 1]]
    BY <1>2
  <2>2. /\ m - 1 \in 0..(m - 1) /\ 0 \in 0..m /\ m # 0 /\ m \in 0..m /\ m - 1 # m /\ m - 1 \in 0..m
        /\ \A i \in 0..m : i # m => i \in 0..(m - 1)
        /\ \A i \in 1..m : i # m => i \in 1..(m - 1) /\ i - 1 \in 0..m /\ i - 1 # m /\ i \in 0..m
    OBVIOUS
  <2>3. PICK v \in V : v = h[m][f[m - 1]]
    <3>1. h[m] \in [V -> V] /\ f[m - 1] \in V
      BY <2>1, <2>2
    <3> QED
      BY <3>1
  <2> DEFINE g == [i \in 0..m |-> IF i = m THEN v ELSE f[i]]
  <2>4. g \in [0..m -> V] /\ g[m] = v /\ \A i \in 0..m : i # m => g[i] = f[i]
    BY <2>1, <2>2
  <2> HIDE DEF g
  <2>5. g[0] = a /\ \A i \in 1..m : g[i] = h[i][g[i - 1]]
    BY <2>1, <2>2, <2>3, <2>4
  <2> QED
    BY <2>4, <2>5
<1> HIDE DEF Good
<1>3. \A m \in 0..n : m \in G
  <2>1. G \in SUBSET (0..n) /\ 0 \in G /\ \A m \in 1..n : m - 1 \in G => m \in G
    BY <1>1, <1>2
  <2> HIDE DEF G
  <2> QED
    BY <2>1, StepByStep
<1>4. Good(n)
  BY <1>3
<1> QED
  BY <1>4 DEF Good, Recursive

\* The steps of Unmarked.
KeptStep(s, kept, i) ==
    IF i = 0 THEN <<>> ELSE IF Is(s[i], MoreLike) THEN kept[i - 1] ELSE Append(kept[i - 1], s[i])

LEMMA KeptExists ==
    ASSUME NEW s \in Seq(Tokens)
    PROVE  \E kept : kept = [i \in 0..Len(s) |-> KeptStep(s, kept, i)]
<1>1. PICK n \in Nat : n = Len(s)
  OBVIOUS
<1>2. PICK V : V = Seq(Tokens)
  OBVIOUS
<1> DEFINE Longer(i, q) == IF Is(s[i], MoreLike) THEN q ELSE Append(q, s[i])
<1>3. ASSUME NEW i \in 1..n, NEW q \in V
      PROVE  Longer(i, q) \in V
  BY <1>1, <1>2
<1>4. PICK a : a = <<>>
  OBVIOUS
<1> HIDE DEF Longer
<1>5. PICK h \in [1..n -> [V -> V]] : \A i \in 1..n, q \in V : h[i][q] = Longer(i, q)
  <2> DEFINE step == [i \in 1..n |-> [q \in V |-> Longer(i, q)]]
  <2>1. step \in [1..n -> [V -> V]] /\ \A i \in 1..n, q \in V : step[i][q] = Longer(i, q)
    BY <1>3
  <2> QED
    BY <2>1
<1>6. PICK f \in [0..n -> V] : f[0] = a /\ \A i \in 1..n : f[i] = h[i][f[i - 1]]
  <2>1. a \in V
    BY <1>2, <1>4
  <2>2. Recursive(n, V, a, h) # {}
    BY <2>1, Recursion
  <2> QED
    BY <2>2 DEF Recursive
<1>7. ASSUME NEW i \in 0..n
      PROVE  f[i] = KeptStep(s, f, i)
  <2>1. CASE i = 0
    BY <1>4, <1>6, <2>1 DEF KeptStep
  <2>2. CASE i # 0
    <3>1. i \in 1..n /\ i - 1 \in 0..n
      BY <2>2
    <3>2. f[i] = Longer(i, f[i - 1])
      BY <1>5, <1>6, <3>1
    <3> QED
      BY <2>2, <3>2 DEF KeptStep, Longer
  <2> QED
    BY <2>1, <2>2
<1> QED
  BY <1>1, <1>6, <1>7

LEMMA UnmarkedSteps ==
    ASSUME NEW s \in Seq(Tokens)
    PROVE  \E kept :
              /\ Unmarked(s) = kept[Len(s)] /\ kept[0] = <<>>
              /\ \A i \in 0..Len(s) : kept[i] \in Seq(Tokens)
              /\ \A i \in 1..Len(s) :
                    kept[i] = IF Is(s[i], MoreLike) THEN kept[i - 1] ELSE Append(kept[i - 1], s[i])
<1> DEFINE F(kept) == [i \in 0..Len(s) |-> KeptStep(s, kept, i)]
           It == CHOOSE kept : kept = F(kept)
<1>1. Len(s) \in Nat
  OBVIOUS
<1>2. PICK f : f = F(f)
  BY KeptExists
<1>3. It = F(It)
  BY <1>2
<1>4. Unmarked(s) = It[Len(s)]
  BY DEF Unmarked, KeptStep
<1> HIDE DEF It
<1> DEFINE G == {i \in 0..Len(s) : It[i] \in Seq(Tokens)}
<1>5. It[0] = <<>> /\ \A i \in 1..Len(s) :
         It[i] = IF Is(s[i], MoreLike) THEN It[i - 1] ELSE Append(It[i - 1], s[i])
  <2>1. \A i \in 0..Len(s) : It[i] = KeptStep(s, It, i)
    BY <1>3
  <2> QED
    BY <1>1, <2>1 DEF KeptStep
<1>6. 0 \in G /\ \A i \in 1..Len(s) : i - 1 \in G => i \in G
  <2>1. 0 \in G
    <3>1. <<>> \in Seq(Tokens) /\ 0 \in 0..Len(s)
      BY <1>1
    <3> QED
      BY <1>5, <3>1
  <2>2. ASSUME NEW i \in 1..Len(s), It[i - 1] \in Seq(Tokens)
        PROVE  It[i] \in Seq(Tokens)
    <3>1. PICK t \in Tokens, q \in Seq(Tokens) : t = s[i] /\ q = It[i - 1]
      BY <2>2
    <3>2. Append(q, t) \in Seq(Tokens)
      OBVIOUS
    <3> QED
      BY <1>5, <3>1, <3>2
  <2> QED
    BY <1>1, <2>1, <2>2
<1>7. \A i \in 0..Len(s) : It[i] \in Seq(Tokens)
  <2>1. \A i \in 0..Len(s) : i \in G
    <3>1. G \in SUBSET (0..Len(s))
      OBVIOUS
    <3> HIDE DEF G
    <3> QED
      BY <1>1, <1>6, <3>1, StepByStep
  <2> QED
    BY <2>1
<1> QED
  BY <1>4, <1>5, <1>7

\* What Unmarked keeps was there, in the same place or further on.
LEMMA UnmarkedKeeps ==
    ASSUME NEW s \in Seq(Tokens), s # <<>>, ~Is(s[1], MoreLike)
    PROVE  /\ Unmarked(s) \in Seq(Tokens) /\ Unmarked(s) # <<>> /\ Unmarked(s)[1] = s[1]
           /\ \A i \in 2..Len(Unmarked(s)) : \E j \in 2..Len(s) : Unmarked(s)[i] = s[j]
<1>1. Len(s) \in Nat /\ Len(s) >= 1 /\ 1 \in 1..Len(s) /\ 1 - 1 = 0
  OBVIOUS
<1>2. PICK kept :
         /\ Unmarked(s) = kept[Len(s)] /\ kept[0] = <<>>
         /\ \A i \in 0..Len(s) : kept[i] \in Seq(Tokens)
         /\ \A i \in 1..Len(s) :
               kept[i] = IF Is(s[i], MoreLike) THEN kept[i - 1] ELSE Append(kept[i - 1], s[i])
  BY UnmarkedSteps
<1> DEFINE Good(q) == /\ q # <<>> /\ q[1] = s[1]
                      /\ \A i \in 2..Len(q) : \E j \in 2..Len(s) : q[i] = s[j]
           G == {0} \cup {m \in 1..Len(s) : Good(kept[m])}
<1>3. kept[1] = <<s[1]>> /\ Good(kept[1])
  <2>1. kept[1] = Append(kept[0], s[1])
    BY <1>1, <1>2
  <2> QED
    BY <1>2, <2>1
<1>4. ASSUME NEW m \in 2..Len(s), Good(kept[m - 1])
      PROVE  Good(kept[m])
  <2>1. PICK q \in Seq(Tokens), t \in Tokens : q = kept[m - 1] /\ t = s[m]
    BY <1>1, <1>2
  <2>2. kept[m] = IF Is(t, MoreLike) THEN q ELSE Append(q, t)
    BY <1>1, <1>2, <2>1
  <2>3. Good(q)
    BY <1>4, <2>1
  <2>4. Good(Append(q, t))
    <3> DEFINE a == Append(q, t)
    <3>1. Len(a) = Len(q) + 1 /\ Len(q) >= 1 /\ a[1] = q[1] /\ a[Len(a)] = t
          /\ \A i \in 1..Len(q) : a[i] = q[i]
      BY <2>3
    <3>2. a # <<>> /\ a[1] = s[1]
      BY <2>3, <3>1
    <3>3. ASSUME NEW i \in 2..Len(a)
          PROVE  \E j \in 2..Len(s) : a[i] = s[j]
      <4>1. CASE i = Len(a)
        BY <2>1, <3>1, <4>1
      <4>2. CASE i # Len(a)
        <5>1. i \in 2..Len(q) /\ a[i] = q[i]
          BY <3>1, <4>2
        <5> QED
          BY <2>3, <5>1
      <4> QED
        BY <4>1, <4>2
    <3> QED
      BY <3>2, <3>3
  <2> QED
    BY <2>2, <2>3, <2>4
<1> HIDE DEF Good
<1>5. G \in SUBSET (0..Len(s)) /\ 0 \in G /\ \A m \in 1..Len(s) : m - 1 \in G => m \in G
  <2>1. 1 \in G
    BY <1>1, <1>3
  <2>2. ASSUME NEW m \in 1..Len(s), m # 1, m - 1 \in G
        PROVE  m \in G
    <3>1. m \in 2..Len(s) /\ Good(kept[m - 1])
      BY <2>2
    <3> QED
      BY <1>4, <3>1
  <2> QED
    BY <1>1, <2>1, <2>2
<1>6. Len(s) \in G
  <2>1. \A i \in 0..Len(s) : i \in G
    <3> HIDE DEF G
    <3> QED
      BY <1>1, <1>5, StepByStep
  <2> QED
    BY <1>1, <2>1
<1>7. Good(kept[Len(s)]) /\ kept[Len(s)] \in Seq(Tokens)
  BY <1>1, <1>2, <1>6
<1> QED
  BY <1>2, <1>7 DEF Good

\* A part starts with what was read first.
LEMMA StrippedKeeps ==
    ASSUME NEW s \in Seq(Tokens), s # <<>>, s[1].kind = "echo"
    PROVE  /\ Stripped(s) \in Seq(Tokens) /\ Stripped(s) # <<>> /\ Stripped(s)[1] = s[1]
           /\ \A i \in 2..Len(Stripped(s)) : \E j \in 2..Len(s) : Stripped(s)[i] = s[j]
<1> DEFINE u == Unmarked(s)
           prompts == {i \in DOMAIN u : Is(u[i], PromptLike)}
           last == CHOOSE i \in prompts : \A j \in prompts : j <= i
<1>1. ~Is(s[1], MoreLike) /\ ~Is(s[1], PromptLike)
  BY DEF Is, MoreLike, PromptLike
<1>2. /\ u \in Seq(Tokens) /\ u # <<>> /\ u[1] = s[1]
      /\ \A i \in 2..Len(u) : \E j \in 2..Len(s) : u[i] = s[j]
  BY <1>1, UnmarkedKeeps
<1>3. Stripped(s) = IF prompts = {} THEN u ELSE SubSeq(u, 1, last - 1)
  BY DEF Stripped
<1> HIDE DEF u
<1>4. CASE prompts = {}
  BY <1>2, <1>3, <1>4
<1>5. CASE prompts # {}
  <2>1. prompts \subseteq 1..Len(u) /\ Len(u) \in Nat
    BY <1>2
  <2>2. \E i \in prompts : \A j \in prompts : j <= i
    <3> HIDE DEF prompts
    <3> QED
      BY <1>5, <2>1, GreatestNumber
  <2>3. last \in prompts
    <3> HIDE DEF prompts
    <3> QED
      BY <2>2
  <2>4. last \in 2..Len(u)
    BY <1>1, <1>2, <2>1, <2>3
  <2> HIDE DEF last
  <2>5. PICK q : q = SubSeq(u, 1, last - 1)
    OBVIOUS
  <2>6. q \in Seq(Tokens) /\ Len(q) = last - 1 /\ \A i \in 1..Len(q) : q[i] = u[i]
    BY <1>2, <2>4, <2>5
  <2>7. q # <<>> /\ q[1] = s[1] /\ \A i \in 2..Len(q) : \E j \in 2..Len(s) : q[i] = s[j]
    BY <1>2, <2>4, <2>6
  <2>8. Stripped(s) = q
    BY <1>3, <1>5, <2>5
  <2> QED
    BY <2>6, <2>7, <2>8
<1> QED
  BY <1>4, <1>5

\* The whole reply, between the echo and the prompt.
LEMMA StrippedWhole ==
    ASSUME NEW s \in Seq(Tokens), NEW r \in Seq(Tokens), Len(s) = Len(r) + 2,
           s[1].kind = "echo", s[Len(s)].kind = "prompt",
           \A i \in 1..Len(r) : s[i + 1] = r[i] /\ ~Is(r[i], PromptLike)
    PROVE  Stripped(s) = <<s[1]>> \o Unmarked(r)
<1>1. /\ Len(r) \in Nat /\ Len(s) = Len(r) + 2 /\ Len(s) \in 1..Len(s) /\ 1 \in 1..Len(s) /\ 1 - 1 = 0
      /\ Len(s) - 1 = Len(r) + 1 /\ 0 \in 0..Len(r) /\ Len(r) \in 0..Len(r)
  OBVIOUS
<1>2. PICK kept :
         /\ Unmarked(s) = kept[Len(s)] /\ kept[0] = <<>>
         /\ \A i \in 0..Len(s) : kept[i] \in Seq(Tokens)
         /\ \A i \in 1..Len(s) :
               kept[i] = IF Is(s[i], MoreLike) THEN kept[i - 1] ELSE Append(kept[i - 1], s[i])
  BY UnmarkedSteps
<1>3. PICK rest :
         /\ Unmarked(r) = rest[Len(r)] /\ rest[0] = <<>>
         /\ \A i \in 0..Len(r) : rest[i] \in Seq(Tokens)
         /\ \A i \in 1..Len(r) :
               rest[i] = IF Is(r[i], MoreLike) THEN rest[i - 1] ELSE Append(rest[i - 1], r[i])
  BY UnmarkedSteps
<1>4. PICK e \in Tokens, p \in Tokens : e = s[1] /\ p = s[Len(s)]
  BY <1>1
<1> DEFINE Good(m) == /\ kept[m + 1] = <<e>> \o rest[m]
                      /\ \A i \in 1..Len(rest[m]) : ~Is(rest[m][i], PromptLike)
           G == {m \in 0..Len(r) : Good(m)}
<1>5. 0 \in G
  <2>1. kept[1] = Append(kept[0], s[1])
    BY <1>1, <1>2 DEF Is, MoreLike
  <2>2. kept[1] = <<e>> /\ <<e>> = <<e>> \o <<>> /\ 0 + 1 = 1
    BY <1>2, <1>4, <2>1
  <2>3. Good(0)
    BY <1>3, <2>2
  <2> QED
    BY <1>1, <2>3
<1>6. ASSUME NEW m \in 1..Len(r), Good(m - 1)
      PROVE  Good(m)
  <2>1. PICK q \in Seq(Tokens), t \in Tokens : q = rest[m - 1] /\ t = r[m]
    BY <1>1, <1>3
  <2>2. rest[m] = IF Is(t, MoreLike) THEN q ELSE Append(q, t)
    BY <1>3, <2>1
  <2>3. /\ s[m + 1] = t /\ ~Is(t, PromptLike)
        /\ kept[m] = <<e>> \o q /\ \A i \in 1..Len(q) : ~Is(q[i], PromptLike)
    BY <1>6, <2>1
  <2>4. kept[m + 1] = IF Is(t, MoreLike) THEN kept[m] ELSE Append(kept[m], t)
    <3>1. m + 1 \in 1..Len(s) /\ (m + 1) - 1 = m
      BY <1>1
    <3> QED
      BY <1>2, <2>3, <3>1
  <2>5. Append(<<e>> \o q, t) = <<e>> \o Append(q, t)
    BY <1>4
  <2>6. \A i \in 1..Len(Append(q, t)) : ~Is(Append(q, t)[i], PromptLike)
    BY <2>3
  <2> QED
    BY <2>2, <2>3, <2>4, <2>5, <2>6
<1> HIDE DEF Good
<1>7. Len(r) \in G
  <2>1. G \in SUBSET (0..Len(r)) /\ \A m \in 1..Len(r) : m - 1 \in G => m \in G
    BY <1>1, <1>6
  <2> HIDE DEF G
  <2> QED
    BY <1>1, <1>5, <2>1, StepByStep
<1>8. PICK q \in Seq(Tokens) : q = Unmarked(r)
  BY <1>1, <1>3
<1>9. /\ kept[Len(r) + 1] = <<e>> \o q
      /\ \A i \in 1..Len(q) : ~Is(q[i], PromptLike)
  BY <1>3, <1>7, <1>8 DEF Good
<1>10. Unmarked(s) = Append(<<e>> \o q, p)
  <2>1. ~Is(p, MoreLike)
    BY <1>4 DEF Is, MoreLike
  <2>2. kept[Len(s)] = Append(kept[Len(s) - 1], s[Len(s)])
    BY <1>1, <1>2, <1>4, <2>1
  <2> QED
    BY <1>1, <1>2, <1>4, <1>9, <2>2
<1>11. PICK u : u = Append(<<e>> \o q, p)
  OBVIOUS
<1>12. /\ u \in Seq(Tokens) /\ Len(u) = Len(q) + 2 /\ u[1] = e /\ u[Len(u)] = p
       /\ \A i \in 1..Len(q) : u[i + 1] = q[i]
  BY <1>4, <1>8, <1>11
<1> DEFINE prompts == {i \in DOMAIN u : Is(u[i], PromptLike)}
<1>13. prompts = {Len(u)}
  <2>1. Is(u[Len(u)], PromptLike) /\ ~Is(u[1], PromptLike) /\ Len(u) \in DOMAIN u
    BY <1>4, <1>12 DEF Is, PromptLike
  <2>2. ASSUME NEW i \in DOMAIN u, i # 1, i # Len(u)
        PROVE  ~Is(u[i], PromptLike)
    <3>1. i - 1 \in 1..Len(q) /\ (i - 1) + 1 = i
      BY <1>12, <2>2
    <3> QED
      BY <1>9, <1>12, <3>1
  <2> QED
    BY <2>1, <2>2
<1>14. Stripped(s) = SubSeq(u, 1, Len(u) - 1)
  <2>1. (CHOOSE i \in prompts : \A j \in prompts : j <= i) = Len(u)
    <3> HIDE DEF prompts
    <3> QED
      BY <1>12, <1>13
  <2>2. Stripped(s) = IF prompts = {} THEN u
                      ELSE SubSeq(u, 1, (CHOOSE i \in prompts : \A j \in prompts : j <= i) - 1)
    BY <1>10, <1>11 DEF Stripped
  <2> QED
    BY <1>13, <2>1, <2>2
<1>15. SubSeq(u, 1, Len(u) - 1) = <<e>> \o q
  BY <1>8, <1>11
<1> QED
  BY <1>4, <1>8, <1>14, <1>15

-----------------------------------------------------------------------------
(* The page of the record. *)

\* The steps of FlattenSeq.
FlatStep(p, flat, i) == IF i = 1 THEN p[i] ELSE flat[i - 1] \o p[i]

LEMMA FlatExists ==
    ASSUME NEW p \in Seq(Seq(Tokens))
    PROVE  \E flat : flat = [i \in 1..Len(p) |-> FlatStep(p, flat, i)]
<1>1. PICK n \in Nat : n = Len(p)
  OBVIOUS
<1>2. PICK V : V = Seq(Tokens)
  OBVIOUS
<1>3. PICK a : a = <<>>
  OBVIOUS
<1>4. a \in V
  BY <1>2, <1>3
<1>5. ASSUME NEW i \in 1..n, NEW q \in V
      PROVE  q \o p[i] \in V
  BY <1>1, <1>2
<1>6. PICK h \in [1..n -> [V -> V]] : \A i \in 1..n, q \in V : h[i][q] = q \o p[i]
  <2> DEFINE step == [i \in 1..n |-> [q \in V |-> q \o p[i]]]
  <2>1. step \in [1..n -> [V -> V]] /\ \A i \in 1..n, q \in V : step[i][q] = q \o p[i]
    BY <1>5
  <2> QED
    BY <2>1
<1>7. PICK f \in [0..n -> V] : f[0] = a /\ \A i \in 1..n : f[i] = h[i][f[i - 1]]
  <2>1. Recursive(n, V, a, h) # {}
    BY <1>4, Recursion
  <2> QED
    BY <2>1 DEF Recursive
<1> DEFINE flat == [i \in 1..n |-> f[i]]
<1>8. ASSUME NEW i \in 1..n
      PROVE  flat[i] = FlatStep(p, flat, i)
  <2>1. i - 1 \in 0..n /\ f[i - 1] \in V /\ i - 1 \in 0..n
    BY <1>7
  <2>2. flat[i] = f[i - 1] \o p[i]
    BY <1>6, <1>7, <2>1
  <2>3. CASE i = 1
    <3>1. p[1] \in Seq(Tokens) /\ <<>> \o p[1] = p[1]
      BY <1>1, <2>3
    <3> QED
      <4>1. f[i - 1] = <<>>
        BY <1>3, <1>7, <2>3
      <4>2. flat[i] = p[1]
        BY <2>2, <2>3, <3>1, <4>1
      <4> QED
        BY <2>3, <4>2 DEF FlatStep
  <2>4. CASE i # 1
    <3>1. i - 1 \in 1..n
      BY <2>4
    <3>2. flat[i - 1] = f[i - 1]
      BY <3>1
    <3> QED
      BY <2>2, <2>4, <3>2 DEF FlatStep
  <2> QED
    BY <2>3, <2>4
<1>9. flat = [i \in 1..n |-> FlatStep(p, flat, i)]
  <2> HIDE DEF FlatStep
  <2>1. \A i \in 1..n : flat[i] = FlatStep(p, flat, i)
    BY <1>8
  <2>2. PICK g : g = flat
    OBVIOUS
  <2>3. g = [i \in 1..n |-> g[i]] /\ \A i \in 1..n : g[i] = FlatStep(p, g, i)
    BY <2>1, <2>2
  <2> QED
    BY <2>2, <2>3
<1> QED
  BY <1>1, <1>9

\* Where the parts end in the text they make together.
Ends(p, lines, end) ==
    /\ end[0] = 0 /\ end[Len(p)] = Len(lines)
    /\ \A k \in 0..Len(p) : end[k] \in 0..Len(lines)
    /\ \A k \in 1..Len(p) :
          /\ end[k] = end[k - 1] + Len(p[k])
          /\ \A x \in 1..Len(p[k]) : lines[end[k - 1] + x] = p[k][x]

LEMMA FlattenedParts ==
    ASSUME NEW p \in Seq(Seq(Tokens)), p # <<>>
    PROVE  FlattenSeq(p) \in Seq(Tokens) /\ \E end : Ends(p, FlattenSeq(p), end)
<1>1. PICK n \in Nat : n = Len(p) /\ n >= 1
  OBVIOUS
<1> DEFINE F(flat) == [i \in 1..Len(p) |-> FlatStep(p, flat, i)]
           It == CHOOSE flat : flat = F(flat)
<1>2. It = F(It)
  <2>1. PICK f : f = F(f)
    BY FlatExists
  <2> QED
    BY <2>1
<1>3. FlattenSeq(p) = It[n]
  BY <1>1 DEF FlattenSeq, FlatStep
<1> HIDE DEF It
<1>4. /\ It[1] = p[1] /\ p[1] \in Seq(Tokens)
      /\ \A i \in 2..n : It[i] = It[i - 1] \o p[i] /\ p[i] \in Seq(Tokens)
  <2>1. \A i \in 1..n : It[i] = FlatStep(p, It, i)
    BY <1>1, <1>2
  <2>2. \A i \in 1..n : p[i] \in Seq(Tokens)
    BY <1>1
  <2> QED
    <3>1. 1 \in 1..n /\ \A i \in 2..n : i \in 1..n /\ i # 1
      BY <1>1
    <3>2. It[1] = p[1]
      BY <2>1, <3>1 DEF FlatStep
    <3>3. \A i \in 2..n : It[i] = It[i - 1] \o p[i]
      BY <2>1, <3>1 DEF FlatStep
    <3> QED
      BY <2>2, <3>1, <3>2, <3>3
<1> DEFINE end == [i \in 0..n |-> IF i = 0 THEN 0 ELSE Len(It[i])]
           Good(m) == It[m] \in Seq(Tokens) /\ Ends(SubSeq(p, 1, m), It[m], end)
           G == {0} \cup {m \in 1..n : Good(m)}
<1>5. Good(1)
  <2>1. It[1] \in Seq(Tokens) /\ end[0] = 0 /\ end[1] = Len(It[1]) /\ end[1] \in Nat
    BY <1>1, <1>4
  <2>2. PICK q : q = SubSeq(p, 1, 1)
    OBVIOUS
  <2>3. Len(q) = 1 /\ q[1] = p[1]
    BY <1>1, <2>2
  <2>4. \A k \in 0..1 : k = 0 \/ k = 1
    OBVIOUS
  <2>5. \A k \in 1..1 : k = 1 /\ k - 1 = 0
    OBVIOUS
  <2> HIDE DEF end
  <2>6. \A x \in 1..Len(q[1]) : It[1][0 + x] = q[1][x]
    BY <1>4, <2>3
  <2>7. Ends(q, It[1], end)
    BY <1>4, <2>1, <2>3, <2>4, <2>5, <2>6 DEF Ends
  <2> QED
    BY <2>1, <2>2, <2>7
<1>6. ASSUME NEW m \in 2..n, Good(m - 1)
      PROVE  Good(m)
  <2>1. PICK old \in Seq(Tokens), new \in Seq(Tokens) : old = It[m - 1] /\ new = p[m]
    BY <1>4, <1>6
  <2>2. PICK q : q = old \o new
    OBVIOUS
  <2>3. /\ q \in Seq(Tokens) /\ Len(q) = Len(old) + Len(new)
        /\ \A x \in 1..Len(old) : q[x] = old[x]
        /\ \A x \in 1..Len(new) : q[Len(old) + x] = new[x]
    BY <2>2
  <2>4. It[m] = q
    BY <1>4, <2>1, <2>2
  <2>5. end[m] = Len(q) /\ end[m - 1] = Len(old)
    BY <2>1, <2>4
  <2> HIDE DEF end
  <2>6. PICK a, b : a = SubSeq(p, 1, m - 1) /\ b = SubSeq(p, 1, m)
    OBVIOUS
  <2>7. /\ Len(a) = m - 1 /\ \A k \in 1..(m - 1) : a[k] = p[k] /\ b[k] = p[k]
        /\ Len(b) = m /\ b[m] = new
    BY <1>1, <2>1, <2>6
  <2>8. Ends(a, old, end)
    BY <1>6, <2>1, <2>6
  <2>9. end[0] = 0 /\ end[Len(b)] = Len(q)
    BY <2>5, <2>7, <2>8 DEF Ends
  <2>10. ASSUME NEW k \in 0..m
         PROVE  end[k] \in 0..Len(q)
    <3>1. CASE k = m
      BY <2>3, <2>5, <3>1
    <3>2. CASE k # m
      <4>1. k \in 0..(m - 1)
        BY <3>2
      <4>2. end[k] \in 0..Len(old)
        BY <2>7, <2>8, <4>1 DEF Ends
      <4> QED
        BY <2>3, <4>2
    <3> QED
      BY <3>1, <3>2
  <2>11. ASSUME NEW k \in 1..m
         PROVE  end[k] = end[k - 1] + Len(b[k]) /\ \A x \in 1..Len(b[k]) : q[end[k - 1] + x] = b[k][x]
    <3>1. CASE k = m
      BY <2>3, <2>5, <2>7, <3>1
    <3>2. CASE k # m
      <4>1. k \in 1..(m - 1) /\ a[k] = b[k] /\ k - 1 \in 0..(m - 1) /\ k \in 0..(m - 1)
        BY <2>7, <3>2
      <4>2. /\ end[k] = end[k - 1] + Len(a[k]) /\ end[k] \in 0..Len(old) /\ end[k - 1] \in 0..Len(old)
            /\ \A x \in 1..Len(a[k]) : old[end[k - 1] + x] = a[k][x]
        BY <2>7, <2>8, <4>1 DEF Ends
      <4>3. ASSUME NEW x \in 1..Len(a[k])
            PROVE  q[end[k - 1] + x] = b[k][x]
        <5>1. p[k] \in Seq(Tokens) /\ Len(p[k]) \in Nat /\ a[k] = p[k]
          BY <1>1, <2>7, <4>1
        <5>2. end[k - 1] + x \in 1..Len(old)
          <6>1. PICK u, w, l, z : u = end[k - 1] /\ w = end[k] /\ l = Len(a[k]) /\ z = Len(old)
            OBVIOUS
          <6>2. z \in Nat /\ u \in 0..z /\ w \in 0..z /\ l \in Nat /\ w = u + l /\ x \in 1..l
            BY <4>2, <5>1, <6>1
          <6>3. u + x \in 1..z
            BY ONLY <6>2
          <6> QED
            BY ONLY <6>1, <6>3
        <5> QED
          BY <2>3, <4>1, <4>2, <5>2
      <4> QED
        BY <4>1, <4>2, <4>3
    <3> QED
      BY <3>1, <3>2
  <2>12. Ends(b, q, end)
    BY <2>7, <2>9, <2>10, <2>11 DEF Ends
  <2> QED
    BY <2>3, <2>4, <2>6, <2>12
<1> HIDE DEF Good
<1>7. \A i \in 0..n : i \in G
  <2>1. 0 \in G /\ 1 \in G /\ G \in SUBSET (0..n)
    BY <1>1, <1>5
  <2>2. ASSUME NEW m \in 1..n, m - 1 \in G
        PROVE  m \in G
    <3>1. CASE m = 1
      BY <2>1, <3>1
    <3>2. CASE m # 1
      <4>1. m \in 2..n /\ Good(m - 1)
        BY <2>2, <3>2
      <4> QED
        BY <1>6, <4>1
    <3> QED
      BY <3>1, <3>2
  <2> HIDE DEF G
  <2> QED
    BY <2>1, <2>2, StepByStep
<1>8. Good(n)
  BY <1>1, <1>7
<1>9. SubSeq(p, 1, n) = p
  BY <1>1
<1> QED
  BY <1>3, <1>8, <1>9 DEF Good

\* The first line after q that starts command k, or 0.
StartAfter(lines, q, k) ==
    LET found == {i \in DOMAIN lines : i > q /\ IsEcho(lines[i], k)} IN
    IF found = {} THEN 0 ELSE CHOOSE i \in found : \A j \in found : i <= j

LEMMA StartIsFirst ==
    ASSUME NEW lines \in Seq(Tokens), NEW q \in Nat, NEW k, NEW s \in 1..Len(lines), s > q,
           IsEcho(lines[s], k), \A i \in 1..Len(lines) : i > q /\ i < s => ~IsEcho(lines[i], k)
    PROVE  StartAfter(lines, q, k) = s
<1> DEFINE found == {i \in DOMAIN lines : i > q /\ IsEcho(lines[i], k)}
<1>1. s \in found /\ \A i \in found : s <= i
  OBVIOUS
<1>2. found \subseteq Nat
  OBVIOUS
<1>3. StartAfter(lines, q, k) = IF found = {} THEN 0 ELSE CHOOSE i \in found : \A j \in found : i <= j
  BY DEF StartAfter
<1> HIDE DEF found
<1>4. \A i \in found : (\A j \in found : i <= j) => i = s
  BY <1>1, <1>2
<1> QED
  BY <1>1, <1>3, <1>4

LEMMA StartIsNumber ==
    ASSUME NEW lines \in Seq(Tokens), NEW q, NEW k
    PROVE  StartAfter(lines, q, k) \in Nat
<1> DEFINE found == {i \in DOMAIN lines : i > q /\ IsEcho(lines[i], k)}
<1>1. found \subseteq Nat
  OBVIOUS
<1>2. StartAfter(lines, q, k) = IF found = {} THEN 0 ELSE CHOOSE i \in found : \A j \in found : i <= j
  BY DEF StartAfter
<1> HIDE DEF found
<1>3. CASE found = {}
  BY <1>2, <1>3
<1>4. CASE found # {}
  <2>1. \E i \in found : \A j \in found : i <= j
    BY <1>1, <1>4, LeastNumber
  <2>2. (CHOOSE i \in found : \A j \in found : i <= j) \in found
    BY <2>1
  <2> QED
    BY <1>1, <1>2, <1>4, <2>2
<1> QED
  BY <1>3, <1>4

LEMMA BoundariesSteps ==
    ASSUME NEW lines \in Seq(Tokens), NEW commands \in Seq(Commands)
    PROVE  \E at : /\ at[0] = 0
                   /\ \A i \in 1..Len(commands) : at[i] = StartAfter(lines, at[i - 1], commands[i])
                   /\ \A i \in 1..Len(commands) : Boundaries(lines, commands)[i] = at[i]
<1>1. PICK n \in Nat : n = Len(commands)
  OBVIOUS
<1> DEFINE F(at) == [i \in 0..n |-> IF i = 0 THEN 0 ELSE StartAfter(lines, at[i - 1], commands[i])]
           It == CHOOSE at : at = F(at)
<1>2. PICK h \in [1..n -> [Nat -> Nat]] :
         \A i \in 1..n, q \in Nat : h[i][q] = StartAfter(lines, q, commands[i])
  <2> DEFINE step == [i \in 1..n |-> [q \in Nat |-> StartAfter(lines, q, commands[i])]]
  <2>1. \A i \in 1..n, q \in Nat : StartAfter(lines, q, commands[i]) \in Nat
    BY StartIsNumber
  <2>2. step \in [1..n -> [Nat -> Nat]]
        /\ \A i \in 1..n, q \in Nat : step[i][q] = StartAfter(lines, q, commands[i])
    BY <2>1
  <2> QED
    BY <2>2
<1>3. PICK f \in [0..n -> Nat] : f[0] = 0 /\ \A i \in 1..n : f[i] = h[i][f[i - 1]]
  <2>1. Recursive(n, Nat, 0, h) # {}
    BY Recursion
  <2> QED
    BY <2>1 DEF Recursive
<1>4. f = F(f)
  <2>1. ASSUME NEW i \in 0..n, i # 0
        PROVE  f[i] = StartAfter(lines, f[i - 1], commands[i])
    <3>1. i \in 1..n /\ i - 1 \in 0..n
      BY <2>1
    <3> QED
      BY <1>2, <1>3, <3>1
  <2> QED
    BY <1>3, <2>1
<1>5. It = F(It)
  BY <1>4
<1>6. Boundaries(lines, commands) = [i \in 1..n |-> It[i]]
  BY <1>1 DEF Boundaries, StartAfter
<1> HIDE DEF It
<1>7. It[0] = 0 /\ \A i \in 1..n : It[i] = StartAfter(lines, It[i - 1], commands[i])
  <2>1. \A i \in 0..n : It[i] = IF i = 0 THEN 0 ELSE StartAfter(lines, It[i - 1], commands[i])
    BY <1>5
  <2>2. \A i \in 1..n : i \in 0..n /\ i # 0
    OBVIOUS
  <2> QED
    BY <2>1, <2>2
<1> QED
  BY <1>1, <1>6, <1>7

\* Parts that start with their command, and hold no other line like one, are
\* cut where they were joined.
LEMMA SectionsAreParts ==
    ASSUME NEW p \in Seq(Seq(Tokens)), Len(p) = NumCommands,
           \A k \in Commands : Section(p[k], k)
    PROVE  Sections(FlattenSeq(p), [k \in Commands |-> k]) = p
<1> DEFINE lines == FlattenSeq(p)
           commands == [k \in Commands |-> k]
<1>1. NumCommands \in Nat /\ NumCommands >= 1 /\ Commands = 1..NumCommands
  BY SessionAssumption DEF Commands
<1>2. commands \in Seq(Commands) /\ Len(commands) = NumCommands
      /\ \A k \in Commands : commands[k] = k
  BY <1>1
<1>3. p # <<>> /\ \A k \in Commands : p[k] \in Seq(Tokens)
  BY <1>1
<1>4. lines \in Seq(Tokens)
  BY <1>3, FlattenedParts
<1>5. PICK end : Ends(p, lines, end)
  BY <1>3, FlattenedParts
<1> HIDE DEF lines, commands
<1>6. PICK at : /\ at[0] = 0
                /\ \A i \in 1..Len(commands) : at[i] = StartAfter(lines, at[i - 1], commands[i])
                /\ \A i \in 1..Len(commands) : Boundaries(lines, commands)[i] = at[i]
  BY <1>2, <1>4, BoundariesSteps
<1>7. \A k \in Commands : Len(p[k]) \in Nat /\ Len(p[k]) >= 1
  BY <1>3 DEF Section
<1>8. \A k \in Commands : /\ end[k - 1] \in Nat /\ end[k] \in 0..Len(lines)
                          /\ end[k] = end[k - 1] + Len(p[k])
  <2>1. \A k \in Commands : k \in 1..Len(p) /\ k \in 0..Len(p) /\ k - 1 \in 0..Len(p)
    BY <1>1
  <2>2. \A k \in 0..Len(p) : end[k] \in 0..Len(lines)
    BY <1>5 DEF Ends
  <2>3. \A k \in 1..Len(p) : end[k] = end[k - 1] + Len(p[k])
    BY <1>5 DEF Ends
  <2> QED
    BY <2>1, <2>2, <2>3
<1>9. ASSUME NEW k \in Commands
      PROVE  IsEcho(lines[end[k - 1] + 1], k)
  <2>1. lines[end[k - 1] + 1] = p[k][1]
    BY <1>1, <1>5, <1>7 DEF Ends
  <2> QED
    BY <2>1 DEF Section, IsEcho
<1>10. ASSUME NEW k \in Commands, NEW i \in Nat, end[k - 1] + 1 < i, i <= end[k], NEW c \in Commands
       PROVE  ~IsEcho(lines[i], c)
  <2>1. PICK x \in Nat : x = i - end[k - 1]
    BY <1>8, <1>10
  <2>2. x \in 2..Len(p[k]) /\ i = end[k - 1] + x
    BY <1>7, <1>8, <1>10, <2>1
  <2>3. lines[i] = p[k][x]
    BY <1>1, <1>5, <1>7, <2>2 DEF Ends
  <2>4. p[k][x].kind \notin {"echo", "echoish"}
    BY <2>2 DEF Section
  <2> QED
    BY <2>3, <2>4 DEF IsEcho, Token
<1>11. \A k \in Commands : at[k] = end[k - 1] + 1
  <2> DEFINE G == {0} \cup {k \in Commands : at[k] = end[k - 1] + 1}
  <2>1. ASSUME NEW k \in Commands, k - 1 \in G
        PROVE  k \in G
    <3>1. PICK q \in Nat : q = at[k - 1] /\ IF k = 1 THEN q = 0 ELSE q = end[k - 2] + 1
      <4>1. CASE k = 1
        BY <1>6, <4>1
      <4>2. CASE k # 1
        <5>1. k - 1 \in Commands /\ (k - 1) - 1 = k - 2
          BY <1>1, <4>2
        <5>2. at[k - 1] = end[k - 2] + 1 /\ end[k - 2] \in Nat
          BY <1>1, <1>8, <2>1, <5>1
        <5> QED
          BY <4>2, <5>2
      <4> QED
        BY <4>1, <4>2
    <3>2. PICK s \in Nat : s = end[k - 1] + 1
      BY <1>8
    <3>3. s \in 1..Len(lines) /\ s > q
      <4>1. s \in 1..Len(lines)
        BY <1>4, <1>7, <1>8, <3>2
      <4>2. CASE k = 1
        BY <3>1, <4>1, <4>2
      <4>3. CASE k # 1
        <5>1. k - 1 \in Commands /\ (k - 1) - 1 = k - 2
          BY <1>1, <4>3
        <5>2. end[k - 1] = end[k - 2] + Len(p[k - 1]) /\ Len(p[k - 1]) >= 1 /\ Len(p[k - 1]) \in Nat
              /\ end[k - 2] \in Nat
          BY <1>7, <1>8, <5>1
        <5> QED
          BY <3>1, <3>2, <4>1, <4>3, <5>2
      <4> QED
        BY <4>1, <4>2, <4>3
    <3>4. IsEcho(lines[s], k)
      BY <1>9, <3>2
    <3>5. ASSUME NEW i \in 1..Len(lines), i > q, i < s
          PROVE  ~IsEcho(lines[i], k)
      <4>1. CASE k = 1
        BY <1>1, <1>5, <3>2, <3>5, <4>1 DEF Ends
      <4>2. CASE k # 1
        <5>1. k - 1 \in Commands /\ (k - 1) - 1 = k - 2
          BY <1>1, <4>2
        <5>2. end[k - 2] + 1 < i /\ i <= end[k - 1] /\ i \in Nat
          BY <1>8, <3>1, <3>2, <3>5, <4>2, <5>1
        <5> QED
          BY <1>10, <5>1, <5>2
      <4> QED
        BY <4>1, <4>2
    <3>6. StartAfter(lines, q, k) = s
      BY <1>4, <3>3, <3>4, <3>5, StartIsFirst
    <3>7. at[k] = StartAfter(lines, at[k - 1], commands[k]) /\ commands[k] = k
      BY <1>1, <1>2, <1>6
    <3> QED
      BY <3>1, <3>2, <3>6, <3>7
  <2>2. \A k \in 0..NumCommands : k \in G
    <3>1. G \in SUBSET (0..NumCommands) /\ 0 \in G /\ \A k \in 1..NumCommands : k - 1 \in G => k \in G
      BY <1>1, <2>1
    <3> HIDE DEF G
    <3> QED
      BY <1>1, <3>1, StepByStep
  <2> QED
    BY <1>1, <2>2
<1>12. CASE NumCommands = 1
  <2>1. Sections(lines, commands) = <<lines>>
    BY <1>2, <1>12 DEF Sections
  <2>2. lines = p[1]
    <3>1. Len(p) = 1 /\ 1 \in 1..Len(p)
      BY <1>12
    <3> QED
      BY <3>1 DEF FlattenSeq, lines
  <2> QED
    BY <1>12, <2>1, <2>2 DEF lines, commands
<1>13. CASE NumCommands # 1
  <2> DEFINE b == Boundaries(lines, commands)
             from(i) == IF b[i] = 0 THEN 1 ELSE b[i]
             upTo(i) == IF i = NumCommands THEN Len(lines) ELSE b[i + 1] - 1
  <2>1. \A k \in Commands : b[k] = end[k - 1] + 1 /\ b[k] # 0
    BY <1>1, <1>2, <1>6, <1>8, <1>11
  <2>2. Sections(lines, commands) = [k \in 1..NumCommands |-> SubSeq(lines, from(k), upTo(k))]
    <3>1. ~\E k \in 2..NumCommands : b[k] = 0
      BY <1>1, <2>1
    <3> QED
      BY <1>2, <1>13, <3>1 DEF Sections
  <2>3. ASSUME NEW k \in Commands
        PROVE  from(k) = end[k - 1] + 1 /\ upTo(k) = end[k]
    <3>1. CASE k = NumCommands
      BY <1>1, <1>5, <2>1, <3>1 DEF Ends
    <3>2. CASE k # NumCommands
      <4>1. k + 1 \in Commands /\ (k + 1) - 1 = k
        BY <1>1, <3>2
      <4>2. b[k] = end[k - 1] + 1 /\ b[k] # 0 /\ b[k + 1] = end[k] + 1 /\ end[k] \in Nat
        BY <1>8, <2>1, <4>1
      <4> QED
        BY <3>2, <4>2
    <3> QED
      BY <3>1, <3>2
  <2> HIDE DEF from, upTo, b
  <2>4. ASSUME NEW k \in Commands
        PROVE  SubSeq(lines, from(k), upTo(k)) = p[k]
    <3>1. PICK m \in Nat, n \in Nat : m = end[k - 1] /\ n = end[k]
      BY <1>8
    <3>2. PICK q \in Seq(Tokens) : q = p[k]
      BY <1>3
    <3>3. n = m + Len(q) /\ n \in 0..Len(lines) /\ \A x \in 1..Len(q) : lines[m + x] = q[x]
      BY <1>1, <1>5, <1>8, <3>1, <3>2 DEF Ends
    <3>4. SubSeq(lines, m + 1, n) = q
      BY <1>4, <3>3
    <3> QED
      BY <2>3, <3>1, <3>2, <3>4
  <2>5. p = [k \in 1..NumCommands |-> p[k]]
    OBVIOUS
  <2>6. Sections(lines, commands) = [k \in 1..NumCommands |-> p[k]]
    BY <1>1, <2>2, <2>4
  <2> QED
    BY <2>5, <2>6 DEF lines, commands
<1> QED
  BY <1>12, <1>13

-----------------------------------------------------------------------------
(* What the device prints. *)

\* The replies do not change.
LEMMA SameReplies ==
    ASSUME reply' = reply
    PROVE  /\ \A k : /\ Size(k)' = Size(k) /\ Whole(k)' = Whole(k) /\ Printed(k)' = Printed(k)
                     /\ Misread(k)' <=> Misread(k)
                     /\ Astray(k)' <=> Astray(k)
           /\ \A k, kind : Prints(k, kind)' <=> Prints(k, kind)
           /\ \A data, m, k, left : Own(data, m, k, left)' <=> Own(data, m, k, left)
           /\ \A left, k : Rest(left, k)' <=> Rest(left, k)
           /\ Plain' <=> Plain
<1>1. /\ \A k : Size(k)' = Size(k) /\ Whole(k)' = Whole(k) /\ Printed(k)' = Printed(k)
      /\ \A k, kind : Prints(k, kind)' <=> Prints(k, kind)
  BY DEF Size, Whole, Printed, Prints
<1>2. \A k : Misread(k)' <=> Misread(k)
  BY <1>1 DEF Misread
<1>3. \A k : Astray(k)' <=> Astray(k)
  BY <1>1, <1>2 DEF Astray
<1>4. \A data, m, k, left : Own(data, m, k, left)' <=> Own(data, m, k, left)
  BY <1>1 DEF Own
<1>5. Plain' <=> Plain
  BY <1>1 DEF Plain
<1>6. \A left, k : Rest(left, k)' <=> Rest(left, k)
  BY <1>1 DEF Rest
<1> QED
  BY <1>1, <1>2, <1>3, <1>4, <1>5, <1>6

\* A command is misread for its own reply or for the one before.
LEMMA MisreadFrom ==
    ASSUME NEW k \in Commands
    PROVE  Misread(k) <=> Prints(k, "promptish") \/ Astray(k)
<1>1. k \in Nat /\ k >= 1
  BY SessionAssumption DEF Commands
<1>2. ASSUME Prints(k, "promptish")
      PROVE  Misread(k)
  <2>1. k \in 1..k /\ \A i \in k..(k - 1) : FALSE
    BY <1>1
  <2> QED
    BY <1>2, <2>1 DEF Misread
<1>3. ASSUME Astray(k)
      PROVE  Misread(k)
  <2>1. PICK j \in 1..(k - 1) : Prints(j, "promptish") /\ \A i \in j..((k - 1) - 1) : Prints(i, "echoish")
    BY <1>3 DEF Astray, Misread
  <2>2. j \in 1..k /\ \A i \in j..(k - 1) : i = k - 1 \/ i \in j..((k - 1) - 1)
    BY <1>1
  <2> QED
    BY <1>3, <2>1, <2>2 DEF Astray, Misread
<1>4. ASSUME Misread(k), ~Prints(k, "promptish")
      PROVE  Astray(k)
  <2>1. PICK j \in 1..k : Prints(j, "promptish") /\ \A i \in j..(k - 1) : Prints(i, "echoish")
    BY <1>4 DEF Misread
  <2>2. j # k
    BY <1>4, <2>1
  <2>3. j \in 1..(k - 1) /\ k - 1 \in j..(k - 1) /\ \A i \in j..((k - 1) - 1) : i \in j..(k - 1)
    BY <1>1, <2>2
  <2> QED
    BY <2>1, <2>3 DEF Astray, Misread
<1> QED
  BY <1>2, <1>3, <1>4

LEMMA FirstIsRead ==
    ~Misread(0) /\ ~Astray(1)
<1>1. \A j \in 1..0 : FALSE
  OBVIOUS
<1> QED
  BY <1>1 DEF Misread, Astray

LEMMA WholeReply ==
    ASSUME SessionTypes, NEW k \in Commands
    PROVE  /\ reply[k] \in Seq(ReplyKinds) /\ Len(reply[k]) \in Nat
           /\ Whole(k) \in Seq(Items) /\ Len(Whole(k)) = Size(k) /\ Size(k) = Len(reply[k]) + 2
           /\ Whole(k)[1] = "echo" /\ Whole(k)[Size(k)] = "prompt"
           /\ \A i \in 1..Len(reply[k]) : Whole(k)[i + 1] = reply[k][i] /\ Prints(k, reply[k][i])
           /\ \A i \in 2..(Size(k) - 1) :
                 i - 1 \in 1..Len(reply[k]) /\ Whole(k)[i] \in ReplyKinds /\ Prints(k, Whole(k)[i])
<1>1. PICK r \in Seq(ReplyKinds) : r = reply[k]
  BY DEF SessionTypes
<1>2. r \in Seq(Items) /\ "echo" \in Items /\ "prompt" \in Items
  BY DEF Items
<1>3. PICK e \in Items, p \in Items : e = "echo" /\ p = "prompt"
  BY <1>2
<1>4. PICK w : w = <<e>> \o r \o <<p>>
  OBVIOUS
<1>5. /\ w \in Seq(Items) /\ Len(w) = Len(r) + 2 /\ w[1] = e /\ w[Len(r) + 2] = p
      /\ \A i \in 1..Len(r) : w[i + 1] = r[i]
  BY <1>2, <1>4
<1>6. Whole(k) = w /\ Size(k) = Len(r) + 2
  BY <1>1, <1>3, <1>4 DEF Whole, Size
<1>7. \A i \in 1..Len(r) : Prints(k, r[i]) /\ r[i] \in ReplyKinds
  BY <1>1 DEF Prints, ToSet
<1>8. ASSUME NEW i \in 2..(Len(r) + 1)
      PROVE  i - 1 \in 1..Len(r) /\ w[i] \in ReplyKinds /\ Prints(k, w[i])
  <2>1. i - 1 \in 1..Len(r) /\ (i - 1) + 1 = i
    OBVIOUS
  <2> QED
    BY <1>5, <1>7, <2>1
<1> QED
  BY <1>1, <1>3, <1>5, <1>6, <1>7, <1>8

LEMMA TokenIs ==
    ASSUME NEW t \in Tokens
    PROVE  t = Token(t.kind, t.by)
BY DEF Tokens, Token

LEMMA TokenTypes ==
    ASSUME NEW kind \in Items, kind # "again", NEW k \in Commands
    PROVE  /\ Token(kind, k) \in Tokens /\ Token(kind, k).kind = kind /\ Token(kind, k).by = k
BY DEF Tokens, Token

\* A step of the printer.
LEMMA RestPrints ==
    ASSUME SessionTypes, NEW k \in Commands, NEW left \in Seq(Items), left # <<>>,
           Rest(left, k), Head(left) # "again"
    PROVE  /\ Rest(Tail(left), k)
           /\ Tail(left) = <<>> => Head(left) = "prompt"
           /\ Head(left) = Whole(k)[Size(k) - Len(left) + 1]
           /\ Head(left) \in {"echo", "prompt"} \/ Prints(k, Head(left))
           /\ (Head(left) = "echo") <=> (Len(left) = Size(k))
           /\ Head(left) = "prompt" => ~Prints(k, "again")
<1>1. PICK n \in Nat : n = Len(left) /\ n >= 1
  OBVIOUS
<1>2. PICK w \in Seq(Items), z \in Nat :
         /\ w = Whole(k) /\ z = Size(k) /\ z >= 2 /\ Len(w) = z /\ w[1] = "echo" /\ w[z] = "prompt"
         /\ \A i \in 2..(z - 1) : w[i] \in ReplyKinds /\ Prints(k, w[i])
  BY WholeReply
<1>3. n <= z /\ \A i \in 1..n : left[i] = w[z - n + i]
  BY <1>1, <1>2 DEF Rest
<1>4. PICK h, t : h = Head(left) /\ t = Tail(left)
  OBVIOUS
<1>5. h = left[1] /\ t \in Seq(Items) /\ Len(t) = n - 1 /\ \A i \in 1..(n - 1) : t[i] = left[i + 1]
  BY <1>1, <1>4
<1>6. PICK y \in 1..z : y = z - n + 1 /\ h = w[y]
  BY <1>1, <1>2, <1>3, <1>5
<1>7. \A kind \in ReplyKinds : kind # "echo" /\ kind # "prompt"
  BY DEF ReplyKinds
<1>8. y = 1 \/ y = z \/ y \in 2..(z - 1)
  BY <1>2, <1>6
<1>9. h \in {"echo", "prompt"} \/ Prints(k, h)
  BY <1>2, <1>6, <1>8
<1>10. h = "echo" <=> y = 1
  BY <1>2, <1>6, <1>7, <1>8
<1>11. h = "prompt" <=> y = z
  BY <1>2, <1>6, <1>7, <1>8
<1>12. (y = 1 <=> n = z) /\ (y = z <=> n = 1) /\ (t = <<>> <=> n = 1)
  BY <1>1, <1>2, <1>3, <1>5, <1>6
<1>13. ASSUME Prints(k, "again")
       PROVE  \E i \in DOMAIN t : t[i] = "again"
  <2>1. PICK i \in 1..n : left[i] = "again"
    BY <1>1, <1>13 DEF Rest
  <2>2. i # 1
    BY <1>4, <1>5, <2>1
  <2>3. i - 1 \in 1..(n - 1) /\ (i - 1) + 1 = i
    BY <2>2
  <2>4. t[i - 1] = "again" /\ i - 1 \in DOMAIN t
    BY <1>5, <2>1, <2>3
  <2> QED
    BY <2>4
<1>14. h = "prompt" => ~Prints(k, "again")
  <2>1. SUFFICES ASSUME h = "prompt", Prints(k, "again") PROVE FALSE
    OBVIOUS
  <2>2. PICK i \in 1..n : left[i] = "again"
    BY <1>1, <2>1 DEF Rest
  <2>3. i = 1
    BY <1>11, <1>12, <2>1, <2>2
  <2> QED
    BY <1>5, <2>1, <2>2, <2>3
<1>15. Rest(t, k)
  <2>1. \A i \in 1..(n - 1) : t[i] = w[z - (n - 1) + i]
    <3> SUFFICES ASSUME NEW i \in 1..(n - 1) PROVE t[i] = w[z - (n - 1) + i]
      OBVIOUS
    <3>1. i + 1 \in 1..n /\ z - n + (i + 1) = z - (n - 1) + i
      <4>1. i \in Nat /\ i >= 1 /\ i <= n - 1
        OBVIOUS
      <4> QED
        BY <4>1
    <3>2. t[i] = left[i + 1] /\ left[i + 1] = w[z - n + (i + 1)]
      BY <1>3, <1>5, <3>1
    <3> QED
      BY <3>1, <3>2
  <2>2. Len(t) <= z /\ Len(t) = n - 1 /\ DOMAIN t = 1..(n - 1)
    BY <1>1, <1>2, <1>3, <1>5
  <2> QED
    BY <1>2, <1>13, <2>1, <2>2 DEF Rest
<1> QED
  BY <1>1, <1>2, <1>4, <1>6, <1>9, <1>10, <1>11, <1>12, <1>14, <1>15

LEMMA OwnPrints ==
    ASSUME SessionTypes, NEW k \in Commands, NEW left \in Seq(Items), left # <<>>,
           Rest(left, k), Head(left) # "again",
           NEW data \in Seq(Tokens), NEW m \in Nat, Own(data, m, k, left)
    PROVE  Own(Append(data, Token(Head(left), k)), m, k, Tail(left))
<1>1. PICK n \in Nat : n = Len(left) /\ n >= 1
  OBVIOUS
<1>2. PICK z \in Nat : z = Size(k)
  BY WholeReply
<1>3. PICK h \in Items, t \in Seq(Items) : h = Head(left) /\ t = Tail(left) /\ Len(t) = n - 1
  <2>1. Head(left) \in Items /\ Tail(left) \in Seq(Items) /\ Len(Tail(left)) = n - 1
    BY <1>1
  <2> QED
    BY <2>1
<1>4. /\ h = Whole(k)[z - n + 1] /\ h # "again"
      /\ h = "echo" <=> n = z
      /\ h = "prompt" => ~Prints(k, "again")
      /\ n <= z
  BY <1>1, <1>2, <1>3, RestPrints DEF Rest
<1>5. PICK x \in Tokens : x = Token(h, k) /\ x.kind = h /\ x.by = k
  BY <1>3, TokenTypes
<1>6. PICK l \in Nat : l = Len(data)
  OBVIOUS
<1>7. PICK d : d = Append(data, x)
  OBVIOUS
<1>8. d \in Seq(Tokens) /\ Len(d) = l + 1 /\ d[l + 1] = x /\ \A i \in 1..l : d[i] = data[i]
  BY <1>5, <1>6, <1>7
<1>9. /\ m <= l /\ \A i \in 1..m : data[i].by < k
      /\ \A i \in (m + 1)..l : data[i].by = k /\ (data[i].kind = "echo" <=> i = m + 1)
      /\ l = m <=> n = z
  BY <1>1, <1>2, <1>6 DEF Own
<1>10. \A i \in 1..m : d[i].by < k
  BY <1>8, <1>9
<1>11. ASSUME NEW i \in (m + 1)..(l + 1)
       PROVE  d[i].by = k /\ (d[i].kind = "echo" <=> i = m + 1)
  <2>1. CASE i = l + 1
    <3>1. i = m + 1 <=> l = m
      BY <1>6, <2>1
    <3> QED
      BY <1>4, <1>5, <1>8, <1>9, <2>1, <3>1
  <2>2. CASE i # l + 1
    BY <1>8, <1>9, <2>2
  <2> QED
    BY <2>1, <2>2
<1>12. ~(Len(d) = m) /\ ~(Len(t) = z)
  BY <1>1, <1>3, <1>4, <1>8, <1>9
<1>13. CASE Prints(k, "again")
  <2>1. \A i \in (m + 1)..l : data[i].kind # "prompt"
    BY <1>6, <1>13 DEF Own
  <2>2. \A i \in (m + 1)..(l + 1) : d[i].kind # "prompt"
    <3>1. \A i \in (m + 1)..(l + 1) : i = l + 1 \/ (i \in (m + 1)..l /\ i \in 1..l)
      BY <1>6
    <3>2. x.kind # "prompt"
      BY <1>4, <1>5, <1>13
    <3> QED
      BY <1>8, <2>1, <3>1, <3>2
  <2>3. Own(d, m, k, t)
    BY <1>2, <1>8, <1>9, <1>10, <1>11, <1>12, <1>13, <2>2 DEF Own
  <2> QED
    BY <1>3, <1>5, <1>7, <2>3
<1>14. CASE ~Prints(k, "again")
  <2>1. l = m + z - n /\ \A i \in (m + 1)..l : data[i].kind = Whole(k)[i - m]
    BY <1>1, <1>2, <1>6, <1>14 DEF Own
  <2>2. \A i \in (m + 1)..(l + 1) : d[i].kind = Whole(k)[i - m]
    <3>1. (l + 1) - m = z - n + 1
      BY <1>1, <1>2, <2>1
    <3>2. \A i \in (m + 1)..(l + 1) : i = l + 1 \/ (i \in (m + 1)..l /\ i \in 1..l)
      BY <1>6
    <3>3. d[l + 1].kind = Whole(k)[(l + 1) - m]
      BY <1>4, <1>5, <1>8, <3>1
    <3> QED
      BY <1>8, <2>1, <3>2, <3>3
  <2>3. Len(d) = m + z - Len(t)
    BY <1>1, <1>2, <1>3, <1>8, <2>1
  <2>4. Own(d, m, k, t)
    BY <1>2, <1>8, <1>9, <1>10, <1>11, <1>12, <1>14, <2>2, <2>3 DEF Own
  <2> QED
    BY <1>3, <1>5, <1>7, <2>4
<1> QED
  BY <1>13, <1>14

LEMMA RestAgain ==
    ASSUME SessionTypes, NEW k \in Commands, NEW left \in Seq(Items), left # <<>>,
           Rest(left, k), Head(left) = "again"
    PROVE  /\ reply[k] \o <<"prompt">> \in Seq(Items) /\ reply[k] \o <<"prompt">> # <<>>
           /\ Rest(reply[k] \o <<"prompt">>, k)
           /\ \A data, m : Own(data, m, k, left) => Own(data, m, k, reply[k] \o <<"prompt">>)
<1>1. PICK n \in Nat : n = Len(left) /\ n >= 1
  OBVIOUS
<1>2. PICK w \in Seq(Items), z \in Nat :
         /\ w = Whole(k) /\ z = Size(k) /\ z >= 2 /\ Len(w) = z /\ w[1] = "echo" /\ w[z] = "prompt"
         /\ \A i \in 2..(z - 1) : w[i] \in ReplyKinds /\ Prints(k, w[i])
  <2>1. Size(k) \in Nat /\ Size(k) >= 2
    BY WholeReply
  <2> QED
    BY <2>1, WholeReply
<1>3. n <= z /\ left[1] = w[z - n + 1] /\ left[1] = "again"
  BY <1>1, <1>2 DEF Rest
<1>4. z - n + 1 # 1 /\ z - n + 1 # z
  BY <1>2, <1>3
<1>5. z - n + 1 \in 2..(z - 1)
  BY <1>1, <1>2, <1>3, <1>4
<1>6. Prints(k, "again") /\ n # z
  <2>1. Prints(k, w[z - n + 1])
    BY <1>2, <1>5
  <2>2. z - n + 1 # 1 => n # z
    BY <1>1, <1>2
  <2> QED
    BY <1>3, <1>4, <2>1, <2>2
<1>7. PICK r \in Seq(ReplyKinds) : r = reply[k] /\ Len(r) = z - 2 /\ \A i \in 1..Len(r) : w[i + 1] = r[i]
  BY <1>2, WholeReply
<1>8. PICK p \in Items : p = "prompt"
  BY DEF Items
<1>9. r \in Seq(Items)
  BY DEF Items
<1>10. PICK l : l = r \o <<p>>
  OBVIOUS
<1>11. /\ l \in Seq(Items) /\ Len(l) = z - 1 /\ l[z - 1] = p /\ \A i \in 1..(z - 2) : l[i] = r[i]
  BY <1>2, <1>7, <1>8, <1>9, <1>10
<1>12. \A i \in 1..(z - 1) : l[i] = w[i + 1]
  <2>1. \A i \in 1..(z - 1) : i = z - 1 \/ i \in 1..(z - 2)
    BY <1>2
  <2> QED
    BY <1>2, <1>7, <1>8, <1>11, <2>1
<1>13. PICK j \in 1..(z - 2) : l[j] = "again"
  <2>1. PICK j \in DOMAIN r : r[j] = "again"
    BY <1>6, <1>7 DEF Prints, ToSet
  <2>2. j \in 1..(z - 2)
    BY <1>2, <1>7, <2>1
  <2> QED
    BY <1>11, <2>1, <2>2
<1>14. Rest(l, k)
  <2>1. \A i \in 1..(z - 1) : z - (z - 1) + i = i + 1
    BY <1>2
  <2>2. Len(l) <= z /\ DOMAIN l = 1..(z - 1) /\ j \in DOMAIN l
    BY <1>2, <1>11, <1>13
  <2>3. \A i \in DOMAIN l : l[i] = w[z - Len(l) + i]
    BY <1>11, <1>12, <2>1, <2>2
  <2> QED
    BY <1>2, <1>13, <2>2, <2>3 DEF Rest
<1>15. ASSUME NEW data, NEW m, Own(data, m, k, left)
       PROVE  Own(data, m, k, l)
  <2>1. ~(Len(data) = m) /\ ~(Len(l) = z)
    BY <1>1, <1>2, <1>6, <1>11, <1>15 DEF Own
  <2> QED
    BY <1>2, <1>6, <1>15, <2>1 DEF Own
<1>16. l = reply[k] \o <<"prompt">>
  BY <1>7, <1>8, <1>10
<1> QED
  BY <1>2, <1>11, <1>14, <1>15, <1>16

\* The device takes command k.
LEMMA RestWhole ==
    ASSUME SessionTypes, NEW k \in Commands
    PROVE  /\ Rest(Whole(k), k) /\ Whole(k) # <<>>
           /\ \A data \in Seq(Tokens) :
                 (\A i \in DOMAIN data : data[i].by < k) => Own(data, Len(data), k, Whole(k))
<1>1. PICK w \in Seq(Items), z \in Nat :
         /\ w = Whole(k) /\ z = Size(k) /\ z = Len(reply[k]) + 2 /\ Len(w) = z /\ z >= 2
         /\ \A i \in 1..Len(reply[k]) : w[i + 1] = reply[k][i]
  BY WholeReply
<1>2. Prints(k, "again") => \E i \in DOMAIN w : w[i] = "again"
  <2>1. SUFFICES ASSUME Prints(k, "again") PROVE \E i \in DOMAIN w : w[i] = "again"
    OBVIOUS
  <2>2. PICK j \in DOMAIN reply[k] : reply[k][j] = "again"
    BY <2>1 DEF Prints, ToSet
  <2>3. j \in 1..Len(reply[k]) /\ Len(reply[k]) \in Nat
    BY <2>2, WholeReply
  <2>4. j + 1 \in DOMAIN w
    BY <1>1, <2>3
  <2> QED
    BY <1>1, <2>2, <2>3, <2>4
<1>3. \A i \in 1..z : z - z + i = i
  OBVIOUS
<1>4. Rest(w, k)
  BY <1>1, <1>2, <1>3 DEF Rest
<1>5. ASSUME NEW data \in Seq(Tokens), \A i \in DOMAIN data : data[i].by < k
      PROVE  Own(data, Len(data), k, w)
  <2>1. PICK l \in Nat : l = Len(data)
    OBVIOUS
  <2>2. l \in 0..l /\ (\A i \in (l + 1)..l : FALSE) /\ l = l + z - z /\ \A i \in 1..l : data[i].by < k
    BY <1>5, <2>1
  <2> QED
    BY <1>1, <2>1, <2>2 DEF Own
<1> QED
  BY <1>1, <1>4, <1>5

\* netmiko forgets what came before the echo.
LEMMA OwnFromEcho ==
    ASSUME SessionTypes, NEW k \in Commands, NEW left,
           NEW data \in Seq(Tokens), NEW m \in Nat, m < Len(data), Own(data, m, k, left),
           left \in Seq(Items)
    PROVE  /\ Own(SubSeq(data, m + 1, Len(data)), 0, k, left)
           /\ SubSeq(data, m + 1, Len(data)) # <<>>
<1>1. PICK l \in Nat : l = Len(data)
  OBVIOUS
<1>2. PICK d : d = SubSeq(data, m + 1, l)
  OBVIOUS
<1>3. d \in Seq(Tokens) /\ Len(d) = l - m /\ \A i \in 1..(l - m) : d[i] = data[m + i]
  BY <1>1, <1>2
<1>4. PICK z \in Nat : z = Size(k)
  BY WholeReply
<1>5. \A i \in 1..(l - m) : m + i \in (m + 1)..l /\ (m + i = m + 1 <=> i = 1) /\ (m + i) - m = i - 0
  BY <1>1
<1>6. \A i \in 1..(l - m) : d[i].by = k /\ (d[i].kind = "echo" <=> i = 0 + 1)
  BY <1>1, <1>3, <1>5 DEF Own
<1>7. Len(left) # z /\ Len(d) # 0 /\ Len(left) \in Nat
  BY <1>1, <1>3, <1>4 DEF Own
<1>8. CASE Prints(k, "again")
  <2>1. \A i \in 1..(l - m) : d[i].kind # "prompt"
    BY <1>1, <1>3, <1>5, <1>8 DEF Own
  <2>2. Own(d, 0, k, left)
    BY <1>3, <1>4, <1>6, <1>7, <1>8, <2>1 DEF Own
  <2> QED
    BY <1>1, <1>2, <1>7, <2>2
<1>9. CASE ~Prints(k, "again")
  <2>1. \A i \in 1..(l - m) : d[i].kind = Whole(k)[i - 0]
    BY <1>1, <1>3, <1>5, <1>9 DEF Own
  <2>2. Len(d) = 0 + z - Len(left)
    BY <1>1, <1>3, <1>4, <1>7, <1>9 DEF Own
  <2>3. Own(d, 0, k, left)
    BY <1>3, <1>4, <1>6, <1>7, <1>9, <2>1, <2>2 DEF Own
  <2> QED
    BY <1>1, <1>2, <1>7, <2>3
<1> QED
  BY <1>8, <1>9

-----------------------------------------------------------------------------
(* What is read for a command that is not misread. *)

KindsOf(data) == \A i \in DOMAIN data : data[i].kind \in {"echo", "prompt"} \/ Prints(data[i].by, data[i].kind)

\* The reply to k from its start.
ReadFor(got, k) ==
    /\ got[1] = Token("echo", k)
    /\ \A i \in DOMAIN got : got[i].by = k /\ (got[i].kind = "echo" <=> i = 1)

LEMMA ReadBy ==
    ASSUME NEW k \in Commands, NEW left, NEW got \in Seq(Tokens), NEW rest \in Seq(Tokens),
           NEW d, d = got \o rest, got # <<>>, Own(d, 0, k, left)
    PROVE  ReadFor(got, k)
<1>2. /\ d \in Seq(Tokens) /\ Len(got) >= 1 /\ Len(d) = Len(got) + Len(rest)
      /\ \A i \in 1..Len(got) : d[i] = got[i]
  OBVIOUS
<1>3. \A i \in (0 + 1)..Len(d) : d[i].by = k /\ (d[i].kind = "echo" <=> i = 0 + 1)
  BY DEF Own
<1>4. \A i \in 1..Len(got) : i \in (0 + 1)..Len(d)
  BY <1>2
<1>5. \A i \in 1..Len(got) : got[i].by = k /\ (got[i].kind = "echo" <=> i = 1)
  BY <1>2, <1>3, <1>4
<1>6. PICK t \in Tokens : t = got[1]
  BY <1>2
<1>7. t.kind = "echo" /\ t.by = k /\ t = Token(t.kind, t.by)
  BY <1>2, <1>5, <1>6, TokenIs
<1>8. DOMAIN got = 1..Len(got)
  OBVIOUS
<1> QED
  BY <1>5, <1>6, <1>7, <1>8 DEF ReadFor

LEMMA PartIsSection ==
    ASSUME NEW k \in Commands, NEW left, NEW got \in Seq(Tokens), NEW rest \in Seq(Tokens),
           NEW d, d = got \o rest, got # <<>>, Own(d, 0, k, left), KindsOf(got), Plain
    PROVE  Section(Stripped(got), k)
<1>1. /\ got[1] = Token("echo", k)
      /\ \A i \in DOMAIN got : got[i].by = k /\ (got[i].kind = "echo" <=> i = 1)
  <2>1. ReadFor(got, k)
    BY ReadBy
  <2> QED
    BY <2>1 DEF ReadFor
<1>2. got[1].kind = "echo"
  BY <1>1 DEF Token
<1>3. PICK s : s = Stripped(got)
  OBVIOUS
<1>4. /\ s \in Seq(Tokens) /\ s # <<>> /\ s[1] = Token("echo", k)
      /\ \A i \in 2..Len(s) : \E j \in 2..Len(got) : s[i] = got[j]
  BY <1>1, <1>2, <1>3, StrippedKeeps
<1>5. ASSUME NEW j \in 2..Len(got)
      PROVE  got[j].by = k /\ got[j].kind \notin {"echo", "echoish"}
  <2>1. j \in DOMAIN got /\ j # 1
    OBVIOUS
  <2>2. got[j].by = k /\ got[j].kind # "echo"
    BY <1>1, <2>1
  <2>3. got[j].kind # "echoish"
    BY <2>1, <2>2 DEF KindsOf, Plain
  <2> QED
    BY <2>2, <2>3
<1> QED
  BY <1>3, <1>4, <1>5 DEF Section

LEMMA WholeIsRead ==
    ASSUME SessionTypes, NEW k \in Commands, NEW left \in Seq(Items),
           NEW got \in Seq(Tokens), NEW rest \in Seq(Tokens),
           NEW d, d = got \o rest, got # <<>>, Own(d, 0, k, left), KindsOf(got),
           Holds(got, PromptLike), ~Prints(k, "promptish")
    PROVE  Stripped(got) = Printed(k) /\ rest = <<>> /\ left = <<>>
<1>1. PICK z \in Nat, r \in Seq(ReplyKinds) :
         /\ z = Size(k) /\ z >= 2 /\ r = reply[k] /\ Len(r) = z - 2 /\ Whole(k)[z] = "prompt"
         /\ \A i \in 1..Len(r) : Whole(k)[i + 1] = r[i] /\ Prints(k, r[i])
  <2>1. /\ Size(k) \in Nat /\ Size(k) >= 2 /\ reply[k] \in Seq(ReplyKinds) /\ Len(reply[k]) = Size(k) - 2
        /\ Whole(k)[Size(k)] = "prompt"
    BY WholeReply
  <2>2. \A i \in 1..Len(reply[k]) : Whole(k)[i + 1] = reply[k][i] /\ Prints(k, reply[k][i])
    BY WholeReply
  <2> QED
    BY <2>1, <2>2
<1>3. /\ d \in Seq(Tokens) /\ Len(d) = Len(got) + Len(rest)
      /\ \A i \in 1..Len(got) : d[i] = got[i]
  OBVIOUS
<1>4. /\ got[1] = Token("echo", k)
      /\ \A i \in DOMAIN got : got[i].by = k /\ (got[i].kind = "echo" <=> i = 1)
  <2>1. ReadFor(got, k)
    BY ReadBy
  <2> QED
    BY <2>1 DEF ReadFor
<1>5. PICK e \in 1..Len(got) : got[e].kind \in {"prompt", "promptish"}
  BY DEF Holds, Is, PromptLike
<1>6. got[e].kind = "prompt"
  <2>1. e \in DOMAIN got
    OBVIOUS
  <2>2. got[e].by = k
    BY <1>4, <2>1
  <2> QED
    BY <1>5, <2>1, <2>2 DEF KindsOf
<1>7. ~Prints(k, "again")
  <2>1. e \in (0 + 1)..Len(d) /\ d[e].kind = "prompt"
    BY <1>3, <1>6
  <2> QED
    BY <2>1 DEF Own
<1>8. Len(d) = z - Len(left) /\ \A i \in 1..Len(d) : d[i].kind = Whole(k)[i]
  <2>1. Len(d) = 0 + z - Len(left) /\ \A i \in (0 + 1)..Len(d) : d[i].kind = Whole(k)[i - 0]
    BY <1>1, <1>7 DEF Own
  <2>2. Len(d) \in Nat /\ Len(left) \in Nat
    BY <1>3
  <2>3. Len(d) = z - Len(left)
    BY <2>1, <2>2
  <2>4. \A i \in 1..Len(d) : i \in (0 + 1)..Len(d) /\ i - 0 = i
    BY <2>2
  <2> QED
    BY <2>1, <2>3, <2>4
<1>9. e = z
  <2>1. e \in 1..Len(d) /\ e <= z
    BY <1>3, <1>8
  <2>2. Whole(k)[e] = "prompt"
    BY <1>3, <1>6, <1>8, <2>1
  <2>3. \A kind \in ReplyKinds : kind # "prompt"
    BY DEF ReplyKinds
  <2>4. e # 1
    BY <1>4, <1>6 DEF Token
  <2>5. CASE e # z
    <3>1. e - 1 \in 1..Len(r) /\ (e - 1) + 1 = e
      BY <1>1, <2>1, <2>4, <2>5
    <3>2. Whole(k)[e] = r[e - 1] /\ r[e - 1] \in ReplyKinds
      BY <1>1, <3>1
    <3> QED
      BY <2>2, <2>3, <3>2
  <2> QED
    BY <2>5
<1>10. Len(left) = 0 /\ Len(rest) = 0 /\ Len(got) = z
  <2>1. Len(got) \in Nat /\ Len(rest) \in Nat /\ Len(left) \in Nat /\ e <= Len(got)
    OBVIOUS
  <2> QED
    BY <1>3, <1>8, <1>9, <2>1
<1> DEFINE q == [i \in DOMAIN reply[k] |-> Token(reply[k][i], k)]
<1>11. PICK p \in Seq(Tokens) : p = q /\ Len(p) = z - 2 /\ \A i \in 1..(z - 2) : p[i] = Token(r[i], k)
  <2>1. \A kind \in ReplyKinds : kind \in Items
    BY DEF Items
  <2>2. \A i \in 1..(z - 2) : r[i] # "again" /\ r[i] \in Items
    BY <1>1, <1>7, <2>1
  <2>3. \A i \in 1..(z - 2) : Token(r[i], k) \in Tokens
    BY <2>2, TokenTypes
  <2>4. DOMAIN r = 1..(z - 2) /\ z - 2 \in Nat
    BY <1>1
  <2>5. q = [i \in 1..(z - 2) |-> Token(r[i], k)]
    BY <1>1, <2>4
  <2>6. [i \in 1..(z - 2) |-> Token(r[i], k)] \in Seq(Tokens)
    BY <2>3, <2>4
  <2>7. PICK v : v = [i \in 1..(z - 2) |-> Token(r[i], k)]
    OBVIOUS
  <2>8. Len(v) = z - 2 /\ \A i \in 1..(z - 2) : v[i] = Token(r[i], k)
    BY <2>4, <2>7
  <2> QED
    BY <2>5, <2>6, <2>7, <2>8
<1>12. ASSUME NEW i \in 1..Len(p)
       PROVE  got[i + 1] = p[i] /\ ~Is(p[i], PromptLike)
  <2>1. i \in 1..Len(r) /\ i + 1 \in 1..Len(got) /\ i + 1 \in 1..Len(d)
    BY <1>1, <1>3, <1>10, <1>11
  <2>2. PICK t \in Tokens : t = got[i + 1]
    BY <2>1
  <2>3. t.kind = r[i] /\ t.by = k
    <3>1. d[i + 1] = got[i + 1] /\ d[i + 1].kind = Whole(k)[i + 1]
      BY <1>3, <1>8, <2>1
    <3>2. Whole(k)[i + 1] = r[i]
      BY <1>1, <2>1
    <3>3. i + 1 \in DOMAIN got
      BY <2>1
    <3> QED
      BY <1>4, <2>2, <3>1, <3>2, <3>3
  <2>4. t = p[i]
    BY <1>1, <1>11, <2>1, <2>3, TokenIs
  <2>5. r[i] # "prompt" /\ r[i] # "promptish"
    <3>1. Prints(k, r[i]) /\ r[i] \in ReplyKinds
      BY <1>1, <2>1
    <3> QED
      BY <3>1 DEF ReplyKinds
  <2> QED
    BY <2>2, <2>3, <2>4, <2>5 DEF Is, PromptLike
<1>13. Stripped(got) = <<got[1]>> \o Unmarked(p)
  <2>1. Len(got) = Len(p) + 2
    BY <1>1, <1>10, <1>11
  <2>2. got[1].kind = "echo" /\ got[Len(got)].kind = "prompt"
    BY <1>4, <1>6, <1>9, <1>10 DEF Token
  <2> QED
    BY <1>12, <2>1, <2>2, StrippedWhole
<1>14. Stripped(got) = Printed(k)
  BY <1>4, <1>11, <1>13 DEF Printed
<1> QED
  BY <1>10, <1>14

LEMMA StrippedTypes ==
    ASSUME NEW got \in Seq(Tokens)
    PROVE  Stripped(got) \in Seq(Tokens)
<1> DEFINE prompts(u) == {i \in DOMAIN u : Is(u[i], PromptLike)}
           last(u) == CHOOSE i \in prompts(u) : \A j \in prompts(u) : j <= i
<1>1. PICK u \in Seq(Tokens) : u = Unmarked(got)
  <2>1. PICK kept : Unmarked(got) = kept[Len(got)] /\ \A i \in 0..Len(got) : kept[i] \in Seq(Tokens)
    BY UnmarkedSteps
  <2>2. Len(got) \in 0..Len(got)
    OBVIOUS
  <2> QED
    BY <2>1, <2>2
<1>2. Stripped(got) = IF prompts(u) = {} THEN u ELSE SubSeq(u, 1, last(u) - 1)
  BY <1>1 DEF Stripped
<1>3. prompts(u) # {} => last(u) \in 1..Len(u)
  <2>1. prompts(u) \subseteq 1..Len(u) /\ Len(u) \in Nat
    OBVIOUS
  <2>2. PICK s : s = prompts(u)
    OBVIOUS
  <2>3. s # {} => \E i \in s : \A j \in s : j <= i
    BY <2>1, <2>2, GreatestNumber
  <2>4. s # {} => (CHOOSE i \in s : \A j \in s : j <= i) \in s
    BY <2>3
  <2> QED
    BY <2>1, <2>2, <2>4
<1> HIDE DEF prompts, last
<1>4. \A n \in 1..Len(u) : SubSeq(u, 1, n - 1) \in Seq(Tokens)
  OBVIOUS
<1> QED
  BY <1>2, <1>3, <1>4

-----------------------------------------------------------------------------
(* What each operation changes. *)

LEMMA DeviceFields ==
    ASSUME SessionTypes
    PROVE  /\ device.left \in Seq(Items) /\ device.by \in 0..NumCommands
           /\ device.input \in Seq(0..NumCommands) /\ device.paused \in BOOLEAN
BY DEF SessionTypes, Devices

LEMMA ClientFields ==
    ASSUME SessionTypes
    PROVE  /\ client.pc \in {"connect", "send", "echo", "read", "page", "turned", "done", "failed"}
           /\ client.cmd \in 0..NumCommands /\ client.got \in Seq(Tokens)
           /\ client.idle \in Nat /\ client.total \in Nat
           /\ wire \in Seq(Tokens) /\ Data \in Seq(Tokens) /\ Len(Data) = Len(client.got) + Len(wire)
<1>1. /\ client.pc \in {"connect", "send", "echo", "read", "page", "turned", "done", "failed"}
      /\ client.cmd \in 0..NumCommands /\ client.got \in Seq(Tokens)
      /\ client.idle \in Nat /\ client.total \in Nat /\ wire \in Seq(Tokens)
  BY DEF SessionTypes, Clients
<1>2. PICK g \in Seq(Tokens), w \in Seq(Tokens) : g = client.got /\ w = wire
  BY <1>1
<1>3. g \o w \in Seq(Tokens) /\ Len(g \o w) = Len(g) + Len(w)
  OBVIOUS
<1> QED
  BY <1>1, <1>2, <1>3 DEF Data

\* The device is at some command whenever it has something to print.
LEMMA PrintEffect ==
    ASSUME SessionTypes, DeviceInv, PrintToken
    PROVE  /\ device.by \in Commands /\ Rest(device.left, device.by) /\ device.left # <<>>
           /\ device'.by = device.by /\ device'.input = device.input
           /\ IF Head(device.left) = "again"
              THEN wire' = wire /\ device'.left = reply[device.by] \o <<"prompt">>
              ELSE /\ wire' = Append(wire, Token(Head(device.left), device.by))
                   /\ device'.left = Tail(device.left)
           /\ device' \in Devices /\ wire' \in Seq(Tokens)
           /\ device'.left = <<>> => device'.paused = FALSE
           /\ UNCHANGED <<reply, client, parts, events>>
<1>1. device.left # <<>> /\ device.paused = FALSE
  BY DeviceFields DEF PrintToken
<1>2. device.by \in Commands /\ Rest(device.left, device.by)
  <2>1. device.by # 0 /\ device.by \in 0..NumCommands
    BY <1>1, DeviceFields DEF DeviceInv
  <2> QED
    BY <2>1, SessionAssumption DEF DeviceInv, Commands
<1>3. PICK left \in Seq(Items), k \in Commands, input \in Seq(0..NumCommands), p \in BOOLEAN :
         /\ left = device.left /\ k = device.by /\ input = device.input /\ p = device.paused
         /\ device = [left |-> left, by |-> k, paused |-> p, input |-> input]
         /\ Rest(left, k) /\ left # <<>>
  BY <1>1, <1>2, DeviceFields DEF SessionTypes, Devices
<1>4. k \in 0..NumCommands
  BY DEF Commands
<1>5. CASE Head(left) = "again"
  <2>1. /\ device' = [device EXCEPT !.left = reply[device.by] \o <<"prompt">>] /\ wire' = wire
        /\ UNCHANGED <<reply, client, parts, events>>
    BY <1>3, <1>5 DEF PrintToken
  <2>2. PICK l \in Seq(Items) : l = reply[k] \o <<"prompt">> /\ l # <<>>
    BY <1>3, <1>5, RestAgain
  <2>3. device' = [left |-> l, by |-> k, paused |-> p, input |-> input]
    <3>1. device' = [device EXCEPT !.left = l]
      BY <1>3, <2>1, <2>2
    <3>2. device = [left |-> left, by |-> k, paused |-> p, input |-> input]
      BY <1>3
    <3> QED
      BY <3>1, <3>2
  <2>4. device' \in Devices
    BY <1>4, <2>3 DEF Devices
  <2> QED
    BY <1>1, <1>2, <1>3, <1>5, <2>1, <2>2, <2>3, <2>4 DEF SessionTypes
<1>6. CASE Head(left) # "again"
  <2>1. /\ device' = [device EXCEPT !.left = Tail(@), !.paused = (Head(left) = "more")]
        /\ wire' = Append(wire, Token(Head(left), k))
        /\ UNCHANGED <<reply, client, parts, events>>
    BY <1>3, <1>6 DEF PrintToken
  <2>2. PICK l \in Seq(Items), h \in Items : l = Tail(left) /\ h = Head(left) /\ h # "again"
    <3>1. Tail(left) \in Seq(Items) /\ Head(left) \in Items
      BY <1>3
    <3> QED
      BY <1>6, <3>1
  <2>3. PICK m \in BOOLEAN : m = (h = "more")
    OBVIOUS
  <2>4. device' = [left |-> l, by |-> k, paused |-> m, input |-> input]
    BY <1>3, <2>1, <2>2, <2>3
  <2>5. device' \in Devices
    BY <1>4, <2>4 DEF Devices
  <2>6. l = <<>> => m = FALSE
    <3>1. l = <<>> => h = "prompt"
      BY <1>3, <1>6, <2>2, RestPrints
    <3> QED
      BY <2>3, <3>1
  <2>7. PICK t \in Tokens : t = Token(Head(left), k)
    BY <2>2, TokenTypes
  <2>8. wire' \in Seq(Tokens)
    BY <2>1, <2>7 DEF SessionTypes
  <2>9. device'.by = k /\ device'.input = input /\ device'.left = l /\ device'.paused = m
    BY <2>4
  <2> QED
    BY <1>1, <1>2, <1>3, <1>6, <2>1, <2>2, <2>5, <2>6, <2>8, <2>9
<1> QED
  BY <1>3, <1>5, <1>6

LEMMA TakeEffect ==
    ASSUME SessionTypes, DeviceInv, TakeInput
    PROVE  /\ device.input # <<>> /\ device'.input = Tail(device.input)
           /\ \/ device'.by = device.by /\ device'.left = device.left
              \/ /\ Head(device.input) \in Commands /\ device.left = <<>>
                 /\ device'.by = Head(device.input) /\ device'.left = Whole(Head(device.input))
           /\ device' \in Devices /\ device'.paused = FALSE
           /\ UNCHANGED <<reply, wire, client, parts, events>>
<1>1. PICK left \in Seq(Items), k \in 0..NumCommands, input \in Seq(0..NumCommands), p \in BOOLEAN :
         /\ left = device.left /\ k = device.by /\ input = device.input /\ p = device.paused
         /\ device = [left |-> left, by |-> k, paused |-> p, input |-> input]
  BY DeviceFields DEF SessionTypes, Devices
<1>2. input # <<>> /\ (p \/ left = <<>>) /\ UNCHANGED <<reply, wire, client, parts, events>>
  BY <1>1 DEF TakeInput
<1>3. PICK c \in 0..NumCommands, rest \in Seq(0..NumCommands) : c = Head(input) /\ rest = Tail(input)
  <2>1. Head(input) \in 0..NumCommands /\ Tail(input) \in Seq(0..NumCommands)
    <3>1. PICK T : T = 0..NumCommands
      OBVIOUS
    <3>2. PICK q \in Seq(T) : q = input /\ q # <<>>
      BY <1>2, <3>1
    <3>3. Head(q) \in T /\ Tail(q) \in Seq(T)
      BY <3>2
    <3> QED
      BY <3>1, <3>2, <3>3
  <2> QED
    BY <2>1
<1>4. CASE p \/ c = 0
  <2>1. device' = [device EXCEPT !.input = Tail(@), !.paused = FALSE]
    BY <1>1, <1>3, <1>4 DEF TakeInput
  <2>2. device' = [left |-> left, by |-> k, paused |-> FALSE, input |-> rest]
    BY <1>1, <1>3, <2>1
  <2>3. device' \in Devices
    BY <2>2 DEF Devices
  <2> QED
    BY <1>1, <1>2, <1>3, <2>2, <2>3
<1>5. CASE ~(p \/ c = 0)
  <2>1. device' = [device EXCEPT !.input = Tail(@), !.by = c,
                                 !.left = <<"echo">> \o reply[c] \o <<"prompt">>]
    BY <1>1, <1>3, <1>5 DEF TakeInput
  <2>2. c \in Commands /\ left = <<>>
    BY <1>2, <1>5 DEF Commands
  <2>3. PICK l \in Seq(Items) : l = Whole(c)
    BY <2>2, WholeReply
  <2>4. l = <<"echo">> \o reply[c] \o <<"prompt">>
    BY <2>3 DEF Whole
  <2>5. p = FALSE
    BY <1>5
  <2>6. device' = [left |-> l, by |-> c, paused |-> FALSE, input |-> rest]
    BY <1>1, <1>3, <2>1, <2>4, <2>5
  <2>7. device' \in Devices
    BY <2>6 DEF Devices
  <2> QED
    BY <1>1, <1>2, <1>3, <2>2, <2>3, <2>6, <2>7
<1> QED
  BY <1>4, <1>5

LEMMA TypedEffect ==
    ASSUME SessionTypes, NEW item \in 0..NumCommands, device' = Typed(item)
    PROVE  /\ device' \in Devices
           /\ device'.by = device.by /\ device'.left = device.left /\ device'.paused = device.paused
           /\ device'.input = device.input \/ device'.input = Append(device.input, item)
<1>1. PICK left \in Seq(Items), k \in 0..NumCommands, input \in Seq(0..NumCommands), p \in BOOLEAN :
         /\ left = device.left /\ k = device.by /\ input = device.input /\ p = device.paused
         /\ device = [left |-> left, by |-> k, paused |-> p, input |-> input]
  BY DeviceFields DEF SessionTypes, Devices
<1>2. PICK i \in Seq(0..NumCommands) :
         i = (IF Len(input) < WireSize THEN Append(input, item) ELSE input)
  <2>1. PICK T : T = 0..NumCommands
    OBVIOUS
  <2>2. PICK q \in Seq(T), t \in T : q = input /\ t = item
    BY <2>1
  <2>3. Append(q, t) \in Seq(T)
    OBVIOUS
  <2> QED
    BY <2>1, <2>2, <2>3
<1>3. device' = [left |-> left, by |-> k, paused |-> p, input |-> i]
  BY <1>1, <1>2 DEF Typed
<1>4. device' \in Devices
  BY <1>3 DEF Devices
<1> QED
  BY <1>1, <1>2, <1>3, <1>4

\* The session goes on at one of the places pcs, with got for the command.
GoesOn(pcs, got) ==
    /\ client' \in Clients /\ client'.pc \in pcs /\ client'.cmd = client.cmd /\ client'.got = got
    /\ parts' = parts

Fails == client' \in Clients /\ client'.pc = "failed" /\ parts' = parts

LEMMA FailEffect ==
    ASSUME SessionTypes, Fail
    PROVE  Fails
BY DEF Fail, Fails, SessionTypes, Clients

LEMMA ReadingEffect ==
    ASSUME NEW pc \in {"connect", "send", "echo", "read", "page", "turned", "done", "failed"},
           NEW k \in 0..NumCommands, client' = Reading(pc, k)
    PROVE  client' \in Clients /\ client'.pc = pc /\ client'.cmd = k /\ client'.got = <<>>
<1>1. PICK e \in Seq(Tokens) : e = <<>>
  <2>1. <<>> \in Seq(Tokens)
    OBVIOUS
  <2> QED
    BY <2>1
<1>2. client' = [pc |-> pc, cmd |-> k, got |-> e, idle |-> 0, total |-> 0]
  BY <1>1 DEF Reading
<1> QED
  BY <1>1, <1>2 DEF Clients

LEMMA DoneEffect ==
    ASSUME SessionTypes, client.cmd \in Commands, NEW got \in Seq(Tokens), CommandDone(got)
    PROVE  /\ client' \in Clients /\ client'.got = <<>>
           /\ parts' = Append(parts, Stripped(got))
           /\ IF client.cmd = NumCommands THEN client'.pc = "done"
              ELSE client'.pc = "send" /\ client'.cmd = client.cmd + 1
<1>1. CASE client.cmd = NumCommands
  <2>1. client' = Reading("done", 0) /\ parts' = Append(parts, Stripped(got)) /\ 0 \in 0..NumCommands
    BY <1>1, SessionAssumption DEF CommandDone
  <2> QED
    BY <1>1, <2>1, ReadingEffect
<1>2. CASE client.cmd # NumCommands
  <2>1. PICK k \in 0..NumCommands : k = client.cmd + 1
    BY <1>2, SessionAssumption DEF Commands
  <2>2. client' = Reading("send", k) /\ parts' = Append(parts, Stripped(got))
    BY <1>2, <2>1 DEF CommandDone
  <2> QED
    BY <1>2, <2>1, <2>2, ReadingEffect
<1> QED
  BY <1>1, <1>2

LEMMA ProceedEffect ==
    ASSUME SessionTypes, NEW got \in Seq(Tokens), Proceed(got)
    PROVE  \/ GoesOn({"page", "read"}, got)
           \/ Holds(got, PromptLike) /\ CommandDone(got)
           \/ Fails
<1>0. PICK pc : pc = client.pc
  OBVIOUS
<1>1. PICK k \in 0..NumCommands, old \in Seq(Tokens), i \in Nat, t \in Nat :
         client = [pc |-> pc, cmd |-> k, got |-> old, idle |-> i, total |-> t]
  BY <1>0 DEF SessionTypes, Clients
<1>2. CASE Holds(got, MoreLike)
  <2>1. client' = [client EXCEPT !.pc = "page", !.got = got, !.total = 0] /\ parts' = parts
    BY <1>2 DEF Proceed
  <2>2. client' = [pc |-> "page", cmd |-> k, got |-> got, idle |-> i, total |-> 0]
    BY <1>1, <2>1
  <2> QED
    BY <1>1, <2>1, <2>2 DEF GoesOn, Clients
<1>3. CASE ~Holds(got, MoreLike) /\ Holds(got, PromptLike)
  BY <1>3 DEF Proceed
<1>4. CASE ~Holds(got, MoreLike) /\ ~Holds(got, PromptLike) /\ client.total >= ReadTimeout
  BY <1>4, FailEffect DEF Proceed
<1>5. CASE ~Holds(got, MoreLike) /\ ~Holds(got, PromptLike) /\ ~(client.total >= ReadTimeout)
  <2>1. client' = [client EXCEPT !.pc = "read", !.got = got, !.total = @ + 1] /\ parts' = parts
    BY <1>5 DEF Proceed
  <2>2. client' = [pc |-> "read", cmd |-> k, got |-> got, idle |-> i, total |-> t + 1]
    BY <1>1, <2>1
  <2> QED
    BY <1>1, <2>1, <2>2 DEF GoesOn, Clients
<1> QED
  BY <1>2, <1>3, <1>4, <1>5

Echoes == {i \in DOMAIN Data : IsEcho(Data[i], client.cmd)}

LEMMA FromEchoTypes ==
    ASSUME NEW data \in Seq(Tokens), NEW echoes \in SUBSET (DOMAIN data), echoes # {}
    PROVE  /\ FromEcho(data, echoes) \in Seq(Tokens)
           /\ \A i \in DOMAIN FromEcho(data, echoes) :
                 \E j \in DOMAIN data : FromEcho(data, echoes)[i] = data[j]
<1>1. PICK m \in 1..Len(data) : m = (CHOOSE i \in echoes : TRUE)
  BY DEF FromEcho
<1>2. PICK d : d = SubSeq(data, m, Len(data))
  OBVIOUS
<1>3. d \in Seq(Tokens) /\ Len(d) = Len(data) - m + 1 /\ \A i \in 1..Len(d) : d[i] = data[m + i - 1]
  BY <1>2
<1>4. \A i \in DOMAIN d : \E j \in DOMAIN data : d[i] = data[j]
  <2> SUFFICES ASSUME NEW i \in DOMAIN d PROVE \E j \in DOMAIN data : d[i] = data[j]
    OBVIOUS
  <2>1. i \in 1..Len(d) /\ m + i - 1 \in DOMAIN data
    BY <1>3
  <2>2. d[i] = data[m + i - 1]
    BY <1>3, <2>1
  <2> QED
    BY <2>1, <2>2
<1>5. FromEcho(data, echoes) = d \/ FromEcho(data, echoes) = data
  BY <1>1, <1>2 DEF FromEcho
<1> QED
  BY <1>3, <1>4, <1>5

LEMMA ReadEchoEffect ==
    ASSUME SessionTypes, ReadEcho
    PROVE  /\ client.pc = "echo" /\ wire' = <<>> /\ UNCHANGED <<reply, device, events>>
           /\ \/ GoesOn({"echo"}, Data)
              \/ /\ Echoes # {}
                 /\ \/ GoesOn({"page", "read"}, FromEcho(Data, Echoes))
                    \/ /\ Holds(FromEcho(Data, Echoes), PromptLike)
                       /\ CommandDone(FromEcho(Data, Echoes))
              \/ Fails
<1>1. client.pc = "echo" /\ wire' = <<>> /\ UNCHANGED <<reply, device, events>>
  BY DEF ReadEcho
<1>2. CASE Echoes # {}
  <2>1. Proceed(FromEcho(Data, Echoes))
    BY <1>2 DEF ReadEcho, Data, Echoes
  <2>2. FromEcho(Data, Echoes) \in Seq(Tokens)
    <3>1. Data \in Seq(Tokens) /\ Echoes \in SUBSET (DOMAIN Data)
      BY ClientFields DEF Echoes
    <3> QED
      BY <1>2, <3>1, FromEchoTypes
  <2> QED
    BY <1>1, <1>2, <2>1, <2>2, ProceedEffect
<1>3. CASE Echoes = {} /\ client.total >= ReadTimeout
  <2>1. Fail
    BY <1>3 DEF ReadEcho, Data, Echoes
  <2> QED
    BY <1>1, <2>1, FailEffect
<1>4. CASE Echoes = {} /\ ~(client.total >= ReadTimeout)
  <2>1. client' = [client EXCEPT !.got = Data, !.total = @ + 1] /\ parts' = parts
    BY <1>4 DEF ReadEcho, Data, Echoes
  <2>2. PICK k \in 0..NumCommands, i \in Nat, t \in Nat, old \in Seq(Tokens) :
           client = [pc |-> "echo", cmd |-> k, got |-> old, idle |-> i, total |-> t]
    BY <1>1 DEF SessionTypes, Clients
  <2>3. PICK d \in Seq(Tokens) : d = Data
    BY ClientFields
  <2>4. client' = [pc |-> "echo", cmd |-> k, got |-> d, idle |-> i, total |-> t + 1]
    BY <2>1, <2>2, <2>3
  <2>5. GoesOn({"echo"}, Data)
    BY <2>1, <2>2, <2>3, <2>4 DEF GoesOn, Clients
  <2> QED
    BY <1>1, <2>5
<1> QED
  BY <1>2, <1>3, <1>4

LEMMA ReadEffect ==
    ASSUME SessionTypes, Read
    PROVE  /\ client.pc = "read" /\ wire' = <<>> /\ UNCHANGED <<reply, device, events>>
           /\ \/ GoesOn({"page", "read"}, Data)
              \/ Holds(Data, PromptLike) /\ CommandDone(Data)
              \/ Fails
<1>1. /\ client.pc = "read" /\ wire' = <<>> /\ UNCHANGED <<reply, device, events>>
      /\ Proceed(Data)
  BY DEF Read, Data
<1> QED
  BY <1>1, ProceedEffect, ClientFields

LEMMA TurnEffect ==
    ASSUME SessionTypes, Turn
    PROVE  /\ client.pc = "page" /\ wire' = wire /\ UNCHANGED <<reply, events>>
           /\ \/ GoesOn({"turned"}, client.got) /\ (device' = device \/ device' = Typed(0))
              \/ Holds(client.got, PromptLike) /\ CommandDone(client.got) /\ device' = device
              \/ Fails /\ device' = device
<1>1. client.pc = "page" /\ wire' = wire /\ UNCHANGED <<reply, events>>
  BY DEF Turn
<1>2. CASE EndsIn(client.got, PromptLike)
  <2>1. PICK g \in Seq(Tokens) : g = client.got
    BY ClientFields
  <2>2. Holds(g, PromptLike)
    <3>1. g # <<>> /\ Is(Last(g), PromptLike)
      BY <1>2, <2>1 DEF EndsIn
    <3>2. Last(g) = g[Len(g)] /\ Len(g) \in DOMAIN g
      BY <3>1 DEF Last
    <3> QED
      BY <3>1, <3>2 DEF Holds
  <2>3. CommandDone(client.got) /\ device' = device
    BY <1>2 DEF Turn
  <2> QED
    BY <1>1, <2>1, <2>2, <2>3
<1>3. CASE ~EndsIn(client.got, PromptLike) /\ Overdue
  <2>1. Fail /\ device' = device
    BY <1>3 DEF Turn
  <2> QED
    BY <1>1, <2>1, FailEffect
<1>4. CASE ~EndsIn(client.got, PromptLike) /\ ~Overdue
  <2>1. /\ client' = [client EXCEPT !.pc = "turned"] /\ parts' = parts
        /\ device' = device \/ device' = Typed(0)
    BY <1>4 DEF Turn
  <2>2. GoesOn({"turned"}, client.got)
    BY <2>1 DEF GoesOn, SessionTypes, Clients
  <2> QED
    BY <1>1, <2>1, <2>2
<1> QED
  BY <1>2, <1>3, <1>4

LEMMA ReadPageEffect ==
    ASSUME SessionTypes, ReadPage
    PROVE  /\ client.pc = "turned" /\ wire' = <<>> /\ UNCHANGED <<reply, device, events>>
           /\ GoesOn({"page"}, Data) \/ Fails
<1>1. client.pc = "turned" /\ wire' = <<>> /\ UNCHANGED <<reply, device, events>>
  BY DEF ReadPage
<1>2. CASE Len(Data) > MaxOutput /\ wire # <<>>
  <2>1. Fail
    BY <1>2 DEF ReadPage, Data
  <2> QED
    BY <1>1, <2>1, FailEffect
<1>3. CASE ~(Len(Data) > MaxOutput /\ wire # <<>>)
  <2>1. PICK fresh :
           /\ client' = [client EXCEPT !.pc = "page", !.got = Data,
                           !.idle = IF fresh THEN 0 ELSE IF @ > ReadTimeout THEN @ ELSE @ + 1,
                           !.total = IF @ > AbsoluteTimeout THEN @ ELSE @ + 1]
           /\ parts' = parts
    BY <1>3 DEF ReadPage, Data
  <2>2. PICK k \in 0..NumCommands, i \in Nat, t \in Nat, old \in Seq(Tokens) :
           client = [pc |-> "turned", cmd |-> k, got |-> old, idle |-> i, total |-> t]
    BY <1>1 DEF SessionTypes, Clients
  <2>3. PICK d \in Seq(Tokens) : d = Data
    BY ClientFields
  <2>4. PICK i2 \in Nat, t2 \in Nat :
           /\ i2 = (IF fresh THEN 0 ELSE IF i > ReadTimeout THEN i ELSE i + 1)
           /\ t2 = (IF t > AbsoluteTimeout THEN t ELSE t + 1)
    OBVIOUS
  <2>5. client' = [pc |-> "page", cmd |-> k, got |-> d, idle |-> i2, total |-> t2]
    BY <2>1, <2>2, <2>3, <2>4
  <2>6. GoesOn({"page"}, Data)
    BY <2>1, <2>2, <2>3, <2>5 DEF GoesOn, Clients
  <2> QED
    BY <1>1, <2>6
<1> QED
  BY <1>2, <1>3

LEMMA SendEffect ==
    ASSUME SessionTypes, Send
    PROVE  /\ client.pc = "send" /\ client.cmd \in Commands /\ GoesOn({"echo"}, <<>>)
           /\ device' = Typed(client.cmd) /\ client.got = <<>>
           /\ UNCHANGED <<reply, wire>>
           /\ \/ events'.commands = Append(events.commands, client.cmd) /\ events'.lost = events.lost
              \/ events'.commands = events.commands /\ events'.lost = TRUE
           /\ events' \in [commands : Seq(Commands), lost : BOOLEAN]
<1>1. /\ client.pc = "send" /\ device' = Typed(client.cmd) /\ UNCHANGED <<reply, wire, parts>>
      /\ client' = Reading("echo", client.cmd)
  BY DEF Send
<1>2. client.cmd \in Commands /\ client.got = <<>>
  BY <1>1 DEF SessionTypes, Active
<1>3. GoesOn({"echo"}, <<>>)
  BY <1>1, ClientFields, ReadingEffect DEF GoesOn
<1>4. PICK s \in Seq(Commands), l \in BOOLEAN : events = [commands |-> s, lost |-> l]
  BY DEF SessionTypes
<1>5. PICK c \in Commands : c = client.cmd
  BY <1>2
<1>6. PICK longer \in Seq(Commands) : longer = Append(s, c)
  <2>1. Append(s, c) \in Seq(Commands)
    OBVIOUS
  <2> QED
    BY <2>1
<1>7. CASE events' = [events EXCEPT !.commands = Append(@, client.cmd)]
  <2>1. events' = [commands |-> longer, lost |-> l]
    BY <1>4, <1>5, <1>6, <1>7
  <2>2. events'.commands = longer /\ events'.lost = l /\ events.commands = s /\ events.lost = l
    BY <1>4, <2>1
  <2>3. events' \in [commands : Seq(Commands), lost : BOOLEAN]
    BY <2>1
  <2> QED
    BY <1>1, <1>2, <1>3, <1>5, <1>6, <2>2, <2>3
<1>8. CASE events' = [events EXCEPT !.lost = TRUE]
  <2>1. events' = [commands |-> s, lost |-> TRUE]
    BY <1>4, <1>8
  <2>2. events'.commands = s /\ events'.lost = TRUE /\ events.commands = s
    BY <1>4, <2>1
  <2>3. events' \in [commands : Seq(Commands), lost : BOOLEAN]
    BY <2>1
  <2> QED
    BY <1>1, <1>2, <1>3, <2>2, <2>3
<1> QED
  BY <1>7, <1>8 DEF Send

LEMMA ConnectEffect ==
    ASSUME SessionTypes, Connect
    PROVE  /\ UNCHANGED <<reply, events>>
           /\ \/ /\ client' \in Clients /\ client'.pc = "send" /\ client'.cmd = 1 /\ client'.got = <<>>
                 /\ device' = AtPrompt /\ wire' = <<>> /\ parts' = <<>>
              \/ /\ client.pc = "connect" /\ client' = client
                 /\ UNCHANGED <<device, wire, parts>>
              \/ Fails /\ UNCHANGED <<device, wire>>
<1>1. UNCHANGED <<reply, events>>
  BY DEF Connect
<1>2. CASE client' = Reading("send", 1) /\ device' = AtPrompt /\ wire' = <<>> /\ parts' = <<>>
  <2>1. 1 \in 0..NumCommands
    BY SessionAssumption
  <2> QED
    BY <1>1, <1>2, <2>1, ReadingEffect
<1>3. CASE client.pc = "connect" /\ UNCHANGED <<client, device, wire, parts>>
  BY <1>1, <1>3
<1>4. CASE client' = [client EXCEPT !.pc = "failed"] /\ UNCHANGED <<device, wire, parts>>
  BY <1>1, <1>4, FailEffect DEF Fail
<1> QED
  BY <1>2, <1>3, <1>4 DEF Connect

-----------------------------------------------------------------------------
(* The types and the device. *)

LEMMA DoneTypes ==
    ASSUME SessionTypes, client.pc # "send", Active, NEW got \in Seq(Tokens), CommandDone(got),
           reply' = reply, events' = events, device' \in Devices, wire' \in Seq(Tokens)
    PROVE  SessionTypes'
<1>1. client.cmd \in Commands /\ Len(parts) = client.cmd - 1 /\ parts \in Seq(Seq(Tokens))
  BY DEF SessionTypes
<1>2. /\ client' \in Clients /\ client'.got = <<>> /\ parts' = Append(parts, Stripped(got))
      /\ IF client.cmd = NumCommands THEN client'.pc = "done"
         ELSE client'.pc = "send" /\ client'.cmd = client.cmd + 1
  BY <1>1, DoneEffect
<1>3. PICK s \in Seq(Tokens), c \in 1..NumCommands : s = Stripped(got) /\ c = client.cmd
  BY <1>1, StrippedTypes DEF Commands
<1>4. parts' \in Seq(Seq(Tokens)) /\ Len(parts') = c
  BY <1>1, <1>2, <1>3
<1>5. c # NumCommands => c + 1 \in Commands /\ (c + 1) - 1 = c
  BY SessionAssumption DEF Commands
<1>6. /\ Active' => client'.cmd \in Commands /\ Len(parts') = client'.cmd - 1
      /\ client'.pc = "done" => Len(parts') = NumCommands
  <2>1. CASE c = NumCommands
    BY <1>2, <1>3, <1>4, <2>1 DEF Active
  <2>2. CASE c # NumCommands
    BY <1>2, <1>3, <1>4, <1>5, <2>2 DEF Active
  <2> QED
    BY <2>1, <2>2
<1>7. reply' \in [Commands -> Seq(ReplyKinds)] /\ events' \in [commands : Seq(Commands), lost : BOOLEAN]
  BY DEF SessionTypes
<1> QED
  BY <1>2, <1>4, <1>6, <1>7 DEF SessionTypes

LEMMA GoesOnTypes ==
    ASSUME SessionTypes, Active, NEW got, NEW pcs, "send" \notin pcs, "done" \notin pcs, GoesOn(pcs, got),
           reply' = reply, events' = events, device' \in Devices, wire' \in Seq(Tokens)
    PROVE  SessionTypes'
BY DEF SessionTypes, GoesOn, Active

LEMMA FailsTypes ==
    ASSUME SessionTypes, Fails, reply' = reply, events' = events, device' \in Devices, wire' \in Seq(Tokens)
    PROVE  SessionTypes'
BY DEF SessionTypes, Fails, Active

LEMMA NoTokens ==
    <<>> \in Seq(Tokens) /\ <<>> \in Seq(Seq(Tokens)) /\ Len(<<>>) = 0 /\ AtPrompt \in Devices
<1>1. PICK i \in Seq(Items), n \in Seq(0..NumCommands) : i = <<>> /\ n = <<>>
  <2>1. <<>> \in Seq(Items) /\ <<>> \in Seq(0..NumCommands)
    OBVIOUS
  <2> QED
    BY <2>1
<1>2. 0 \in 0..NumCommands /\ FALSE \in BOOLEAN
  BY SessionAssumption
<1>3. AtPrompt = [left |-> i, by |-> 0, paused |-> FALSE, input |-> n]
  BY <1>1 DEF AtPrompt
<1>4. AtPrompt \in Devices
  BY <1>2, <1>3 DEF Devices
<1>5. <<>> \in Seq(Tokens) /\ <<>> \in Seq(Seq(Tokens)) /\ Len(<<>>) = 0
  OBVIOUS
<1> QED
  BY <1>4, <1>5

LEMMA TypesInit ==
    Init => SessionTypes
<1> SUFFICES ASSUME Init PROVE SessionTypes
  OBVIOUS
<1>1. reply \in [Commands -> Seq(ReplyKinds)]
  BY SessionAssumption DEF Init
<1>2. client \in Clients /\ client.pc = "connect"
  <2>1. PICK e \in Seq(Tokens) : e = <<>>
    BY NoTokens
  <2>2. client = [pc |-> "connect", cmd |-> 0, got |-> e, idle |-> 0, total |-> 0] /\ 0 \in 0..NumCommands
    BY <2>1, SessionAssumption DEF Init, Reading
  <2> QED
    BY <2>2 DEF Clients
<1>3. events \in [commands : Seq(Commands), lost : BOOLEAN]
  <2>1. <<>> \in Seq(Commands)
    OBVIOUS
  <2> QED
    BY <2>1 DEF Init
<1>4. device \in Devices /\ wire \in Seq(Tokens) /\ parts \in Seq(Seq(Tokens))
  BY NoTokens DEF Init
<1> QED
  BY <1>1, <1>2, <1>3, <1>4 DEF SessionTypes, Active

LEMMA TypesStep ==
    ASSUME SessionTypes, DeviceInv, Next
    PROVE  SessionTypes'
<1>1. CASE PrintToken
  BY <1>1, PrintEffect DEF SessionTypes, Active
<1>2. CASE TakeInput
  BY <1>2, TakeEffect DEF SessionTypes, Active
<1>3. CASE Connect
  <2>1. UNCHANGED <<reply, events>>
    BY <1>3, ConnectEffect
  <2>2. CASE /\ client' \in Clients /\ client'.pc = "send" /\ client'.cmd = 1 /\ client'.got = <<>>
             /\ device' = AtPrompt /\ wire' = <<>> /\ parts' = <<>>
    <3>1. 1 \in Commands /\ Len(parts') = 1 - 1
      BY <2>2, NoTokens, SessionAssumption DEF Commands
    <3> QED
      BY <2>1, <2>2, <3>1, NoTokens DEF SessionTypes, Active
  <2>3. CASE client.pc = "connect" /\ client' = client /\ UNCHANGED <<device, wire, parts>>
    BY <2>1, <2>3 DEF SessionTypes, Active
  <2>4. CASE Fails /\ UNCHANGED <<device, wire>>
    <3>1. device' \in Devices /\ wire' \in Seq(Tokens)
      BY <2>4 DEF SessionTypes
    <3> QED
      BY <2>1, <2>4, <3>1, FailsTypes
  <2> QED
    BY <1>3, <2>2, <2>3, <2>4, ConnectEffect
<1>4. CASE Send
  <2>1. /\ client.pc = "send" /\ client.cmd \in Commands /\ GoesOn({"echo"}, <<>>)
        /\ device' = Typed(client.cmd) /\ UNCHANGED <<reply, wire>>
        /\ events' \in [commands : Seq(Commands), lost : BOOLEAN]
    BY <1>4, SendEffect
  <2>2. device' \in Devices
    BY <2>1, TypedEffect, ClientFields
  <2> QED
    BY <2>1, <2>2 DEF SessionTypes, GoesOn, Active
<1>5. CASE ReadEcho
  <2>1. /\ client.pc = "echo" /\ wire' = <<>> /\ UNCHANGED <<reply, device, events>>
        /\ Active
    BY <1>5, ReadEchoEffect DEF Active
  <2>2. device' \in Devices /\ wire' \in Seq(Tokens)
    BY <2>1, NoTokens DEF SessionTypes
  <2>3. CASE GoesOn({"echo"}, Data)
    BY <2>1, <2>2, <2>3, GoesOnTypes
  <2>4. CASE Echoes # {} /\ GoesOn({"page", "read"}, FromEcho(Data, Echoes))
    BY <2>1, <2>2, <2>4, GoesOnTypes
  <2>5. CASE Echoes # {} /\ CommandDone(FromEcho(Data, Echoes))
    <3>1. FromEcho(Data, Echoes) \in Seq(Tokens)
      <4>1. Data \in Seq(Tokens) /\ Echoes \in SUBSET (DOMAIN Data)
        BY ClientFields DEF Echoes
      <4> QED
        BY <2>5, <4>1, FromEchoTypes
    <3> QED
      BY <2>1, <2>2, <2>5, <3>1, DoneTypes
  <2>6. CASE Fails
    BY <2>1, <2>2, <2>6, FailsTypes
  <2> QED
    BY <1>5, <2>3, <2>4, <2>5, <2>6, ReadEchoEffect
<1>6. CASE Read
  <2>1. /\ client.pc = "read" /\ wire' = <<>> /\ UNCHANGED <<reply, device, events>>
        /\ Active
    BY <1>6, ReadEffect DEF Active
  <2>2. device' \in Devices /\ wire' \in Seq(Tokens) /\ Data \in Seq(Tokens)
    BY <2>1, NoTokens, ClientFields DEF SessionTypes
  <2>3. CASE GoesOn({"page", "read"}, Data)
    BY <2>1, <2>2, <2>3, GoesOnTypes
  <2>4. CASE CommandDone(Data)
    BY <2>1, <2>2, <2>4, DoneTypes
  <2>5. CASE Fails
    BY <2>1, <2>2, <2>5, FailsTypes
  <2> QED
    BY <1>6, <2>3, <2>4, <2>5, ReadEffect
<1>7. CASE Turn
  <2>1. client.pc = "page" /\ wire' = wire /\ UNCHANGED <<reply, events>> /\ Active
    BY <1>7, TurnEffect DEF Active
  <2>2. wire' \in Seq(Tokens) /\ client.got \in Seq(Tokens) /\ 0 \in 0..NumCommands
    BY <2>1, ClientFields, SessionAssumption
  <2>3. device' = device \/ device' = Typed(0)
    BY <1>7, TurnEffect
  <2>4. device' \in Devices
    BY <2>2, <2>3, TypedEffect DEF SessionTypes
  <2>5. CASE GoesOn({"turned"}, client.got)
    BY <2>1, <2>2, <2>4, <2>5, GoesOnTypes
  <2>6. CASE CommandDone(client.got)
    BY <2>1, <2>2, <2>4, <2>6, DoneTypes
  <2>7. CASE Fails
    BY <2>1, <2>2, <2>4, <2>7, FailsTypes
  <2> QED
    BY <1>7, <2>5, <2>6, <2>7, TurnEffect
<1>8. CASE ReadPage
  <2>1. /\ client.pc = "turned" /\ wire' = <<>> /\ UNCHANGED <<reply, device, events>>
        /\ Active
    BY <1>8, ReadPageEffect DEF Active
  <2>2. device' \in Devices /\ wire' \in Seq(Tokens)
    BY <2>1, NoTokens DEF SessionTypes
  <2>3. CASE GoesOn({"page"}, Data)
    BY <2>1, <2>2, <2>3, GoesOnTypes
  <2>4. CASE Fails
    BY <2>1, <2>2, <2>4, FailsTypes
  <2> QED
    BY <1>8, <2>3, <2>4, ReadPageEffect
<1>9. CASE Retry
  <2>1. client' = Reading("connect", 0) /\ UNCHANGED <<reply, device, wire, parts, events>>
    BY <1>9 DEF Retry
  <2>2. client' \in Clients /\ client'.pc = "connect"
    BY <2>1, ReadingEffect, SessionAssumption
  <2> QED
    BY <2>1, <2>2 DEF SessionTypes, Active
<1>10. CASE Break
  <2>1. Fails /\ UNCHANGED <<reply, device, wire, events>>
    BY <1>10, FailEffect DEF Break
  <2>2. device' \in Devices /\ wire' \in Seq(Tokens)
    BY <2>1 DEF SessionTypes
  <2> QED
    BY <2>1, <2>2, FailsTypes
<1> QED
  BY <1>1, <1>2, <1>3, <1>4, <1>5, <1>6, <1>7, <1>8, <1>9, <1>10 DEF Next, Session

LEMMA DeviceStep ==
    ASSUME SessionTypes, DeviceInv, Next
    PROVE  DeviceInv'
<1>1. CASE PrintToken
  <2>1. PICK k \in Commands, left \in Seq(Items) :
           k = device.by /\ left = device.left /\ Rest(left, k) /\ left # <<>>
    BY <1>1, PrintEffect, DeviceFields
  <2>2. device'.by = k /\ reply' = reply /\ (device'.left = <<>> => device'.paused = FALSE)
    BY <1>1, <2>1, PrintEffect
  <2>3. Rest(device'.left, k)
    <3>1. CASE Head(left) = "again"
      BY <1>1, <2>1, <3>1, PrintEffect, RestAgain
    <3>2. CASE Head(left) # "again"
      BY <1>1, <2>1, <3>2, PrintEffect, RestPrints
    <3> QED
      BY <3>1, <3>2
  <2>4. k # 0
    BY DEF Commands
  <2> QED
    BY <2>2, <2>3, <2>4, SameReplies DEF DeviceInv
<1>2. CASE TakeInput
  <2>1. device'.paused = FALSE /\ reply' = reply
    BY <1>2, TakeEffect
  <2>2. CASE device'.by = device.by /\ device'.left = device.left
    BY <2>1, <2>2, SameReplies DEF DeviceInv
  <2>3. CASE /\ Head(device.input) \in Commands
             /\ device'.by = Head(device.input) /\ device'.left = Whole(Head(device.input))
    <3>1. PICK k \in Commands : k = Head(device.input)
      BY <2>3
    <3>2. Rest(Whole(k), k) /\ k # 0
      BY RestWhole DEF Commands
    <3> QED
      BY <2>1, <2>3, <3>1, <3>2, SameReplies DEF DeviceInv
  <2> QED
    BY <1>2, <2>2, <2>3, TakeEffect
<1>3. ASSUME reply' = reply, device'.left = device.left, device'.by = device.by, device'.paused = device.paused
      PROVE  DeviceInv'
  BY <1>3, SameReplies DEF DeviceInv
<1>4. ASSUME UNCHANGED <<reply, device>>
      PROVE  DeviceInv'
  BY <1>3, <1>4
<1>5. CASE Connect
  <2>1. CASE device' = AtPrompt
    <3>1. device'.left = <<>> /\ device'.by = 0 /\ device'.paused = FALSE
      BY <2>1 DEF AtPrompt
    <3> QED
      BY <3>1 DEF DeviceInv
  <2>2. CASE device' = device
    BY <1>4, <1>5, <2>2 DEF Connect
  <2> QED
    BY <1>5, <2>1, <2>2 DEF Connect
<1>6. CASE Send
  BY <1>3, <1>6, SendEffect, TypedEffect, ClientFields
<1>7. CASE Turn
  <2>1. reply' = reply /\ (device' = device \/ device' = Typed(0)) /\ 0 \in 0..NumCommands
    BY <1>7, TurnEffect, SessionAssumption
  <2> QED
    BY <1>3, <1>4, <2>1, TypedEffect
<1>8. CASE ReadEcho \/ Read \/ ReadPage \/ Retry \/ Break
  BY <1>4, <1>8 DEF ReadEcho, Read, ReadPage, Retry, Break
<1> QED
  BY <1>1, <1>2, <1>5, <1>6, <1>7, <1>8 DEF Next, Session

-----------------------------------------------------------------------------
(* The kinds of steps: besides the device's own and Send, a session starts,  *)
(* goes on, finishes a command or is over.                                   *)

Waiting == {"echo", "read", "page", "turned"}

NewSession ==
    /\ client'.pc = "send" /\ client'.cmd = 1 /\ client'.got = <<>> /\ device' = AtPrompt
    /\ wire' = <<>> /\ parts' = <<>> /\ UNCHANGED <<reply, events>>

Listens ==
    /\ client.pc \in Waiting /\ client'.pc \in Waiting /\ client'.cmd = client.cmd
    /\ parts' = parts /\ UNCHANGED <<reply, events>>
    /\ device'.left = device.left /\ device'.by = device.by
    /\ device'.input = device.input \/ device'.input = Append(device.input, 0)
    /\ \/ /\ Data' = Data /\ (client'.pc = "echo" <=> client.pc = "echo")
          /\ client.got # <<>> => client'.got # <<>>
       \/ /\ Data' = FromEcho(Data, Echoes) /\ client'.got = FromEcho(Data, Echoes)
          /\ client.pc = "echo" /\ client'.pc # "echo" /\ Echoes # {}

Finishes(got) ==
    /\ client.pc \in Waiting /\ Holds(got, PromptLike) /\ CommandDone(got)
    /\ UNCHANGED <<reply, events, device>>
    /\ \/ /\ client.pc # "echo" /\ got \o wire' = Data /\ (client.got # <<>> => got # <<>>)
       \/ client.pc = "echo" /\ wire' = <<>> /\ got = FromEcho(Data, Echoes) /\ Echoes # {}

Over == client'.pc \in {"connect", "failed"}

LEMMA ReadAll ==
    ASSUME SessionTypes, NEW got \in Seq(Tokens)
    PROVE  /\ got \o <<>> = got /\ <<>> \o got = got
           /\ client'.got = got /\ wire' = <<>> => Data' = got
           /\ client.got # <<>> => Data # <<>>
<1>1. got \o <<>> = got /\ <<>> \o got = got
  OBVIOUS
<1>2. PICK g \in Seq(Tokens), w \in Seq(Tokens) : g = client.got /\ w = wire
  BY ClientFields
<1>3. g # <<>> => g \o w # <<>>
  OBVIOUS
<1> QED
  BY <1>1, <1>2, <1>3 DEF Data

LEMMA Kinds ==
    ASSUME SessionTypes, Next
    PROVE  \/ PrintToken \/ TakeInput \/ Send
           \/ NewSession \/ Listens \/ Over
           \/ \E got \in Seq(Tokens) : Finishes(got)
<1>1. Data \in Seq(Tokens) /\ client.got \in Seq(Tokens) /\ wire \in Seq(Tokens)
  BY ClientFields
<1>2. \A pc \in {"page", "read", "echo", "turned"} : pc \in Waiting
  BY DEF Waiting
<1>3. CASE Connect
  <2>1. CASE /\ client' \in Clients /\ client'.pc = "send" /\ client'.cmd = 1 /\ client'.got = <<>>
             /\ device' = AtPrompt /\ wire' = <<>> /\ parts' = <<>>
    BY <1>3, <2>1, ConnectEffect DEF NewSession
  <2>2. CASE client.pc = "connect" /\ client' = client
    BY <2>2 DEF Over
  <2>3. CASE Fails
    BY <2>3 DEF Over, Fails
  <2> QED
    BY <1>3, <2>1, <2>2, <2>3, ConnectEffect
<1>4. CASE ReadEcho
  <2>1. client.pc = "echo" /\ wire' = <<>> /\ UNCHANGED <<reply, device, events>>
    BY <1>4, ReadEchoEffect
  <2>2. CASE GoesOn({"echo"}, Data)
    <3>1. Data' = Data
      BY <1>1, <2>1, <2>2, ReadAll DEF GoesOn
    <3>2. client.got # <<>> => client'.got # <<>>
      BY <2>2, <1>1, ReadAll DEF GoesOn
    <3> QED
      BY <1>2, <2>1, <2>2, <3>1, <3>2 DEF Listens, GoesOn
  <2>3. FromEcho(Data, Echoes) \in Seq(Tokens) \/ Echoes = {}
    <3>1. Echoes \in SUBSET (DOMAIN Data)
      BY DEF Echoes
    <3> QED
      BY <1>1, <3>1, FromEchoTypes
  <2>4. CASE Echoes # {} /\ GoesOn({"page", "read"}, FromEcho(Data, Echoes))
    <3>1. Data' = FromEcho(Data, Echoes)
      BY <2>1, <2>3, <2>4, ReadAll DEF GoesOn
    <3> QED
      BY <1>2, <2>1, <2>4, <3>1 DEF Listens, GoesOn
  <2>5. CASE /\ Echoes # {} /\ Holds(FromEcho(Data, Echoes), PromptLike)
             /\ CommandDone(FromEcho(Data, Echoes))
    BY <1>2, <2>1, <2>3, <2>5 DEF Finishes
  <2>6. CASE Fails
    BY <2>6 DEF Over, Fails
  <2> QED
    BY <1>4, <2>2, <2>4, <2>5, <2>6, ReadEchoEffect
<1>5. CASE Read
  <2>1. client.pc = "read" /\ wire' = <<>> /\ UNCHANGED <<reply, device, events>>
    BY <1>5, ReadEffect
  <2>2. client.got # <<>> => Data # <<>>
    BY <1>1, ReadAll
  <2>3. CASE GoesOn({"page", "read"}, Data)
    <3>1. Data' = Data
      BY <1>1, <2>1, <2>3, ReadAll DEF GoesOn
    <3> QED
      BY <1>2, <2>1, <2>2, <2>3, <3>1 DEF Listens, GoesOn
  <2>4. CASE Holds(Data, PromptLike) /\ CommandDone(Data)
    <3>1. Data \o wire' = Data
      BY <1>1, <2>1, ReadAll
    <3>2. Finishes(Data)
      BY <1>2, <2>1, <2>2, <2>4, <3>1 DEF Finishes
    <3> QED
      BY <1>1, <3>2
  <2>5. CASE Fails
    BY <2>5 DEF Over, Fails
  <2> QED
    BY <1>5, <2>3, <2>4, <2>5, ReadEffect
<1>6. CASE Turn
  <2>1. client.pc = "page" /\ wire' = wire /\ UNCHANGED <<reply, events>>
    BY <1>6, TurnEffect
  <2>2. CASE GoesOn({"turned"}, client.got) /\ (device' = device \/ device' = Typed(0))
    <3>1. Data' = Data
      BY <2>1, <2>2 DEF GoesOn, Data
    <3>2. /\ device'.by = device.by /\ device'.left = device.left
          /\ device'.input = device.input \/ device'.input = Append(device.input, 0)
      BY <2>2, TypedEffect, SessionAssumption
    <3> QED
      BY <1>2, <2>1, <2>2, <3>1, <3>2 DEF Listens, GoesOn
  <2>3. CASE Holds(client.got, PromptLike) /\ CommandDone(client.got) /\ device' = device
    <3>1. client.got \o wire' = Data
      BY <2>1 DEF Data
    <3>2. Finishes(client.got)
      BY <1>2, <2>1, <2>3, <3>1 DEF Finishes
    <3> QED
      BY <1>1, <3>2
  <2>4. CASE Fails
    BY <2>4 DEF Over, Fails
  <2> QED
    BY <1>6, <2>2, <2>3, <2>4, TurnEffect
<1>7. CASE ReadPage
  <2>1. client.pc = "turned" /\ wire' = <<>> /\ UNCHANGED <<reply, device, events>>
    BY <1>7, ReadPageEffect
  <2>2. CASE GoesOn({"page"}, Data)
    <3>1. Data' = Data
      BY <1>1, <2>1, <2>2, ReadAll DEF GoesOn
    <3>2. client.got # <<>> => client'.got # <<>>
      BY <2>2, <1>1, ReadAll DEF GoesOn
    <3> QED
      BY <1>2, <2>1, <2>2, <3>1, <3>2 DEF Listens, GoesOn
  <2>3. CASE Fails
    BY <2>3 DEF Over, Fails
  <2> QED
    BY <1>7, <2>2, <2>3, ReadPageEffect
<1>8. CASE Retry
  BY <1>8 DEF Retry, Over, Reading
<1>9. CASE Break
  BY <1>9, FailEffect DEF Break, Over, Fails
<1> QED
  BY <1>3, <1>4, <1>5, <1>6, <1>7, <1>8, <1>9 DEF Next, Session

LEMMA WaitingIsActive ==
    ASSUME SessionTypes, client.pc \in Waiting
    PROVE  Active /\ client.cmd \in Commands /\ client.cmd \in Nat /\ Sent = client.cmd
BY DEF SessionTypes, Waiting, Active, Sent, Commands

LEMMA SentIsNumber ==
    ASSUME SessionTypes, Active
    PROVE  Sent \in 0..NumCommands /\ client.cmd \in Commands /\ client.cmd \in Nat
BY SessionAssumption DEF SessionTypes, Active, Sent, Commands

LEMMA FinishEffect ==
    ASSUME SessionTypes, NEW got \in Seq(Tokens), Finishes(got)
    PROVE  /\ client.cmd \in Commands /\ client'.got = <<>>
           /\ parts' = Append(parts, Stripped(got)) /\ Sent' = client.cmd
           /\ client'.pc \in {"send", "done"} /\ ~(client'.pc \in Waiting)
           /\ client'.pc = "send" => client'.cmd = client.cmd + 1
<1>1. client.cmd \in Commands /\ client.cmd \in Nat
  BY WaitingIsActive DEF Finishes
<1>2. /\ client'.got = <<>> /\ parts' = Append(parts, Stripped(got))
      /\ IF client.cmd = NumCommands THEN client'.pc = "done"
         ELSE client'.pc = "send" /\ client'.cmd = client.cmd + 1
  BY <1>1, DoneEffect DEF Finishes
<1>3. Sent' = client.cmd
  BY <1>1, <1>2 DEF Sent
<1> QED
  BY <1>1, <1>2, <1>3 DEF Waiting

-----------------------------------------------------------------------------
(* What is typed. *)

\* The same in numbers.
LEMMA InputFacts ==
    ASSUME SessionTypes, Active, InputInv
    PROVE  \E k \in Nat, n \in Nat, input \in Seq(Nat) :
              /\ k = device.by /\ n = Sent /\ input = device.input
              /\ k <= n
              /\ \A i \in 1..Len(input) : input[i] # 0 => input[i] > k /\ input[i] <= n
              /\ \A i, j \in 1..Len(input) : i < j /\ input[j] # 0 => input[i] < input[j]
<1>1. PICK T : T = 0..NumCommands
  OBVIOUS
<1>2. T \subseteq Nat
  BY <1>1
<1>3. PICK q \in Seq(T) : q = device.input
  BY <1>1, DeviceFields
<1>4. q \in Seq(Nat) /\ DOMAIN q = 1..Len(q)
  <2>1. /\ Len(q) \in Nat /\ DOMAIN q = 1..Len(q) /\ \A i \in 1..Len(q) : q[i] \in Nat
        /\ q = [i \in 1..Len(q) |-> q[i]]
    BY <1>2
  <2>2. [i \in 1..Len(q) |-> q[i]] \in Seq(Nat)
    BY <2>1
  <2> QED
    BY <2>1, <2>2
<1>5. PICK k \in Nat, n \in Nat : k = device.by /\ n = Sent
  BY <1>1, <1>2, DeviceFields, SentIsNumber
<1>6. /\ k <= n
      /\ \A i \in DOMAIN q : q[i] # 0 => q[i] > k /\ q[i] <= n
      /\ \A i, j \in DOMAIN q : i < j /\ q[j] # 0 => q[i] < q[j]
  BY <1>3, <1>5 DEF InputInv
<1> QED
  BY <1>3, <1>4, <1>5, <1>6

LEMMA InputKept ==
    ASSUME SessionTypes, InputInv, Active, Sent' = Sent, device'.by = device.by,
           device'.input = device.input \/ device'.input = Append(device.input, 0)
    PROVE  InputInv'
<1>1. PICK k \in Nat, n \in Nat, input \in Seq(Nat) :
         /\ k = device.by /\ n = Sent /\ input = device.input
         /\ k <= n
         /\ \A i \in 1..Len(input) : input[i] # 0 => input[i] > k /\ input[i] <= n
         /\ \A i, j \in 1..Len(input) : i < j /\ input[j] # 0 => input[i] < input[j]
  BY InputFacts
<1>2. PICK new : new = device'.input
  OBVIOUS
<1>3. /\ \A i \in 1..Len(new) : new[i] # 0 => new[i] > k /\ new[i] <= n
      /\ \A i, j \in 1..Len(new) : i < j /\ new[j] # 0 => new[i] < new[j]
      /\ DOMAIN new = 1..Len(new)
  <2>1. CASE new = input
    BY <1>1, <2>1
  <2>2. CASE new = Append(input, 0)
    <3>1. /\ Len(new) = Len(input) + 1 /\ new[Len(new)] = 0 /\ DOMAIN new = 1..Len(new)
          /\ \A i \in 1..Len(input) : new[i] = input[i]
      BY <2>2
    <3>2. \A i \in 1..Len(new) : new[i] # 0 => i \in 1..Len(input)
      BY <3>1
    <3>3. \A i, j \in 1..Len(new) : i < j => i \in 1..Len(input)
      BY <3>1
    <3> QED
      BY <1>1, <3>1, <3>2, <3>3
  <2> QED
    BY <1>1, <1>2, <2>1, <2>2
<1> QED
  BY <1>1, <1>2, <1>3 DEF InputInv

LEMMA InputStep ==
    ASSUME SessionTypes, DeviceInv, InputInv, Next
    PROVE  InputInv'
<1>1. CASE PrintToken
  <2>1. client' = client /\ device'.by = device.by /\ device'.input = device.input
    BY <1>1, PrintEffect
  <2>2. CASE Active
    <3>1. Sent' = Sent
      BY <2>1 DEF Sent
    <3> QED
      BY <2>1, <2>2, <3>1, InputKept
  <2>3. CASE ~Active
    BY <2>1, <2>3 DEF InputInv, Active
  <2> QED
    BY <2>2, <2>3
<1>2. CASE TakeInput
  <2>1. client' = client /\ Sent' = Sent
    BY <1>2, TakeEffect DEF Sent
  <2>2. CASE ~Active
    BY <2>1, <2>2 DEF InputInv, Active
  <2>3. CASE Active
    <3>1. PICK k \in Nat, n \in Nat, input \in Seq(Nat) :
             /\ k = device.by /\ n = Sent /\ input = device.input
             /\ k <= n
             /\ \A i \in 1..Len(input) : input[i] # 0 => input[i] > k /\ input[i] <= n
             /\ \A i, j \in 1..Len(input) : i < j /\ input[j] # 0 => input[i] < input[j]
      BY <2>3, InputFacts
    <3>2. input # <<>> /\ device'.input = Tail(input)
      BY <1>2, <3>1, TakeEffect
    <3>3. PICK rest : rest = Tail(input)
      OBVIOUS
    <3>4. /\ rest \in Seq(Nat) /\ Len(rest) = Len(input) - 1 /\ DOMAIN rest = 1..Len(rest)
          /\ \A i \in 1..Len(rest) : i + 1 \in 1..Len(input) /\ rest[i] = input[i + 1]
      BY <3>2, <3>3
    <3>5. \A i, j \in 1..Len(rest) : i < j /\ rest[j] # 0 => rest[i] < rest[j]
      <4> SUFFICES ASSUME NEW i \in 1..Len(rest), NEW j \in 1..Len(rest), i < j, rest[j] # 0
                   PROVE  rest[i] < rest[j]
        OBVIOUS
      <4>1. i + 1 \in 1..Len(input) /\ rest[i] = input[i + 1]
        BY <3>4
      <4>2. j + 1 \in 1..Len(input) /\ rest[j] = input[j + 1]
        BY <3>4
      <4>3. i + 1 < j + 1
        OBVIOUS
      <4> QED
        BY <3>1, <4>1, <4>2, <4>3
    <3>6. Sent' = n /\ device'.input = rest
      BY <2>1, <3>1, <3>2, <3>3
    <3>7. CASE device'.by = device.by
      <4>1. \A i \in 1..Len(rest) : rest[i] # 0 => rest[i] > k /\ rest[i] <= n
        BY <3>1, <3>4
      <4> QED
        BY <3>1, <3>4, <3>5, <3>6, <3>7, <4>1 DEF InputInv
    <3>8. CASE Head(device.input) \in Commands /\ device'.by = Head(device.input)
      <4>1. PICK c \in Nat : c = input[1] /\ c # 0 /\ device'.by = c /\ 1 \in 1..Len(input)
        BY <3>1, <3>2, <3>8 DEF Commands
      <4>2. c <= n
        BY <3>1, <4>1
      <4>3. ASSUME NEW i \in 1..Len(rest), rest[i] # 0
            PROVE  rest[i] > c /\ rest[i] <= n
        <5>1. i + 1 \in 1..Len(input) /\ rest[i] = input[i + 1] /\ 1 < i + 1
          BY <3>4
        <5>2. input[1] < input[i + 1] /\ input[i + 1] <= n
          BY <3>1, <4>1, <4>3, <5>1
        <5>3. input[i + 1] \in Nat
          BY <5>1
        <5> QED
          BY <4>1, <5>1, <5>2, <5>3
      <4> QED
        BY <3>4, <3>5, <3>6, <4>1, <4>2, <4>3 DEF InputInv
    <3> QED
      BY <1>2, <3>7, <3>8, TakeEffect
  <2> QED
    BY <2>2, <2>3
<1>3. CASE Send
  <2>1. /\ client.pc = "send" /\ client.cmd \in Commands /\ client'.pc = "echo" /\ client'.cmd = client.cmd
        /\ device' = Typed(client.cmd)
    BY <1>3, SendEffect DEF GoesOn
  <2>2. PICK c \in Nat, k \in Nat, input \in Seq(Nat) :
           /\ c = client.cmd /\ k = device.by /\ input = device.input /\ c >= 1
           /\ k <= c - 1
           /\ \A i \in 1..Len(input) : input[i] # 0 => input[i] > k /\ input[i] <= c - 1
           /\ \A i, j \in 1..Len(input) : i < j /\ input[j] # 0 => input[i] < input[j]
    <3>1. Active /\ Sent = client.cmd - 1
      BY <2>1 DEF Active, Sent
    <3>2. PICK k \in Nat, n \in Nat, input \in Seq(Nat) :
             /\ k = device.by /\ n = Sent /\ input = device.input
             /\ k <= n
             /\ \A i \in 1..Len(input) : input[i] # 0 => input[i] > k /\ input[i] <= n
             /\ \A i, j \in 1..Len(input) : i < j /\ input[j] # 0 => input[i] < input[j]
      BY <3>1, InputFacts
    <3>3. PICK c \in Nat : c = client.cmd /\ c >= 1
      BY <2>1 DEF Commands
    <3>4. n = c - 1
      BY <3>1, <3>2, <3>3
    <3>5. k <= c - 1 /\ \A i \in 1..Len(input) : input[i] # 0 => input[i] > k /\ input[i] <= c - 1
      BY <3>2, <3>4
    <3> QED
      BY <3>2, <3>3, <3>5
  <2>3. Sent' = c /\ device'.by = k /\ (device'.input = input \/ device'.input = Append(input, c))
    <3>1. client.cmd \in 0..NumCommands
      BY ClientFields
    <3> QED
      BY <2>1, <2>2, <3>1, TypedEffect DEF Sent
  <2>4. PICK new : new = device'.input
    OBVIOUS
  <2>5. /\ \A i \in 1..Len(new) : new[i] # 0 => new[i] > k /\ new[i] <= c
        /\ \A i, j \in 1..Len(new) : i < j /\ new[j] # 0 => new[i] < new[j]
        /\ DOMAIN new = 1..Len(new)
    <3>1. CASE new = input
      BY <2>2, <3>1
    <3>2. CASE new = Append(input, c)
      <4>1. /\ Len(new) = Len(input) + 1 /\ new[Len(new)] = c /\ DOMAIN new = 1..Len(new)
            /\ \A i \in 1..Len(input) : new[i] = input[i]
        BY <3>2
      <4>2. \A i \in 1..Len(new) : i = Len(new) \/ i \in 1..Len(input)
        BY <4>1
      <4>3. \A i, j \in 1..Len(new) : i < j => i \in 1..Len(input)
        BY <4>1
      <4>4. \A i \in 1..Len(input) : input[i] \in Nat /\ input[i] < c
        <5>1. \A i \in 1..Len(input) : input[i] \in Nat
          OBVIOUS
        <5> QED
          BY <2>2, <5>1
      <4>5. \A i \in 1..Len(new) : new[i] # 0 => new[i] > k /\ new[i] <= c
        <5> SUFFICES ASSUME NEW i \in 1..Len(new), new[i] # 0 PROVE new[i] > k /\ new[i] <= c
          OBVIOUS
        <5>1. CASE i = Len(new)
          BY <2>2, <4>1, <5>1
        <5>2. CASE i \in 1..Len(input)
          <6>1. new[i] = input[i] /\ input[i] \in Nat /\ input[i] < c
            BY <4>1, <4>4, <5>2
          <6>2. input[i] > k
            BY <2>2, <5>2, <6>1
          <6> QED
            BY <6>1, <6>2
        <5> QED
          BY <4>2, <5>1, <5>2
      <4>6. \A i, j \in 1..Len(new) : i < j /\ new[j] # 0 => new[i] < new[j]
        BY <2>2, <4>1, <4>2, <4>3, <4>4
      <4> QED
        BY <4>1, <4>5, <4>6
    <3> QED
      BY <2>3, <2>4, <3>1, <3>2
  <2>6. k <= c
    BY <2>2
  <2> QED
    BY <2>3, <2>4, <2>5, <2>6 DEF InputInv
<1>4. CASE NewSession
  <2>1. device'.by = 0 /\ device'.input = <<>> /\ Sent' = 0 /\ DOMAIN <<>> = {}
    BY <1>4 DEF NewSession, AtPrompt, Sent
  <2> QED
    BY <2>1 DEF InputInv
<1>5. CASE Listens
  <2>1. Active /\ Sent' = Sent
    BY <1>5, WaitingIsActive DEF Listens, Waiting, Sent
  <2> QED
    BY <1>5, <2>1, InputKept DEF Listens
<1>6. CASE Over
  BY <1>6 DEF Over, InputInv, Active
<1>7. ASSUME NEW got \in Seq(Tokens), Finishes(got)
      PROVE  InputInv'
  <2>1. Active /\ Sent = client.cmd
    BY <1>7, WaitingIsActive DEF Finishes
  <2>2. Sent' = Sent /\ device' = device
    BY <1>7, <2>1, FinishEffect DEF Finishes
  <2> QED
    BY <2>1, <2>2, InputKept
<1> QED
  BY <1>1, <1>2, <1>3, <1>4, <1>5, <1>6, <1>7, Kinds

-----------------------------------------------------------------------------
(* What is read, and the events. *)

LEMMA AppendData ==
    ASSUME SessionTypes, NEW t \in Tokens, client' = client, wire' = Append(wire, t)
    PROVE  Data' = Append(Data, t)
<1>1. PICK g \in Seq(Tokens), w \in Seq(Tokens) : g = client.got /\ w = wire
  BY ClientFields
<1>2. g \o Append(w, t) = Append(g \o w, t)
  OBVIOUS
<1> QED
  BY <1>1, <1>2 DEF Data

\* All that is read was there, and the device goes no command back.
LEMMA DataKept ==
    ASSUME SessionTypes, SessionTypes', DataInv, Active, reply' = reply, device.by <= device'.by,
           \A i \in DOMAIN Data' : \E j \in DOMAIN Data : Data'[i] = Data[j]
    PROVE  DataInv'
<1>1. PICK a \in Nat, b \in Nat : a = device.by /\ b = device'.by /\ a <= b
  <2>1. device.by \in Nat /\ device'.by \in Nat
    BY DEF SessionTypes, Devices
  <2> QED
    BY <2>1
<1>2. PICK d, new : d \in Seq(Tokens) /\ d = Data /\ new = Data'
  BY ClientFields
<1>3. \A j \in DOMAIN d : d[j] \in Tokens /\ Printing(d[j])
  BY <1>2 DEF DataInv
<1>4. \A t \in Tokens : t.by \in Nat
  BY DEF Tokens, Commands
<1>5. \A j \in DOMAIN d : d[j].by <= b /\ (d[j].kind \in {"echo", "prompt"} \/ Prints(d[j].by, d[j].kind))
  BY <1>1, <1>3, <1>4 DEF Printing
<1>6. \A i \in DOMAIN new : /\ new[i].by <= b
                            /\ new[i].kind \in {"echo", "prompt"} \/ Prints(new[i].by, new[i].kind)
  BY <1>2, <1>5
<1> QED
  BY <1>1, <1>2, <1>6, SameReplies DEF DataInv, Printing

LEMMA DataStep ==
    ASSUME SessionTypes, SessionTypes', DeviceInv, InputInv, DataInv, Next
    PROVE  DataInv'
<1>0. PICK a \in Nat : a = device.by /\ a <= a
  BY DeviceFields
<1>1. CASE PrintToken
  <2>1. /\ client' = client /\ reply' = reply /\ device'.by = device.by
        /\ device.left # <<>> /\ device.by \in Commands /\ Rest(device.left, device.by)
    BY <1>1, PrintEffect
  <2>2. CASE ~Active
    BY <2>1, <2>2 DEF DataInv, Active
  <2>3. CASE Active /\ wire' = wire
    <3>1. Data' = Data
      BY <2>1, <2>3 DEF Data
    <3> QED
      BY <1>0, <2>1, <2>3, <3>1, DataKept
  <2>4. CASE Active /\ Head(device.left) # "again"
    <3>1. PICK k \in Commands, left \in Seq(Items), h \in Items :
             k = device.by /\ left = device.left /\ h = Head(left) /\ h # "again"
      <4>1. PICK left \in Seq(Items) : left = device.left /\ left # <<>>
        BY <2>1, DeviceFields
      <4>2. Head(left) \in Items
        BY <4>1
      <4> QED
        BY <2>1, <2>4, <4>1, <4>2
    <3>2. h \in {"echo", "prompt"} \/ Prints(k, h)
      BY <2>1, <3>1, RestPrints
    <3>3. PICK t \in Tokens : t = Token(h, k) /\ t.kind = h /\ t.by = k
      BY <3>1, TokenTypes
    <3>4. wire' = Append(wire, t)
      BY <1>1, <2>4, <3>1, <3>3, PrintEffect
    <3>5. PICK d, new : d \in Seq(Tokens) /\ d = Data /\ new = Append(d, t) /\ new = Data'
      BY <2>1, <3>4, AppendData, ClientFields
    <3>6. /\ \A i \in DOMAIN new : i = Len(d) + 1 \/ i \in DOMAIN d
          /\ new[Len(d) + 1] = t /\ \A i \in DOMAIN d : new[i] = d[i]
      <4>1. new = Append(d, t)
        BY <3>5
      <4>2. DOMAIN new = 1..(Len(d) + 1) /\ DOMAIN d = 1..Len(d) /\ Len(d) \in Nat
        BY <4>1
      <4>3. new[Len(d) + 1] = t /\ \A i \in 1..Len(d) : new[i] = d[i]
        BY <4>1
      <4> QED
        BY <4>2, <4>3
    <3>7. \A i \in DOMAIN d : Printing(d[i])
      BY <2>4, <3>5 DEF DataInv
    <3>8. \A i \in DOMAIN d : /\ d[i].by <= k
                              /\ d[i].kind \in {"echo", "prompt"} \/ Prints(d[i].by, d[i].kind)
      BY <3>1, <3>7 DEF Printing
    <3>9. t.by <= k
      BY <1>0, <3>1, <3>3
    <3>10. \A i \in DOMAIN new : /\ new[i].by <= k
                                 /\ new[i].kind \in {"echo", "prompt"} \/ Prints(new[i].by, new[i].kind)
      BY <3>2, <3>3, <3>6, <3>8, <3>9
    <3> QED
      BY <2>1, <3>1, <3>5, <3>10, SameReplies DEF DataInv, Printing
  <2> QED
    BY <1>1, <2>2, <2>3, <2>4, PrintEffect
<1>2. CASE TakeInput
  <2>1. client' = client /\ reply' = reply /\ Data' = Data
    BY <1>2, TakeEffect DEF Data
  <2>2. CASE ~Active
    BY <2>1, <2>2 DEF DataInv, Active
  <2>3. CASE Active
    <3>1. device.by <= device'.by
      <4>1. CASE device'.by = device.by
        BY <1>0, <4>1
      <4>2. CASE Head(device.input) \in Commands /\ device'.by = Head(device.input)
        <5>1. PICK k \in Nat, input \in Seq(Nat) :
                 /\ k = device.by /\ input = device.input
                 /\ \A i \in 1..Len(input) : input[i] # 0 => input[i] > k
          BY <2>3, InputFacts
        <5>2. input # <<>>
          BY <1>2, <5>1, TakeEffect
        <5>3. PICK c \in Nat : c = input[1] /\ c # 0 /\ device'.by = c /\ 1 \in 1..Len(input)
          BY <4>2, <5>1, <5>2 DEF Commands
        <5>4. c > k
          BY <5>1, <5>3
        <5> QED
          BY <5>1, <5>3, <5>4
      <4> QED
        BY <1>2, <4>1, <4>2, TakeEffect
    <3> QED
      BY <2>1, <2>3, <3>1, DataKept
  <2> QED
    BY <2>2, <2>3
<1>3. CASE Send
  <2>1. client'.got = client.got /\ wire' = wire /\ reply' = reply /\ Active
    BY <1>3, SendEffect DEF GoesOn, Active
  <2>2. Data' = Data
    BY <2>1 DEF Data
  <2>3. device'.by = device.by
    BY <1>3, SendEffect, TypedEffect, ClientFields
  <2> QED
    BY <1>0, <2>1, <2>2, <2>3, DataKept
<1>4. CASE NewSession
  <2>1. Data' = <<>>
    BY <1>4, ReadAll, NoTokens DEF NewSession
  <2>2. DOMAIN <<>> = {}
    OBVIOUS
  <2> QED
    BY <2>1, <2>2 DEF DataInv
<1>5. CASE Listens
  <2>1. Active /\ reply' = reply /\ device'.by = device.by
    BY <1>5, WaitingIsActive DEF Listens
  <2>2. Data \in Seq(Tokens) /\ Echoes \in SUBSET (DOMAIN Data)
    BY ClientFields DEF Echoes
  <2>3. \A i \in DOMAIN Data' : \E j \in DOMAIN Data : Data'[i] = Data[j]
    <3>1. CASE Data' = Data
      BY <3>1
    <3>2. CASE Echoes # {} /\ Data' = FromEcho(Data, Echoes)
      BY <2>2, <3>2, FromEchoTypes
    <3> QED
      BY <1>5, <3>1, <3>2 DEF Listens
  <2> QED
    BY <1>0, <2>1, <2>3, DataKept
<1>6. CASE Over
  BY <1>6 DEF Over, DataInv, Active
<1>7. ASSUME NEW got \in Seq(Tokens), Finishes(got)
      PROVE  DataInv'
  <2>1. Active /\ reply' = reply /\ device'.by = device.by
    BY <1>7, WaitingIsActive DEF Finishes
  <2>2. PICK w \in Seq(Tokens) : w = wire'
    BY DEF SessionTypes
  <2>3. Data' = w
    <3>1. client'.got = <<>> /\ <<>> \o w = w
      BY <1>7, FinishEffect, ReadAll
    <3> QED
      BY <2>2, <3>1 DEF Data
  <2>4. \A i \in DOMAIN w : \E j \in DOMAIN Data : w[i] = Data[j]
    <3>1. CASE w = <<>>
      BY <3>1
    <3>2. CASE got \o w = Data
      <4>1. PICK d : d = got \o w
        OBVIOUS
      <4>2. \A i \in DOMAIN w : Len(got) + i \in DOMAIN d /\ d[Len(got) + i] = w[i]
        BY <4>1
      <4> QED
        BY <3>2, <4>1, <4>2
    <3> QED
      BY <1>7, <2>2, <3>1, <3>2 DEF Finishes
  <2> QED
    BY <1>0, <2>1, <2>3, <2>4, DataKept
<1> QED
  BY <1>1, <1>2, <1>3, <1>4, <1>5, <1>6, <1>7, Kinds

LEMMA EventsKept ==
    ASSUME EventsInv, events' = events, Sent' = Sent, Active \/ client.pc = "done"
    PROVE  EventsInv'
BY DEF EventsInv

LEMMA EventsStep ==
    ASSUME SessionTypes, DeviceInv, EventsInv, Next
    PROVE  EventsInv'
<1>1. CASE PrintToken \/ TakeInput
  <2>1. client' = client /\ events' = events
    BY <1>1, PrintEffect, TakeEffect
  <2>2. Sent' = Sent
    BY <2>1 DEF Sent
  <2>3. CASE Active \/ client.pc = "done"
    BY <2>1, <2>2, <2>3, EventsKept
  <2>4. CASE ~(Active \/ client.pc = "done")
    BY <2>1, <2>4 DEF EventsInv, Active
  <2> QED
    BY <2>3, <2>4
<1>2. CASE Send
  <2>1. CASE events'.lost = TRUE
    BY <2>1 DEF EventsInv
  <2>2. CASE events'.commands = Append(events.commands, client.cmd) /\ events'.lost = events.lost
    <3>1. CASE events.lost
      BY <2>2, <3>1 DEF EventsInv
    <3>2. CASE ~events.lost
      <4>1. client.pc = "send" /\ client.cmd \in Commands /\ client'.cmd = client.cmd /\ client'.pc = "echo"
        BY <1>2, SendEffect DEF GoesOn
      <4>2. PICK c \in Nat : c = client.cmd /\ c >= 1
        BY <4>1 DEF Commands
      <4>3. Active /\ Sent = c - 1 /\ Sent' = c
        BY <4>1, <4>2 DEF Active, Sent
      <4>4. PICK s \in Seq(Commands) : s = events.commands
        BY DEF SessionTypes
      <4>5. Len(s) >= c - 1 /\ \A i \in 1..(c - 1) : s[Len(s) - (c - 1) + i] = i
        BY <3>2, <4>3, <4>4 DEF EventsInv
      <4>6. PICK e \in Commands : e = client.cmd
        BY <4>1
      <4>7. PICK t : t = Append(s, e)
        OBVIOUS
      <4>8. Len(t) = Len(s) + 1 /\ t[Len(s) + 1] = c /\ \A j \in 1..Len(s) : t[j] = s[j]
        BY <4>2, <4>4, <4>6, <4>7
      <4>9. ASSUME NEW i \in 1..c
            PROVE  t[Len(t) - c + i] = i
        <5>1. CASE i = c
          <6>1. Len(t) - c + c = Len(s) + 1
            BY <4>2, <4>8
          <6> QED
            BY <4>8, <5>1, <6>1
        <5>2. CASE i # c
          <6>0. PICK l \in Nat : l = Len(s) /\ Len(t) = l + 1 /\ l >= c - 1
            BY <4>5, <4>8
          <6>1. PICK j \in 1..Len(s) : j = Len(s) - (c - 1) + i /\ j = Len(t) - c + i
            <7>1. l - (c - 1) + i \in 1..l /\ l - (c - 1) + i = l + 1 - c + i
              BY <4>2, <5>2, <6>0
            <7> QED
              BY <6>0, <7>1
          <6>2. i \in 1..(c - 1)
            BY <5>2
          <6> QED
            BY <4>5, <4>8, <6>1, <6>2
        <5> QED
          BY <5>1, <5>2
      <4>10. Len(t) >= c
        BY <4>2, <4>5, <4>8
      <4>11. events'.commands = t
        BY <2>2, <4>4, <4>6, <4>7
      <4> QED
        BY <4>3, <4>9, <4>10, <4>11 DEF EventsInv
    <3> QED
      BY <3>1, <3>2
  <2> QED
    BY <1>2, <2>1, <2>2, SendEffect
<1>3. CASE NewSession
  <2>1. Sent' = 0 /\ events' = events
    BY <1>3 DEF NewSession, Sent
  <2>2. Len(events.commands) \in Nat
    BY DEF SessionTypes
  <2>3. \A i \in 1..0 : FALSE
    OBVIOUS
  <2> QED
    BY <2>1, <2>2, <2>3 DEF EventsInv
<1>4. CASE Listens
  <2>1. Active /\ Sent' = Sent /\ events' = events
    BY <1>4, WaitingIsActive DEF Listens, Waiting, Sent
  <2> QED
    BY <2>1, EventsKept
<1>5. CASE Over
  BY <1>5 DEF Over, EventsInv, Active
<1>6. ASSUME NEW got \in Seq(Tokens), Finishes(got)
      PROVE  EventsInv'
  <2>1. Active /\ Sent = client.cmd /\ events' = events
    BY <1>6, WaitingIsActive DEF Finishes
  <2>2. Sent' = Sent
    BY <1>6, <2>1, FinishEffect
  <2> QED
    BY <2>1, <2>2, EventsKept
<1> QED
  BY <1>1, <1>2, <1>3, <1>4, <1>5, <1>6, Kinds

-----------------------------------------------------------------------------
(* What is read belongs to the command, unless that is misread. *)

LEMMA EchoIsRead ==
    ASSUME SessionTypes, InputInv, DataInv, StreamInv, client.pc = "echo", ~Astray(client.cmd),
           NEW i \in DOMAIN Data, IsEcho(Data[i], client.cmd)
    PROVE  device.by = client.cmd /\ Data[i] = Token("echo", client.cmd)
<1>1. PICK c \in Commands, k \in 0..NumCommands : c = client.cmd /\ k = device.by /\ k <= c
  <2>1. client.pc \in Waiting
    BY DEF Waiting
  <2>2. device.by <= client.cmd
    BY <2>1, WaitingIsActive DEF InputInv
  <2> QED
    BY <2>1, <2>2, WaitingIsActive, DeviceFields
<1>2. c \in Nat /\ k \in Nat
  BY DEF Commands
<1>3. PICK t \in Tokens : t = Data[i] /\ Printing(t)
  <2>1. Active
    BY DEF Active
  <2>2. Data \in Seq(Tokens)
    BY ClientFields
  <2> QED
    BY <2>1, <2>2 DEF DataInv
<1>4. t.by \in Commands /\ t.by \in Nat /\ t.by <= k
  BY <1>1, <1>3 DEF Printing, Tokens, Commands
<1>5. CASE t = Token("echo", c)
  BY <1>1, <1>2, <1>3, <1>4, <1>5 DEF Token
<1>6. CASE t = Token("echoish", c - 1)
  <2>1. t.kind = "echoish" /\ t.by = c - 1
    BY <1>6 DEF Token
  <2>2. Prints(c - 1, "echoish")
    BY <1>3, <2>1 DEF Printing
  <2>3. ~Misread(c - 1)
    BY <1>1, <2>2 DEF Astray
  <2>4. (k = c /\ Own(Data, 0, c, device.left)) \/ Data = <<>>
    BY <1>1, <2>3 DEF StreamInv, Nothing
  <2>5. CASE Data = <<>>
    BY <2>5
  <2>6. CASE k = c /\ Own(Data, 0, c, device.left)
    <3>1. PICK d \in Seq(Tokens) : d = Data
      BY ClientFields
    <3>2. i \in (0 + 1)..Len(d)
      BY <3>1
    <3>3. d[i].by = c
      BY <2>6, <3>1, <3>2 DEF Own
    <3> QED
      BY <1>2, <1>3, <2>1, <3>1, <3>3
  <2> QED
    BY <2>4, <2>5, <2>6
<1> QED
  BY <1>1, <1>3, <1>5, <1>6 DEF IsEcho

LEMMA FoundEcho ==
    ASSUME SessionTypes, InputInv, DataInv, StreamInv, client.pc = "echo", ~Astray(client.cmd), Echoes # {}
    PROVE  /\ device.by = client.cmd /\ FromEcho(Data, Echoes) # <<>>
           /\ Own(FromEcho(Data, Echoes), 0, client.cmd, device.left)
<1>1. PICK c \in Commands, d \in Seq(Tokens), left \in Seq(Items) :
         c = client.cmd /\ d = Data /\ left = device.left
  <2>1. client.pc \in Waiting
    BY DEF Waiting
  <2> QED
    BY <2>1, WaitingIsActive, ClientFields, DeviceFields
<1>2. \A i \in Echoes : i \in 1..Len(d) /\ d[i] = Token("echo", c) /\ device.by = c
  <2>1. \A i \in Echoes : i \in DOMAIN Data /\ IsEcho(Data[i], client.cmd)
    BY DEF Echoes
  <2> QED
    BY <1>1, <2>1, EchoIsRead
<1>3. device.by = c
  BY <1>2
<1>4. PICK m \in 0..Len(d) : Own(d, m, c, left)
  BY <1>1, <1>3 DEF StreamInv
<1>5. \A i \in Echoes : i = m + 1
  <2> SUFFICES ASSUME NEW i \in Echoes PROVE i = m + 1
    OBVIOUS
  <2>1. i \in 1..Len(d) /\ d[i].kind = "echo" /\ d[i].by = c
    BY <1>2 DEF Token
  <2>2. c \in Nat
    BY DEF Commands
  <2>3. ~(i \in 1..m)
    BY <1>4, <2>1, <2>2 DEF Own
  <2>4. i \in (m + 1)..Len(d)
    BY <2>1, <2>3
  <2> QED
    BY <1>4, <2>1, <2>4 DEF Own
<1>6. Echoes = {m + 1} /\ m < Len(d) /\ m \in Nat
  <2>1. PICK i \in Echoes : TRUE
    OBVIOUS
  <2>2. i = m + 1 /\ i \in 1..Len(d)
    BY <1>2, <1>5, <2>1
  <2>3. Echoes = {m + 1}
    BY <1>5, <2>1, <2>2
  <2>4. m \in Nat /\ Len(d) \in Nat /\ m + 1 \in 1..Len(d)
    BY <2>2
  <2> QED
    BY <2>3, <2>4
<1>7. Cardinality(Echoes) = 1
  BY <1>6, FS_Singleton
<1>8. FromEcho(d, Echoes) = SubSeq(d, m + 1, Len(d))
  <2>1. (CHOOSE i \in Echoes : TRUE) = m + 1
    BY <1>6
  <2> QED
    BY <1>7, <2>1 DEF FromEcho
<1>9. Own(SubSeq(d, m + 1, Len(d)), 0, c, left) /\ SubSeq(d, m + 1, Len(d)) # <<>>
  BY <1>4, <1>6, OwnFromEcho
<1> QED
  BY <1>1, <1>3, <1>8, <1>9

LEMMA FinishedKinds ==
    ASSUME SessionTypes, SessionTypes', DataInv, NEW got \in Seq(Tokens), Finishes(got)
    PROVE  KindsOf(got)
<1>1. PICK d \in Seq(Tokens), w \in Seq(Tokens) : d = Data /\ w = wire'
  BY ClientFields DEF SessionTypes
<1>2. \A i \in DOMAIN got : \E j \in DOMAIN d : got[i] = d[j]
  <2>1. CASE got \o w = d
    <3>1. \A i \in 1..Len(got) : i \in 1..Len(got \o w) /\ (got \o w)[i] = got[i]
      OBVIOUS
    <3> QED
      BY <2>1, <3>1
  <2>2. CASE got = FromEcho(d, Echoes) /\ Echoes # {}
    <3>1. Echoes \in SUBSET (DOMAIN d)
      BY <1>1 DEF Echoes
    <3> QED
      BY <2>2, <3>1, FromEchoTypes
  <2> QED
    BY <1>1, <2>1, <2>2 DEF Finishes
<1>3. \A j \in DOMAIN d : d[j].kind \in {"echo", "prompt"} \/ Prints(d[j].by, d[j].kind)
  <2>1. Active
    BY WaitingIsActive DEF Finishes
  <2>2. \A j \in DOMAIN d : Printing(d[j])
    BY <1>1, <2>1 DEF DataInv
  <2> QED
    BY <2>2 DEF Printing
<1> QED
  BY <1>2, <1>3 DEF KindsOf

LEMMA FinishedOwn ==
    ASSUME SessionTypes, SessionTypes', InputInv, DataInv, StreamInv, ~Astray(client.cmd),
           NEW got \in Seq(Tokens), Finishes(got)
    PROVE  /\ device.by = client.cmd /\ got # <<>>
           /\ \E d, w \in Seq(Tokens) : w = wire' /\ d = got \o w /\ Own(d, 0, client.cmd, device.left)
<1>1. PICK w \in Seq(Tokens) : w = wire'
  BY DEF SessionTypes
<1>2. PICK d \in Seq(Tokens) : d = got \o w
  <2>1. got \o w \in Seq(Tokens)
    OBVIOUS
  <2> QED
    BY <2>1
<1>3. CASE client.pc # "echo" /\ d = Data /\ (client.got # <<>> => got # <<>>)
  <2>1. client.pc \in {"read", "page", "turned"}
    BY <1>3 DEF Finishes, Waiting
  <2>2. device.by = client.cmd /\ client.got # <<>> /\ Own(Data, 0, client.cmd, device.left)
    BY <2>1 DEF StreamInv
  <2> QED
    BY <1>1, <1>2, <1>3, <2>2
<1>4. CASE client.pc = "echo" /\ w = <<>> /\ got = FromEcho(Data, Echoes) /\ Echoes # {}
  <2>1. d = got
    BY <1>2, <1>4, ReadAll
  <2>2. device.by = client.cmd /\ got # <<>> /\ Own(got, 0, client.cmd, device.left)
    BY <1>4, FoundEcho
  <2> QED
    BY <1>1, <1>2, <2>1, <2>2
<1> QED
  BY <1>1, <1>2, <1>3, <1>4 DEF Finishes

\* A command that is not misread is read to its end.
LEMMA FinishedWhole ==
    ASSUME SessionTypes, SessionTypes', InputInv, DataInv, StreamInv, ~Misread(client.cmd),
           NEW got \in Seq(Tokens), Finishes(got)
    PROVE  /\ Stripped(got) = Printed(client.cmd) /\ wire' = <<>> /\ device.left = <<>>
           /\ device.by = client.cmd
<1>1. PICK c \in Commands, left \in Seq(Items) : c = client.cmd /\ left = device.left
  BY WaitingIsActive, DeviceFields DEF Finishes
<1>2. ~Astray(c) /\ ~Prints(c, "promptish")
  BY <1>1, MisreadFrom
<1>3. /\ device.by = c /\ got # <<>>
      /\ \E d, w \in Seq(Tokens) : w = wire' /\ d = got \o w /\ Own(d, 0, c, left)
  BY <1>1, <1>2, FinishedOwn
<1>4. PICK d \in Seq(Tokens), w \in Seq(Tokens) : w = wire' /\ d = got \o w /\ Own(d, 0, c, left)
  BY <1>3
<1>5. KindsOf(got) /\ Holds(got, PromptLike)
  BY FinishedKinds DEF Finishes
<1>6. Stripped(got) = Printed(c) /\ w = <<>> /\ left = <<>>
  BY <1>2, <1>3, <1>4, <1>5, WholeIsRead
<1> QED
  BY <1>1, <1>3, <1>4, <1>6

LEMMA PlainIsOn ==
    ASSUME Plain, NEW k \in Commands
    PROVE  ~Astray(k)
<1>1. CASE k = 1
  BY <1>1, FirstIsRead
<1>2. CASE k # 1
  <2>1. k - 1 \in Commands
    BY <1>2, SessionAssumption DEF Commands
  <2> QED
    BY <2>1 DEF Plain, Astray
<1> QED
  BY <1>1, <1>2

LEMMA FinishedSection ==
    ASSUME SessionTypes, SessionTypes', InputInv, DataInv, StreamInv, Plain,
           NEW got \in Seq(Tokens), Finishes(got)
    PROVE  Section(Stripped(got), client.cmd)
<1>1. PICK c \in Commands, left \in Seq(Items) : c = client.cmd /\ left = device.left
  BY WaitingIsActive, DeviceFields DEF Finishes
<1>2. /\ device.by = c /\ got # <<>>
      /\ \E d, w \in Seq(Tokens) : w = wire' /\ d = got \o w /\ Own(d, 0, c, left)
  BY <1>1, PlainIsOn, FinishedOwn
<1>3. PICK d \in Seq(Tokens), w \in Seq(Tokens) : w = wire' /\ d = got \o w /\ Own(d, 0, c, left)
  BY <1>2
<1>4. KindsOf(got)
  BY FinishedKinds
<1>5. Section(Stripped(got), c)
  BY <1>2, <1>3, <1>4, PartIsSection
<1> QED
  BY <1>1, <1>5

LEMMA InactiveStream ==
    ASSUME ~Active
    PROVE  StreamInv
BY DEF Active, StreamInv

LEMMA StreamPrints ==
    ASSUME SessionTypes, DeviceInv, InputInv, StreamInv, PrintToken
    PROVE  StreamInv'
<1>1. /\ client' = client /\ reply' = reply /\ device'.by = device.by /\ device'.input = device.input
      /\ device.left # <<>> /\ device.by \in Commands /\ Rest(device.left, device.by)
  BY PrintEffect
<1>2. PICK k \in Commands, left \in Seq(Items), d \in Seq(Tokens) :
         k = device.by /\ left = device.left /\ d = Data /\ left # <<>> /\ Rest(left, k)
  BY <1>1, DeviceFields, ClientFields
<1>3. PICK new, d2 : new = device'.left /\ d2 = Data'
  OBVIOUS
<1>4. \A m \in Nat : Own(d, m, k, left) => Own(d2, m, k, new)
  <2>1. CASE Head(left) = "again"
    <3>1. wire' = wire /\ new = reply[k] \o <<"prompt">>
      BY <1>2, <1>3, <2>1, PrintEffect
    <3>2. d2 = d
      BY <1>1, <1>2, <1>3, <3>1 DEF Data
    <3> QED
      BY <1>2, <2>1, <3>1, <3>2, RestAgain
  <2>2. CASE Head(left) # "again"
    <3>1. wire' = Append(wire, Token(Head(left), k)) /\ new = Tail(left)
      BY <1>2, <1>3, <2>2, PrintEffect
    <3>2. Token(Head(left), k) \in Tokens
      <4>1. Head(left) \in Items
        BY <1>2
      <4> QED
        BY <2>2, <4>1, TokenTypes
    <3>3. d2 = Append(d, Token(Head(left), k))
      BY <1>1, <1>2, <1>3, <3>1, <3>2, AppendData
    <3> QED
      BY <1>2, <2>2, <3>1, <3>3, OwnPrints
  <2> QED
    BY <2>1, <2>2
<1>5. ~Nothing
  BY <1>1 DEF Nothing
<1>6. CASE client.pc = "send"
  <2>1. Misread(client.cmd - 1)
    BY <1>5, <1>6 DEF StreamInv
  <2> QED
    BY <1>1, <1>6, <2>1, SameReplies DEF StreamInv
<1>7. CASE client.pc = "echo"
  <2>1. Misread(client.cmd - 1) \/ (k = client.cmd /\ Own(d2, 0, client.cmd, new))
    BY <1>2, <1>4, <1>5, <1>7 DEF StreamInv
  <2>2. Astray(client.cmd) \/ k # client.cmd \/ \E m \in 0..Len(d2) : Own(d2, m, client.cmd, new)
    <3>1. SUFFICES ASSUME ~Astray(client.cmd), k = client.cmd
                   PROVE  \E m \in 0..Len(d2) : Own(d2, m, client.cmd, new)
      OBVIOUS
    <3>2. PICK m \in 0..Len(d) : Own(d, m, k, left)
      BY <1>2, <1>7, <3>1 DEF StreamInv
    <3>3. Own(d2, m, k, new) /\ m \in 0..Len(d2)
      <4>1. Own(d2, m, k, new)
        BY <1>4, <3>2
      <4> QED
        BY <4>1 DEF Own
    <3> QED
      BY <3>1, <3>3
  <2> QED
    BY <1>1, <1>2, <1>3, <1>7, <2>1, <2>2, SameReplies DEF StreamInv
<1>8. CASE client.pc \in {"read", "page", "turned"}
  <2>1. Astray(client.cmd) \/ (k = client.cmd /\ client.got # <<>> /\ Own(d2, 0, client.cmd, new))
    BY <1>2, <1>4, <1>8 DEF StreamInv
  <2> QED
    BY <1>1, <1>2, <1>3, <1>8, <2>1, SameReplies DEF StreamInv
<1>9. CASE ~Active
  BY <1>1, <1>9 DEF Active, StreamInv
<1> QED
  BY <1>6, <1>7, <1>8, <1>9 DEF Active

LEMMA StreamTakes ==
    ASSUME SessionTypes, DeviceInv, InputInv, DataInv, StreamInv, TakeInput
    PROVE  StreamInv'
<1>1. client' = client /\ reply' = reply /\ wire' = wire /\ Data' = Data
  BY TakeEffect DEF Data
<1>2. PICK c, d : c = client.cmd /\ d = Data
  OBVIOUS
<1>3. CASE ~Active
  BY <1>1, <1>3 DEF Active, StreamInv
<1>4. PICK input \in Seq(0..NumCommands) : input = device.input /\ input # <<>> /\ device'.input = Tail(input)
  BY TakeEffect, DeviceFields
<1>5. CASE device'.by = device.by /\ device'.left = device.left
  <2>1. Nothing => Nothing'
    <3>1. SUFFICES ASSUME Nothing PROVE Nothing'
      OBVIOUS
    <3>2. \A i \in 1..Len(input) : input[i] \in {0, c}
      BY <1>2, <1>4, <3>1 DEF Nothing
    <3>3. PICK rest : rest = Tail(input)
      OBVIOUS
    <3>4. \A i \in DOMAIN rest : rest[i] \in {0, c}
      <4>1. \A i \in DOMAIN rest : i + 1 \in 1..Len(input) /\ rest[i] = input[i + 1]
        BY <1>4, <3>3
      <4> QED
        BY <3>2, <4>1
    <3> QED
      BY <1>1, <1>2, <1>4, <1>5, <3>1, <3>3, <3>4 DEF Nothing
  <2> QED
    BY <1>1, <1>5, <2>1, SameReplies DEF StreamInv
<1>6. CASE /\ Active /\ Head(device.input) \in Commands /\ device.left = <<>>
           /\ device'.by = Head(device.input) /\ device'.left = Whole(Head(device.input))
  <2>1. PICK e \in Commands : e = input[1] /\ device'.by = e /\ device'.left = Whole(e)
    BY <1>4, <1>6
  <2>2. PICK k \in Nat, n \in Nat : k = device.by /\ n = Sent /\ e > k /\ e <= n /\ e \in Nat
    <3>1. PICK k \in Nat, n \in Nat, inp \in Seq(Nat) :
             /\ k = device.by /\ n = Sent /\ inp = device.input
             /\ \A i \in 1..Len(inp) : inp[i] # 0 => inp[i] > k /\ inp[i] <= n
      BY <1>6, InputFacts
    <3>2. inp = input /\ 1 \in 1..Len(inp)
      BY <1>4, <3>1
    <3>3. e # 0 /\ e \in Nat
      BY DEF Commands
    <3> QED
      BY <2>1, <3>1, <3>2, <3>3
  <2>3. PICK cc \in Commands : cc = c /\ cc \in Nat
    BY <1>2, <1>6, SentIsNumber
  <2>4. CASE client.pc = "send"
    <3>1. n = cc - 1
      BY <1>2, <2>2, <2>3, <2>4 DEF Sent
    <3>2. ~Nothing
      <4>1. 1 \in DOMAIN device.input
        BY <1>4
      <4>2. e # 0 /\ e # cc
        BY <2>2, <2>3, <3>1 DEF Commands
      <4> QED
        BY <1>2, <1>4, <2>1, <2>3, <4>1, <4>2 DEF Nothing
    <3> QED
      BY <1>1, <2>4, <3>2, SameReplies DEF StreamInv
  <2>5. CASE client.pc = "echo"
    <3>1. n = cc
      BY <1>2, <2>2, <2>3, <2>5 DEF Sent
    <3>2. k # cc
      BY <2>2, <2>3, <3>1
    <3>3. ASSUME ~Misread(c - 1)
          PROVE  e = cc /\ Own(d, 0, cc, Whole(cc))
      <4>1. Nothing
        BY <1>2, <2>2, <2>3, <2>5, <3>2, <3>3 DEF StreamInv
      <4>2. e = cc
        <5>1. 1 \in DOMAIN device.input /\ e # 0
          BY <1>4 DEF Commands
        <5> QED
          BY <1>2, <1>4, <2>1, <2>3, <4>1, <5>1 DEF Nothing
      <4>3. PICK x \in Seq(Tokens) : x = <<>> /\ Len(x) = 0 /\ DOMAIN x = {}
        <5>1. PICK x \in Seq(Tokens) : x = <<>>
          BY NoTokens
        <5>2. Len(<<>>) = 0 /\ DOMAIN <<>> = {}
          OBVIOUS
        <5> QED
          BY <5>1, <5>2
      <4>4. Own(x, Len(x), cc, Whole(cc))
        BY <4>3, RestWhole
      <4>5. d = x
        BY <1>2, <4>1, <4>3 DEF Nothing
      <4> QED
        BY <4>2, <4>3, <4>4, <4>5
    <3>4. ASSUME e = cc
          PROVE  Len(d) \in 0..Len(d) /\ Own(d, Len(d), cc, Whole(cc))
      <4>1. PICK x \in Seq(Tokens) : x = d
        BY <1>2, ClientFields
      <4>2. \A i \in DOMAIN x : x[i].by < cc
        <5>1. \A i \in DOMAIN x : x[i] \in Tokens /\ Printing(x[i])
          BY <1>2, <1>6, <4>1 DEF DataInv
        <5>2. \A i \in DOMAIN x : x[i].by <= k /\ x[i].by \in Nat
          BY <2>2, <5>1 DEF Printing, Tokens, Commands
        <5> QED
          BY <2>2, <3>4, <5>2
      <4>3. Own(x, Len(x), cc, Whole(cc)) /\ Len(x) \in 0..Len(x)
        BY <4>2, RestWhole
      <4> QED
        BY <4>1, <4>3
    <3> QED
      BY <1>1, <1>2, <2>1, <2>3, <2>5, <3>3, <3>4, SameReplies DEF StreamInv
  <2>6. CASE client.pc \in {"read", "page", "turned"}
    <3>1. n = cc
      BY <1>2, <2>2, <2>3, <2>6 DEF Sent
    <3>2. k # cc
      BY <2>2, <2>3, <3>1
    <3>3. Astray(c)
      BY <1>2, <2>2, <2>3, <2>6, <3>2 DEF StreamInv
    <3> QED
      BY <1>1, <1>2, <2>6, <3>3, SameReplies DEF StreamInv
  <2> QED
    BY <1>6, <2>4, <2>5, <2>6 DEF Active
<1> QED
  BY <1>3, <1>5, <1>6, TakeEffect

LEMMA StreamSends ==
    ASSUME SessionTypes, DeviceInv, InputInv, StreamInv, Send
    PROVE  StreamInv'
<1>1. /\ client.pc = "send" /\ client.cmd \in Commands /\ client'.pc = "echo" /\ client'.cmd = client.cmd
      /\ client'.got = client.got /\ wire' = wire /\ reply' = reply /\ device' = Typed(client.cmd)
  BY SendEffect DEF GoesOn
<1>2. /\ device'.by = device.by /\ device'.left = device.left
      /\ device'.input = device.input \/ device'.input = Append(device.input, client.cmd)
  BY <1>1, TypedEffect, ClientFields
<1>3. Data' = Data
  BY <1>1 DEF Data
<1>4. PICK c \in Nat, k \in Nat : c = client.cmd /\ k = device.by /\ k < c
  <2>1. PICK k \in Nat, n \in Nat : k = device.by /\ n = Sent /\ k <= n
    <3>1. Active
      BY <1>1 DEF Active
    <3> QED
      BY <3>1, InputFacts
  <2>2. PICK c \in Nat : c = client.cmd
    BY <1>1 DEF Commands
  <2>3. n = c - 1
    BY <1>1, <2>1, <2>2 DEF Sent
  <2> QED
    BY <2>1, <2>2, <2>3
<1>5. Nothing => Nothing'
  <2>1. SUFFICES ASSUME Nothing PROVE Nothing'
    OBVIOUS
  <2>2. PICK input, new : input \in Seq(0..NumCommands) /\ input = device.input /\ new = device'.input
    BY DeviceFields
  <2>3. \A i \in 1..Len(input) : input[i] \in {0, c}
    BY <1>4, <2>1, <2>2 DEF Nothing
  <2>4. \A i \in DOMAIN new : new[i] \in {0, c}
    <3>1. CASE new = input
      BY <2>3, <3>1
    <3>2. CASE new = Append(input, c)
      <4>1. PICK a : a = Append(input, c)
        OBVIOUS
      <4>2. /\ DOMAIN a = 1..(Len(input) + 1) /\ a[Len(input) + 1] = c
            /\ \A i \in 1..Len(input) : a[i] = input[i]
        BY <4>1
      <4>3. \A i \in DOMAIN a : i = Len(input) + 1 \/ i \in 1..Len(input)
        BY <4>2
      <4> QED
        BY <2>3, <3>2, <4>1, <4>2, <4>3
    <3> QED
      BY <1>2, <1>4, <2>2, <3>1, <3>2
  <2> QED
    BY <1>1, <1>2, <1>3, <1>4, <2>1, <2>2, <2>4 DEF Nothing
<1>6. Misread(c - 1) \/ Nothing'
  BY <1>1, <1>4, <1>5 DEF StreamInv
<1>7. k # c /\ k < c
  BY <1>4
<1> QED
  BY <1>1, <1>2, <1>3, <1>4, <1>6, <1>7, SameReplies DEF StreamInv

LEMMA StreamListens ==
    ASSUME SessionTypes, InputInv, DataInv, StreamInv, Listens
    PROVE  StreamInv'
<1>1. /\ client.pc \in Waiting /\ client'.pc \in Waiting /\ client'.cmd = client.cmd /\ reply' = reply
      /\ device'.left = device.left /\ device'.by = device.by
  BY DEF Listens
<1>2. CASE /\ Data' = Data /\ (client'.pc = "echo" <=> client.pc = "echo")
           /\ client.got # <<>> => client'.got # <<>>
  <2>1. Nothing => Nothing'
    <3>1. SUFFICES ASSUME Nothing PROVE Nothing'
      OBVIOUS
    <3>2. PICK input, new, c : input \in Seq(0..NumCommands) /\ input = device.input /\ new = device'.input /\ c = client.cmd
      BY DeviceFields
    <3>3. \A i \in 1..Len(input) : input[i] \in {0, c}
      BY <3>1, <3>2 DEF Nothing
    <3>4. \A i \in DOMAIN new : new[i] \in {0, c}
      <4>1. CASE new = input
        BY <3>3, <4>1
      <4>2. CASE new = Append(input, 0)
        <5>1. PICK a : a = Append(input, 0)
          OBVIOUS
        <5>2. /\ DOMAIN a = 1..(Len(input) + 1) /\ a[Len(input) + 1] = 0
              /\ \A i \in 1..Len(input) : a[i] = input[i]
          BY <5>1
        <5>3. \A i \in DOMAIN a : i = Len(input) + 1 \/ i \in 1..Len(input)
          BY <5>2
        <5> QED
          BY <3>3, <4>2, <5>1, <5>2, <5>3
      <4> QED
        BY <3>2, <4>1, <4>2 DEF Listens
    <3> QED
      BY <1>1, <1>2, <3>1, <3>2, <3>4 DEF Nothing
  <2>2. CASE client.pc = "echo"
    <3>1. client'.pc = "echo"
      BY <1>2, <2>2
    <3> QED
      BY <1>1, <1>2, <2>1, <2>2, <3>1, SameReplies DEF StreamInv
  <2>3. CASE client.pc # "echo"
    <3>1. client.pc \in {"read", "page", "turned"} /\ client'.pc \in {"read", "page", "turned"}
      BY <1>1, <1>2, <2>3 DEF Waiting
    <3> QED
      BY <1>1, <1>2, <3>1, SameReplies DEF StreamInv
  <2> QED
    BY <2>2, <2>3
<1>3. CASE /\ Data' = FromEcho(Data, Echoes) /\ client'.got = FromEcho(Data, Echoes)
           /\ client.pc = "echo" /\ client'.pc # "echo" /\ Echoes # {}
  <2>1. client'.pc \in {"read", "page", "turned"}
    BY <1>1, <1>3 DEF Waiting
  <2>2. \/ Astray(client.cmd)
        \/ /\ device'.by = client.cmd /\ client'.got # <<>>
           /\ Own(FromEcho(Data, Echoes), 0, client.cmd, device.left)
    BY <1>1, <1>3, FoundEcho
  <2>3. PICK d, left : d = Data' /\ left = device'.left
    OBVIOUS
  <2>4. \/ Astray(client.cmd)
        \/ device'.by = client.cmd /\ client'.got # <<>> /\ Own(d, 0, client.cmd, left)
    BY <1>1, <1>3, <2>2, <2>3
  <2> QED
    BY <1>1, <2>1, <2>3, <2>4, SameReplies DEF StreamInv
<1> QED
  BY <1>2, <1>3 DEF Listens

LEMMA StreamFinishes ==
    ASSUME SessionTypes, SessionTypes', InputInv, DataInv, StreamInv,
           NEW got \in Seq(Tokens), Finishes(got)
    PROVE  StreamInv'
<1>1. /\ client'.got = <<>> /\ client'.pc \in {"send", "done"} /\ reply' = reply /\ device' = device
      /\ client'.pc = "send" => client'.cmd = client.cmd + 1
  BY FinishEffect DEF Finishes
<1>2. PICK c \in Nat : c = client.cmd
  BY WaitingIsActive DEF Finishes
<1>3. CASE client'.pc = "done"
  BY <1>3 DEF StreamInv
<1>4. CASE client'.pc = "send" /\ Misread(c)
  <2>1. client'.cmd - 1 = c
    BY <1>1, <1>2, <1>4
  <2> QED
    BY <1>1, <1>4, <2>1, SameReplies DEF StreamInv
<1>5. CASE client'.pc = "send" /\ ~Misread(c)
  <2>1. wire' = <<>> /\ device.left = <<>> /\ device.by = c
    BY <1>2, <1>5, FinishedWhole
  <2>2. Data' = <<>>
    BY <1>1, <2>1, ReadAll, NoTokens
  <2>3. \A i \in DOMAIN device.input : device.input[i] = 0
    <3>1. Active /\ Sent = c
      BY <1>2, WaitingIsActive DEF Finishes
    <3>2. PICK k \in Nat, n \in Nat, input \in Seq(Nat) :
             /\ k = device.by /\ n = Sent /\ input = device.input
             /\ \A i \in 1..Len(input) : input[i] # 0 => input[i] > k /\ input[i] <= n
      BY <3>1, InputFacts
    <3>3. \A i \in 1..Len(input) : input[i] \in Nat /\ (input[i] # 0 => input[i] > c /\ input[i] <= c)
      BY <2>1, <3>1, <3>2
    <3>4. \A i \in 1..Len(input) : input[i] = 0
      BY <3>3
    <3> QED
      BY <3>2, <3>4
  <2>4. Nothing'
    BY <1>1, <2>1, <2>2, <2>3 DEF Nothing
  <2> QED
    BY <1>5, <2>4 DEF StreamInv
<1> QED
  BY <1>1, <1>3, <1>4, <1>5

LEMMA StreamStep ==
    ASSUME SessionTypes, SessionTypes', DeviceInv, InputInv, DataInv, StreamInv, Next
    PROVE  StreamInv'
<1>1. CASE NewSession
  <2>1. client'.pc = "send" /\ client'.cmd = 1 /\ client'.got = <<>> /\ wire' = <<>>
        /\ device'.left = <<>> /\ device'.input = <<>>
    BY <1>1 DEF NewSession, AtPrompt
  <2>2. Data' = <<>>
    BY <2>1, ReadAll, NoTokens
  <2>3. DOMAIN <<>> = {}
    OBVIOUS
  <2>4. Nothing'
    BY <2>1, <2>2, <2>3 DEF Nothing
  <2> QED
    BY <2>1, <2>4 DEF StreamInv
<1>2. CASE Over
  BY <1>2 DEF Over, StreamInv
<1>3. ASSUME NEW got \in Seq(Tokens), Finishes(got)
      PROVE  StreamInv'
  BY <1>3, StreamFinishes
<1> QED
  BY <1>1, <1>2, <1>3, StreamPrints, StreamTakes, StreamSends, StreamListens, Kinds

LEMMA PartsKept ==
    ASSUME PartsInv, parts' = parts, reply' = reply, Active \/ client.pc = "done"
    PROVE  PartsInv'
BY SameReplies DEF PartsInv

LEMMA PartsStep ==
    ASSUME SessionTypes, SessionTypes', DeviceInv, InputInv, DataInv, StreamInv, PartsInv, Next
    PROVE  PartsInv'
<1>1. CASE PrintToken \/ TakeInput
  <2>1. client' = client /\ parts' = parts /\ reply' = reply
    BY <1>1, PrintEffect, TakeEffect
  <2>2. CASE Active \/ client.pc = "done"
    BY <2>1, <2>2, PartsKept
  <2>3. CASE ~(Active \/ client.pc = "done")
    BY <2>1, <2>3 DEF PartsInv, Active
  <2> QED
    BY <2>2, <2>3
<1>2. CASE Send
  <2>1. Active /\ parts' = parts /\ reply' = reply
    BY <1>2, SendEffect DEF GoesOn, Active
  <2> QED
    BY <2>1, PartsKept
<1>3. CASE NewSession
  <2>1. parts' = <<>> /\ DOMAIN <<>> = {}
    BY <1>3 DEF NewSession
  <2> QED
    BY <2>1 DEF PartsInv
<1>4. CASE Listens
  <2>1. Active /\ parts' = parts /\ reply' = reply
    BY <1>4, WaitingIsActive DEF Listens
  <2> QED
    BY <2>1, PartsKept
<1>5. CASE Over
  BY <1>5 DEF Over, PartsInv, Active
<1>6. ASSUME NEW got \in Seq(Tokens), Finishes(got)
      PROVE  PartsInv'
  <2>1. Active /\ client.cmd \in Commands /\ reply' = reply
    BY <1>6, WaitingIsActive DEF Finishes
  <2>2. PICK c \in Nat, p \in Seq(Seq(Tokens)), s \in Seq(Tokens) :
           c = client.cmd /\ p = parts /\ s = Stripped(got) /\ Len(p) = c - 1 /\ c >= 1
    <3>1. parts \in Seq(Seq(Tokens)) /\ Len(parts) = client.cmd - 1
      BY <2>1 DEF SessionTypes
    <3>2. client.cmd \in Nat /\ client.cmd >= 1
      BY <2>1 DEF Commands
    <3> QED
      BY <3>1, <3>2, StrippedTypes
  <2>3. PICK q : q = Append(p, s)
    OBVIOUS
  <2>4. DOMAIN q = 1..c /\ q[c] = s /\ (\A k \in 1..c : k = c \/ k \in 1..(c - 1))
        /\ \A k \in 1..(c - 1) : q[k] = p[k]
    <3>1. Len(q) = Len(p) + 1 /\ DOMAIN q = 1..Len(q) /\ q[Len(p) + 1] = s
          /\ \A k \in 1..Len(p) : q[k] = p[k]
      BY <2>3
    <3> QED
      BY <2>2, <3>1
  <2>5. parts' = q
    BY <1>6, <2>2, <2>3, FinishEffect
  <2>6. s = Printed(c) \/ Misread(c)
    BY <1>6, <2>2, FinishedWhole
  <2>7. Plain => Section(s, c)
    BY <1>6, <2>2, FinishedSection
  <2>8. \A k \in 1..(c - 1) : (p[k] = Printed(k) \/ Misread(k)) /\ (Plain => Section(p[k], k))
    <3>1. DOMAIN p = 1..(c - 1)
      BY <2>2
    <3> QED
      BY <2>1, <2>2, <3>1 DEF PartsInv
  <2>9. \A k \in DOMAIN q : (q[k] = Printed(k) \/ Misread(k)) /\ (Plain => Section(q[k], k))
    BY <2>4, <2>6, <2>7, <2>8
  <2> QED
    BY <2>1, <2>5, <2>9, SameReplies DEF PartsInv
<1> QED
  BY <1>1, <1>2, <1>3, <1>4, <1>5, <1>6, Kinds

-----------------------------------------------------------------------------
(* The invariant, and what it says of a backup that succeeded. *)

LEMMA SessionInit ==
    Init => SessionInv
<1> SUFFICES ASSUME Init PROVE SessionInv
  OBVIOUS
<1>1. client.pc = "connect" /\ device.left = <<>> /\ device.by = 0 /\ device.paused = FALSE
  BY DEF Init, Reading, AtPrompt
<1>2. DeviceInv
  BY <1>1 DEF DeviceInv
<1>3. InputInv /\ DataInv /\ StreamInv /\ PartsInv /\ EventsInv
  BY <1>1 DEF InputInv, DataInv, StreamInv, PartsInv, EventsInv, Active
<1> QED
  BY <1>2, <1>3, TypesInit DEF SessionInv

LEMMA SessionStep ==
    ASSUME SessionInv, [Next]_vars
    PROVE  SessionInv'
<1>1. CASE Next
  <2>1. SessionTypes' /\ DeviceInv' /\ InputInv' /\ EventsInv'
    BY <1>1, TypesStep, DeviceStep, InputStep, EventsStep DEF SessionInv
  <2>2. DataInv' /\ StreamInv' /\ PartsInv'
    BY <1>1, <2>1, DataStep, StreamStep, PartsStep DEF SessionInv
  <2> QED
    BY <2>1, <2>2 DEF SessionInv
<1>2. CASE UNCHANGED vars
  <2>1. UNCHANGED <<reply, device, wire, client, parts, events>>
    BY <1>2 DEF vars
  <2>2. Data' = Data /\ Sent' = Sent /\ (Active' <=> Active) /\ (Nothing' <=> Nothing)
    BY <2>1 DEF Data, Sent, Active, Nothing
  <2>3. SessionTypes' /\ InputInv' /\ EventsInv'
    BY <2>1, <2>2 DEF SessionInv, SessionTypes, InputInv, EventsInv
  <2>4. DeviceInv' /\ StreamInv' /\ PartsInv'
    BY <2>1, <2>2, SameReplies DEF SessionInv, DeviceInv, StreamInv, PartsInv
  <2>5. DataInv'
    BY <2>1, <2>2, SameReplies DEF SessionInv, DataInv, Printing
  <2> QED
    BY <2>3, <2>4, <2>5 DEF SessionInv
<1> QED
  BY <1>1, <1>2

\* The last attempt is this one.
LEMMA LastIsThis ==
    ASSUME SessionTypes, EventsInv, client.pc = "done", ~events.lost
    PROVE  ShownCommands = [k \in Commands |-> k]
<1>1. PICK n \in Nat, s \in Seq(Commands), l \in Nat :
         /\ n = NumCommands /\ n >= 1 /\ s = events.commands /\ l = Len(s) - n
         /\ \A i \in 1..n : s[l + i] = i
  <2>1. events.commands \in Seq(Commands) /\ NumCommands \in Nat /\ NumCommands >= 1 /\ Sent = NumCommands
    BY SessionAssumption DEF SessionTypes, Sent
  <2>2. PICK s \in Seq(Commands) : s = events.commands
    BY <2>1
  <2>3. Len(s) >= NumCommands /\ \A i \in 1..NumCommands : s[Len(s) - NumCommands + i] = i
    BY <2>1, <2>2 DEF EventsInv
  <2>4. Len(s) - NumCommands \in Nat
    BY <2>1, <2>3
  <2> QED
    BY <2>1, <2>2, <2>3, <2>4
<1> DEFINE starts == {i \in DOMAIN s : s[i] = 1}
<1>2. Len(s) = l + n /\ DOMAIN s = 1..(l + n)
  <2>1. Len(s) \in Nat /\ DOMAIN s = 1..Len(s)
    OBVIOUS
  <2> QED
    BY <1>1, <2>1
<1>3. l + 1 \in starts
  BY <1>1, <1>2
<1>4. \A j \in starts : j <= l + 1
  <2> SUFFICES ASSUME NEW j \in starts, j > l + 1 PROVE FALSE
    BY <1>2
  <2>1. j - l \in 1..n /\ l + (j - l) = j
    BY <1>2
  <2>2. s[j] = j - l
    BY <1>1, <2>1
  <2> QED
    BY <1>2, <2>2
<1>5. (CHOOSE i \in starts : \A j \in starts : j <= i) = l + 1
  <2>1. \A i \in starts : (\A j \in starts : j <= i) => i = l + 1
    <3>1. starts \subseteq Nat
      BY <1>2
    <3> HIDE DEF starts
    <3> QED
      BY <1>3, <1>4, <3>1
  <2> HIDE DEF starts
  <2> QED
    BY <1>3, <1>4, <2>1
<1>6. PICK q : q = SubSeq(s, l + 1, Len(s))
  OBVIOUS
<1>7. Len(q) = n /\ (\A i \in 1..n : q[i] = i) /\ q # <<>> /\ q = [i \in 1..n |-> i]
  <2>1. q \in Seq(Commands) /\ Len(q) = n /\ \A i \in 1..n : q[i] = s[l + i]
    BY <1>1, <1>2, <1>6
  <2>2. q = [i \in 1..Len(q) |-> q[i]] /\ q # <<>>
    BY <1>1, <2>1
  <2> QED
    BY <1>1, <2>1, <2>2
<1>8. LastAttempt(events.commands) = q
  <2>1. starts # {}
    BY <1>3
  <2> QED
    BY <1>1, <1>5, <1>6, <2>1 DEF LastAttempt
<1> QED
  BY <1>1, <1>7, <1>8 DEF ShownCommands, Commands

LEMMA SessionIsWhole ==
    SessionInv => RepliesAreWhole
<1> SUFFICES ASSUME SessionInv, client.pc = "done"
             PROVE  /\ \A k \in Commands : parts[k] = Printed(k) \/ Misread(k)
                    /\ events.lost \/ (\E k \in Commands : Prints(k, "echoish")) \/
                       Sections(FlattenSeq(parts), ShownCommands) = parts
  BY DEF RepliesAreWhole
<1>1. SessionTypes /\ PartsInv /\ EventsInv
  BY DEF SessionInv
<1>2. PICK p \in Seq(Seq(Tokens)) : p = parts /\ Len(p) = NumCommands /\ DOMAIN p = Commands
  BY <1>1 DEF SessionTypes, Commands
<1>3. \A k \in Commands : (p[k] = Printed(k) \/ Misread(k)) /\ (Plain => Section(p[k], k))
  BY <1>1, <1>2 DEF PartsInv
<1>4. ASSUME ~events.lost, ~\E k \in Commands : Prints(k, "echoish")
      PROVE  Sections(FlattenSeq(p), ShownCommands) = p
  <2>1. \A k \in Commands : Section(p[k], k)
    BY <1>3, <1>4 DEF Plain
  <2>2. ShownCommands = [k \in Commands |-> k]
    BY <1>1, <1>4, LastIsThis
  <2> QED
    BY <1>2, <2>1, <2>2, SectionsAreParts
<1> QED
  BY <1>2, <1>3, <1>4

\* What a backup keeps of a device is the whole reply to each command, unless
\* it is misread, and its page gives each command its own reply.
\* (run_netmiko_commands, split_backup_command_output)
THEOREM RepliesStayWhole ==
    Spec => []RepliesAreWhole
<1>1. Init => SessionInv
  BY SessionInit
<1>2. SessionInv /\ [Next]_vars => SessionInv'
  BY SessionStep
<1>3. SessionInv => RepliesAreWhole
  BY SessionIsWhole
<1> QED
  BY <1>1, <1>2, <1>3, PTL DEF Spec
=============================================================================

------------------------------ MODULE Dialogues ------------------------------
(***************************************************************************)
(* The dialogues of the processes with a peer that may fall silent or go:  *)
(* a backup with its device, a web handler with its client, and the web    *)
(* shell between the two.  They share no state, so a behaviour is one of   *)
(* them, and the others are as they are after their end.                   *)
(***************************************************************************)
EXTENDS DeviceSession, WebRequests, WebShell

dialogueVars == <<vars, handlerVars, shellVars>>

NoSession ==
    /\ reply = [k \in Commands |-> <<>>]
    /\ device = AtPrompt /\ wire = <<>> /\ client = Reading("failed", 0)
    /\ attempt = 1 /\ retries = MaxRetries /\ parts = <<>>
    /\ events = [commands |-> <<>>, lost |-> FALSE]

NoRequest ==
    /\ script = Handler("none", <<>>)
    /\ req = [r \in Request |-> [NotYet EXCEPT !.phase = "over", !.heard = "ok"]]
    /\ db = [change |-> {}, half |-> {}, audit |-> {}]
    /\ follower = [r \in Request |-> "none"]
    /\ together = FALSE /\ faults = MaxFaults

NoShell ==
    /\ shell = [pc |-> "over", method |-> "ssh", attempt |-> 1, ended |-> "refused"]
    /\ line = NoLine /\ browser = [there |-> TRUE, sent |-> 0]
    /\ output = NoOutput /\ input = "off" /\ login = [step |-> 0, buffer |-> <<>>]
    /\ trail = {} /\ mishaps = MaxMishaps

DialoguesInit ==
    \/ Init /\ NoRequest /\ NoShell
    \/ NoSession /\ HandlersInit /\ NoShell
    \/ NoSession /\ NoRequest /\ ShellInit

DialoguesNext ==
    \/ Next /\ UNCHANGED <<handlerVars, shellVars>>
    \/ HandlersNext /\ UNCHANGED <<vars, shellVars>>
    \/ ShellNext /\ UNCHANGED <<vars, handlerVars>>

\* The fairness of the parts: see DeviceSession and WebShell.
DialoguesSpec ==
    /\ DialoguesInit /\ [][DialoguesNext]_dialogueVars
    /\ WF_dialogueVars(Session /\ UNCHANGED <<handlerVars, shellVars>>)
    /\ WF_dialogueVars(Relay /\ UNCHANGED <<vars, handlerVars>>)
=============================================================================

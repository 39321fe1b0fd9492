--------------------------- MODULE ServiceScripts ---------------------------
(***************************************************************************)
(* What the services do for the handlers: for each kind of row the checks, *)
(* the reads and the writes of its operations, in the order of the code.   *)
(* how is what the handler makes of a ServiceError: the exception goes on, *)
(* or becomes a redirect.                                                  *)
(***************************************************************************)
EXTENDS Handlers

\* Mutant: the name is not looked up.
CredentialsUnchecked(how) ==
    [create |-> <<Insert>>, update |-> <<Check(how), Write>>, delete |-> <<Find(how), Check(how), Write>>]

\* Names are looked up first; no constraint keeps them unique.
Credentials(how) ==
    [create |-> <<Find(how), Insert>>,
     update |-> <<Check(how), Write>>,
     delete |-> <<Find(how), Check(how), Write>>]

\* The new name is set before the new parent is checked.
Groups(how) ==
    [create |-> <<Find(how), Check(how), Insert>>,
     update |-> <<Check(how), Half, Check(how), Write>>,
     delete |-> <<Find(how), Check(how), Write>>]

Templates(how) ==
    [create |-> <<Insert>>,
     update |-> <<Check(how), Write>>,
     delete |-> <<Find(how), Write>>]

\* Names and addresses are looked up first, and unique.
Devices(how) ==
    [create |-> <<Check(how), Find(how), InsertOnce(how)>>,
     update |-> <<Check(how), Write, Conflict(how)>>,
     delete |-> <<Find(how), Check(how), Write>>]

DeleteSeveral(how) == <<Check(how), Find(Skip), Write>>

\* Rows that have the value already are left alone; the port may be taken.
SetSeveral(how) == <<Check(how), Find(Skip), Write, Conflict(Raise)>>

\* What a row of the file makes of a device.  The group it names is made first,
\* also when the device is then found to be there.
ImportedRows ==
    {group \o device : group \in {<<>>, <<Half>>},
                       device \in {<<Find(Skip), InsertOnce(Raise)>>, <<Find(Anyway), InsertOnce(Raise)>>,
                                   <<Write, Conflict(Raise)>>}}

Roles(how) ==
    [create |-> <<Check(how), Find(how), InsertOnce(Raise)>>,
     update |-> <<Check(how), Write>>,
     delete |-> <<Find(how), Check(how), Write>>]

\* A user who is not there is deleted like any other.
Users(how) ==
    [create |-> <<Check(how), Find(how), Insert>>,
     update |-> <<Check(how), Write>>,
     delete |-> <<Check(how), Find(Anyway), Write>>]

\* The settings of notifications: their names are unique.
NotificationChannels(how) ==
    [create |-> <<Check(how), InsertOnce(how)>>,
     update |-> <<Check(how), Write, Conflict(how)>>]

DeletedChannel(how) == <<Find(how), Check(how), Write>>

NotificationTemplates(how) ==
    [create |-> <<Check(how), InsertOnce(how)>>,
     update |-> <<Check(how), Write, Conflict(how)>>,
     delete |-> <<Find(how), Check(how), Write>>]

NotificationPolicies(how) ==
    [create |-> <<Check(how), InsertOnce(how)>>,
     update |-> <<Check(how), Write, Conflict(how)>>]

Switched(how) == <<Check(how), Write>>

DeletedPolicy(how) == <<Find(how), Check(how), Write>>

Schedules(how) ==
    [create |-> <<Check(how), Find(how), Insert>>,
     update |-> <<Check(how), Write>>,
     delete |-> <<Find(how), Check(how), Write>>,
     toggle |-> <<Check(how), Flip>>]

\* The rows are committed before the tasks are published.
Enqueue == <<Commit, Dispatch>>

StartOne(how) == <<Check(how), Insert>> \o Enqueue

StartSeveral == <<Insert>> \o Enqueue

\* The rows of a run that could not be queued stay, though this raises.
RetryRun(how) == <<Check(how), Insert>> \o Enqueue \o <<NeedQueued(how)>>

\* Nothing that waits is no error.
Terminate(how) == <<Check(how), Find(Anyway), Write>>

RemoveBackup(how) == <<Find(how), Check(how), Write>>

\* A key is new each time.
NewKey == <<Insert>>

SaveSettings == <<Write>>
=============================================================================

----------------------------- MODULE WebRequests -----------------------------
(***************************************************************************)
(* The handlers that change something, and what their clients, the audit   *)
(* log and the processes they tell may rely on.                            *)
(***************************************************************************)
EXTENDS ServiceScripts

\* Mutant: the change is committed before it is logged.
FormInTwo(steps) == <<Check(Raise)>> \o steps \o <<Commit, Audit, Answer>>

\* A form is answered with a redirect, and its change is logged.
Form(steps) == <<Check(Raise)>> \o steps \o <<Audit, Answer>>

\* The devices are checked as soon as they are saved: before the commit.
Watched(steps) == <<Check(Raise)>> \o steps \o <<Audit, Wake, Answer>>

\* The public API is answered with the row or an error; nothing is logged.
Api(steps) == <<Check(Raise)>> \o steps \o <<Answer>>

\* Mutant: the scheduler reads the schedules before the commit.
RescheduledAtOnce(steps) == <<Check(Raise)>> \o steps \o <<Audit, Reload, Answer>>

\* The scheduler reads the schedules that are committed.
Rescheduled(steps) == <<Check(Raise)>> \o steps \o <<Audit, Commit, Reload, Answer>>

Handler(name, steps) == [of |-> name, does |-> steps]

CredentialForms ==
    {Handler("create_credential", Form(Credentials(Return).create)),
     Handler("update_credential", Form(Credentials(Return).update)),
     Handler("delete_credential", Form(Credentials(Return).delete))}

\* A row that is there is skipped or updated, as asked.
CredentialFile ==
    {Handler("import_credentials_csv", Form(<<Check(Return)>> \o row)) :
        row \in {<<Find(Skip), Insert>>, <<Find(Anyway), Insert>>, <<Write>>}}

GroupForms ==
    {Handler("create_group", Form(Groups(Return).create)),
     Handler("update_group", Form(Groups(Return).update))}

\* Whatever is raised becomes a redirect.
GroupDeletion == {Handler("delete_group", <<Check(Return)>> \o Groups(Return).delete \o <<Audit, Answer>>)}

TemplateForms ==
    {Handler("create_template", Form(Templates(Return).create)),
     Handler("update_template", Form(Templates(Return).update)),
     Handler("delete_template", Form(Templates(Return).delete))}

DeviceForms ==
    {Handler("create_device", Watched(Devices(Either).create)),
     Handler("delete_device", Form(Devices(Either).delete))}

DeviceUpdate == {Handler("update_device", Watched(Devices(Either).update))}

DeviceSelections ==
    {Handler("bulk_delete_devices", Form(DeleteSeveral(Either))),
     Handler("bulk_update_devices", Watched(SetSeveral(Return)))}

DeviceFile == {Handler("import_devices_csv", Watched(<<Check(Either)>> \o row)) : row \in ImportedRows}

ScheduleForms ==
    {Handler("create_schedule", Rescheduled(Schedules(Return).create)),
     Handler("update_schedule", Rescheduled(Schedules(Return).update)),
     Handler("delete_schedule", Rescheduled(Schedules(Either).delete))}

\* The answer has the next run: the schedule is looked up again, and may be gone.
ScheduleToggle ==
    {Handler("api_toggle_schedule",
             <<Check(Raise)>> \o Schedules(Raise).toggle \o <<Audit, Commit, Reload, Again(Raise), Answer>>)}

\* The form of older versions: the default schedule is updated, or made.
LegacySchedule ==
    {Handler("legacy_update_schedule", <<Check(Raise), Find(Anyway), Insert, Commit, Reload, Answer>>)}

\* The run is logged with its plan; a run that was not queued is an error.
ScheduleStart ==
    {Handler("api_run_schedule",
             <<Check(Raise), Check(Return), Insert, Audit>> \o Enqueue \o <<NeedQueued(Raise), Answer>>)}

\* The pages are told before the commit.
Terminations ==
    {Handler("api_terminate_schedule_run", <<Check(Raise)>> \o Terminate(Raise) \o <<Audit, Hint, Answer>>)}

Retries == {Handler("api_retry_schedule_run", <<Check(Raise)>> \o RetryRun(Raise) \o <<Audit, Answer>>)}

\* Over the socket each command is a session, and its log entry another.
SocketTerminations ==
    {Handler("ws_terminate_run",
             <<Check(Raise)>> \o Terminate(Raise) \o <<Commit, AuditApart, Hint, Answer>>)}

SocketRetries ==
    {Handler("ws_retry_run", <<Check(Raise)>> \o RetryRun(Raise) \o <<Commit, AuditApart, Answer>>)}

\* A start that could not be queued is an error, and its log entry is undone.
BackupStarts ==
    {Handler("api_trigger_backup", <<Check(Raise)>> \o StartOne(Raise) \o <<Audit, NeedQueued(Raise), Answer>>),
     Handler("api_bulk_backup",
             <<Check(Raise), Check(Return)>> \o StartSeveral \o <<Audit, NeedQueued(Raise), Answer>>)}

BackupForm ==
    {Handler("trigger_backup", <<Check(Raise)>> \o StartOne(Raise) \o <<Audit, NeedQueued(Return), Answer>>)}

BackupSelection ==
    {Handler("bulk_backup", <<Check(Raise), Check(Return)>> \o StartSeveral \o <<NeedQueued(Return), Answer>>)}

BackupDeletion == {Handler("api_delete_backup", Form(RemoveBackup(Raise)))}

DiffRules == {Handler("update_diff_rules", Form(<<Check(Either)>> \o SaveSettings))}

\* A key that is gone is answered like one that was there.
ApiKeyForms ==
    {Handler("create_api_key", Form(NewKey)),
     Handler("revoke_api_key", Form(<<Write>>)),
     Handler("delete_api_key", Form(<<Find(Skip), Write>>))}

\* The clean-up starts with the answer: it reads the settings before the commit.
SettingsForm == {Handler("update_settings", Form(SaveSettings) \o <<Reload>>)}

StorageForm == {Handler("update_storage_settings", Form(SaveSettings))}

ChannelForm ==
    {Handler("create_channel", Form(NotificationChannels(Return).create)),
     Handler("update_channel", Form(NotificationChannels(Return).update))}

ChannelButtons ==
    {Handler("enable_channel", Form(Switched(Return))), Handler("delete_channel", Form(DeletedChannel(Return)))}

NotificationTemplateForms ==
    {Handler("create_notification_template", Form(NotificationTemplates(Return).create)),
     Handler("update_notification_template", Form(NotificationTemplates(Return).update)),
     Handler("enable_notification_template", Form(Switched(Return))),
     Handler("delete_notification_template", Form(NotificationTemplates(Return).delete))}

PolicyForms ==
    {Handler("create_policy", Form(NotificationPolicies(Return).create)),
     Handler("update_policy", Form(NotificationPolicies(Return).update)),
     Handler("enable_policy", Form(Switched(Return))),
     Handler("delete_policy", Form(DeletedPolicy(Return)))}

\* The old password is asked for: it is the wrong one the second time.
Profile ==
    {Handler("profile_update_locale", <<Check(Either), Write, Answer>>),
     Handler("profile_change_password", <<Check(Either), Find(Return), Write, Audit, Answer>>),
     Handler("logout", <<Insert, Answer>>)}

UserForms ==
    {Handler("create_user", Form(Users(Return).create)),
     Handler("update_user", Form(Users(Return).update)),
     Handler("delete_user", Form(Users(Return).delete))}

RoleForms ==
    {Handler("create_role", Form(Roles(Return).create)),
     Handler("update_role", Form(Roles(Return).update)),
     Handler("delete_role", Form(Roles(Return).delete))}

CredentialApi ==
    {Handler("create_credential_api", Api(Credentials(Raise).create)),
     Handler("update_credential_api", Api(Credentials(Raise).update)),
     Handler("delete_credential_api", Api(Credentials(Raise).delete))}

DeviceApi ==
    {Handler("create_device_api", Api(Devices(Raise).create)),
     Handler("update_device_api", Api(Devices(Raise).update)),
     Handler("delete_device_api", Api(Devices(Raise).delete))}

GroupApi ==
    {Handler("create_group_api", Api(Groups(Raise).create)),
     Handler("update_group_api", Api(Groups(Raise).update)),
     Handler("delete_group_api", Api(Groups(Raise).delete))}

TemplateApi ==
    {Handler("create_template_api", Api(Templates(Raise).create)),
     Handler("update_template_api", Api(Templates(Raise).update)),
     Handler("delete_template_api", Api(Templates(Raise).delete))}

PublicApi == CredentialApi \cup DeviceApi \cup GroupApi \cup TemplateApi

App ==
    UNION {CredentialForms, CredentialFile, GroupForms, GroupDeletion, TemplateForms,
           DeviceForms, DeviceUpdate, DeviceSelections, DeviceFile,
           ScheduleForms, ScheduleToggle, LegacySchedule, ScheduleStart, Terminations, Retries,
           SocketTerminations, SocketRetries, BackupStarts, BackupForm, BackupSelection, BackupDeletion,
           DiffRules, ApiKeyForms, SettingsForm, StorageForm,
           ChannelForm, ChannelButtons, NotificationTemplateForms, PolicyForms,
           Profile, UserForms, RoleForms, PublicApi}

-----------------------------------------------------------------------------
\* What is known of the handlers, by name.

Starts == {"api_run_schedule", "api_retry_schedule_run", "ws_retry_run", "api_trigger_backup",
           "api_bulk_backup", "trigger_backup", "bulk_backup"}

\* These may refuse what they have committed.
RefusedLate == Starts \cup {"api_toggle_schedule"}

Unlogged == {h.of : h \in PublicApi} \cup {"bulk_backup", "profile_update_locale", "legacy_update_schedule", "logout"}

\* These commit before they log.
LoggedApart == (Starts \ {"api_run_schedule"}) \cup {"ws_terminate_run"}

\* These tell others before they commit.
EarlyWakers == {"create_device", "update_device", "bulk_update_devices", "import_devices_csv",
                "api_terminate_schedule_run", "update_settings"}

\* These make another row each time, or take back what the first did.
Unguarded == Starts \cup {"create_template", "create_template_api", "create_api_key", "api_toggle_schedule", "logout"}

\* These look for the row first, and nothing keeps two from doing so at once.
LookFirst == {"create_credential", "import_credentials_csv", "create_credential_api", "create_group",
              "create_group_api", "create_schedule", "legacy_update_schedule", "create_user"}

\* A client that heard of success finds the change in the database: at once
\* when the handler commits before it answers, else once the request is over,
\* unless it failed after its answer.  A client that heard of a refusal finds
\* nothing of its request there, except for the new name of a group that could
\* not be moved, a start whose tasks could not be queued, and the switch of a
\* schedule that was deleted before it was read for the answer.
AnswersAreTrue ==
    \A r \in Request :
        /\ (/\ req[r].heard = "ok" /\ Writes(script.does)
            /\ Some(script.does, {"commit"}) \/ (req[r].phase = "over" /\ ~req[r].late))
              => db.change # {}
        /\ req[r].heard = "refused" =>
              /\ r \in db.change => script.of \in RefusedLate
              /\ r \in db.half => script.of = "update_group"

GoesOnAnyway(steps) == \E i \in DOMAIN steps : steps[i].how = Anyway

\* The audit log has an entry of a request only if its change was made, by it
\* or before it; and a logged change has its entry, except where the change is
\* committed first: then once it is over, if it was answered and did not fail.
ChangesAreAudited ==
    \A r \in Request :
        /\ r \in db.audit => db.change # {} /\ (r \in db.change \/ GoesOnAnyway(script.does))
        /\ r \in db.change /\ script.of \notin Unlogged =>
              \/ r \in db.audit
              \/ /\ script.of \in LoggedApart
                 /\ req[r].phase # "over" \/ req[r].heard # "ok" \/ req[r].late

\* A process that a handler told of its change finds it, except those that are
\* told before the commit.
FollowersSee ==
    \A r \in Request : follower[r] = "old" => script.of \in EarlyWakers

\* A request that is repeated because its answer was lost changes nothing
\* twice: a constraint or the look at what is there prevents it, as far as the
\* first is committed when the second looks.
RepeatsAreHarmless ==
    Adds(script.does) /\ Cardinality(db.change) > 1 =>
        script.of \in Unguarded \/ (together /\ script.of \in LookFirst)
=============================================================================

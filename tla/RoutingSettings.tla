--------------------------- MODULE RoutingSettings ---------------------------
(***************************************************************************)
(* The settings of notifications, as the web process changes them while a  *)
(* worker routes events by them.  A policy names its channels in a JSON    *)
(* list, which no constraint of the database covers, and its template by a *)
(* foreign key.  A delivery refers to all three by foreign keys, so a      *)
(* policy or template that has delivered once cannot be deleted; a channel *)
(* goes together with its deliveries.                                      *)
(*                                                                         *)
(* Only references are told apart: names, formats, filters and the enabled *)
(* flags are left out (module Notifications has what routing does).        *)
(***************************************************************************)
EXTENDS Requests, Functions

CONSTANTS Channel, Template, Policy, NoTemplate,
          Builtin        \* the channels, templates and policies that are never deleted

VARIABLES channels,      \* notificationchannel rows
          templates,     \* notificationtemplate rows
          policies,      \* notificationpolicy rows: their channels and template
          deliveries     \* notificationdelivery rows, by what they refer to

routingVars == <<channels, templates, policies, deliveries>>

\* A new channel or template is one row; that it is there is all that matters.
CreateChannel(c) ==
    /\ c \notin channels
    /\ channels' = channels \cup {c}
    /\ Alone("routing") /\ UNCHANGED <<templates, policies, deliveries>>

CreateTemplate(t) ==
    /\ t \notin templates
    /\ templates' = templates \cup {t}
    /\ Alone("routing") /\ UNCHANGED <<channels, policies, deliveries>>

\* save_policy: the channels and the template are looked up.
SavePolicy(s, p, cs, t) ==
    /\ cs # {} /\ cs \subseteq channels /\ t \in templates \cup {NoTemplate}
    /\ Opens(s, [op |-> "savePolicy", stage |-> "open", policy |-> p, new |-> p \notin DOMAIN policies,
                 row |-> [channels |-> cs, template |-> t]])
    /\ UNCHANGED routingVars

\* delete_channel: its deliveries, and the policies that name it without it.
DeleteChannel(s, c) ==
    /\ c \in channels \ Builtin
    /\ Opens(s, [op |-> "deleteChannel", stage |-> "open", channel |-> c,
                 deliveries |-> {d \in deliveries : d.channel = c},
                 policies |-> [p \in {p \in DOMAIN policies : c \in policies[p].channels} |->
                                 policies[p].channels \ {c}]])
    /\ UNCHANGED routingVars

\* delete_template: not one a policy uses.
DeleteTemplate(s, t) ==
    /\ t \in templates \ Builtin
    /\ \A p \in DOMAIN policies : policies[p].template # t
    /\ Opens(s, [op |-> "deleteTemplate", stage |-> "open", template |-> t])
    /\ UNCHANGED routingVars

DeletePolicy(s, p) ==
    /\ p \in DOMAIN policies \ Builtin
    /\ Opens(s, [op |-> "deletePolicy", stage |-> "open", policy |-> p])
    /\ UNCHANGED routingVars

\* dispatch_event: a policy whose template has gone is passed over, and so is
\* a channel that has.
Routed(p) ==
    {[policy |-> p, channel |-> c, template |-> policies[p].template] :
        c \in {c \in policies[p].channels \cap channels :
                 policies[p].template \in templates \cup {NoTemplate}}}

DispatchEvent(s) ==
    /\ Opens(s, [op |-> "dispatch", stage |-> "open",
                 deliveries |-> UNION {Routed(p) : p \in DOMAIN policies}])
    /\ UNCHANGED routingVars

\* The foreign keys of the rows as they would be.
ForeignKeysHold(cs, ts, ps, ds) ==
    /\ {ps[p].template : p \in DOMAIN ps} \subseteq ts \cup {NoTemplate}
    /\ \A d \in ds : /\ d.channel \in cs /\ d.policy \in DOMAIN ps
                     /\ d.template \in ts \cup {NoTemplate}

\* The rows after the commit of what session s holds.
AfterCommit(s) ==
    LET t == tx[s]
        now == [channels |-> channels, templates |-> templates, policies |-> policies,
                deliveries |-> deliveries] IN
    CASE t.op = "savePolicy" -> [now EXCEPT !.policies = Over(Only(t.policy, t.row), policies)]
      [] t.op = "deleteChannel" ->
           [now EXCEPT !.channels = @ \ {t.channel}, !.deliveries = @ \ t.deliveries,
                       !.policies = [p \in DOMAIN policies |->
                                       IF p \in DOMAIN t.policies
                                       THEN [policies[p] EXCEPT !.channels = t.policies[p]]
                                       ELSE policies[p]]]
      [] t.op = "deleteTemplate" -> [now EXCEPT !.templates = @ \ {t.template}]
      [] t.op = "deletePolicy" -> [now EXCEPT !.policies = Restrict(policies, DOMAIN policies \ {t.policy})]
      [] t.op = "dispatch" -> [now EXCEPT !.deliveries = @ \cup t.deliveries]

\* A row to be updated or deleted that has gone fails the flush.
RowsThere(s) ==
    LET t == tx[s] IN
    CASE t.op = "savePolicy" -> t.new = (t.policy \notin DOMAIN policies)
      [] t.op = "deleteChannel" -> t.channel \in channels /\ t.deliveries \subseteq deliveries
                                   /\ DOMAIN t.policies \subseteq DOMAIN policies
      [] t.op = "deleteTemplate" -> t.template \in templates
      [] t.op = "deletePolicy" -> t.policy \in DOMAIN policies
      [] t.op = "dispatch" -> TRUE

CommitRouting(s) ==
    /\ tx[s].op \in RoutingOps /\ RowsThere(s)
    /\ LET next == AfterCommit(s) IN
         /\ ForeignKeysHold(next.channels, next.templates, next.policies, next.deliveries)
         /\ channels' = next.channels /\ templates' = next.templates
         /\ policies' = next.policies /\ deliveries' = next.deliveries
    /\ Closes(s)

RollbackRouting(s) == tx[s].op \in RoutingOps /\ Closes(s) /\ UNCHANGED routingVars

RoutingRequest(s) ==
    \/ \E p \in Policy, cs \in SUBSET Channel, t \in Template \cup {NoTemplate} : SavePolicy(s, p, cs, t)
    \/ \E c \in Channel : CreateChannel(c) \/ DeleteChannel(s, c)
    \/ \E t \in Template : CreateTemplate(t) \/ DeleteTemplate(s, t)
    \/ \E p \in Policy : DeletePolicy(s, p)
    \/ DispatchEvent(s)

RoutingCommit(s) == CommitRouting(s) \/ RollbackRouting(s)

-----------------------------------------------------------------------------
\* A policy names channels that exist, or nothing would be sent and nobody
\* told; unless a channel was deleted while a policy was saved or another
\* channel deleted.  (delete_channel, save_policy: the list has no foreign key)
RoutesResolve ==
    "channel" \notin overlap =>
        \A p \in DOMAIN policies : policies[p].channels \subseteq channels
=============================================================================

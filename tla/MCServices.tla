----------------------------- MODULE MCServices -----------------------------
(***************************************************************************)
(* The components that share no state with each other, side by side: in a  *)
(* behaviour of Services one of them, `part`, moves, and the others keep   *)
(* their initial state.  The behaviours of every component are those of    *)
(* its own specification, and the states of all of them add up instead of  *)
(* multiplying.                                                            *)
(***************************************************************************)
EXTENDS Tickets, TicketTree, Digest, InboundMail, Webhooks, Presence, ExportSchedules,
        Incidents, Login, Routing, Portal, BusinessHours, TLC

CONSTANT Parts   \* components that an instance explores

VARIABLE part

servicesVars == <<part, vars, treeVars, digestVars, mailVars, hookVars, presenceVars,
                  scheduleVars, incidentVars, loginVars, routingVars, portalVars, walk>>

ServicesInit ==
  /\ part \in Parts
  /\ Init /\ TreeInit /\ DigestInit /\ MailInit /\ HooksInit /\ PresenceInit
  /\ SchedulesInit /\ IncidentsInit /\ LoginInit /\ RoutingInit /\ PortalInit
  /\ HoursInit
  /\ part # "digest" => setting = CHOOSE f \in [Readers -> Settings] : TRUE
  /\ part # "portal" => access = CHOOSE account1 \in FirstAccounts : TRUE

TicketsPart ==
  /\ part = "tickets" /\ Next
  /\ UNCHANGED <<part, treeVars, digestVars, mailVars, hookVars,
                 presenceVars, scheduleVars, incidentVars, loginVars, routingVars, portalVars, walk>>

TreePart ==
  /\ part = "tree" /\ TreeNext
  /\ UNCHANGED <<part, vars, digestVars, mailVars, hookVars, presenceVars,
                 scheduleVars, incidentVars, loginVars, routingVars, portalVars, walk>>

DigestPart ==
  /\ part = "digest" /\ DigestNext
  /\ UNCHANGED <<part, vars, treeVars, mailVars, hookVars, presenceVars,
                 scheduleVars, incidentVars, loginVars, routingVars, portalVars, walk>>

MailPart ==
  /\ part = "mail" /\ MailNext
  /\ UNCHANGED <<part, vars, treeVars, digestVars, hookVars, presenceVars,
                 scheduleVars, incidentVars, loginVars, routingVars, portalVars, walk>>

HooksPart ==
  /\ part = "hooks" /\ HooksNext
  /\ UNCHANGED <<part, vars, treeVars, digestVars, mailVars, presenceVars,
                 scheduleVars, incidentVars, loginVars, routingVars, portalVars, walk>>

PresencePart ==
  /\ part = "presence" /\ PresenceNext
  /\ UNCHANGED <<part, vars, treeVars, digestVars, mailVars, hookVars,
                 scheduleVars, incidentVars, loginVars, routingVars, portalVars, walk>>

SchedulesPart ==
  /\ part = "schedules" /\ SchedulesNext
  /\ UNCHANGED <<part, vars, treeVars, digestVars, mailVars, hookVars,
                 presenceVars, incidentVars, loginVars, routingVars, portalVars, walk>>

IncidentsPart ==
  /\ part = "incidents" /\ IncidentsNext
  /\ UNCHANGED <<part, vars, treeVars, digestVars, mailVars, hookVars,
                 presenceVars, scheduleVars, loginVars, routingVars, portalVars, walk>>

(* The login is explored with one handler at work at a time; and with two that
   sign in, change or reset passwords, and two that change the second factor. *)
LoginParts == {"login", "passwords", "factors"}

AtWork == {handler[r].op : r \in {q \in Handlers : handler[q] # Resting}}

LoginPart ==
  /\ part \in LoginParts /\ LoginNext
  /\ part = "login" =>
       Cardinality({r \in Handlers : handler'[r] # Resting}) <= 1
  /\ part = "passwords" =>
       AtWork' \subseteq {"count", "clear", "session", "password", "reset", "revoke"}
  /\ part = "factors" => AtWork' \subseteq MfaOps \cup {"clear", "session"}
  /\ part # "login" => UNCHANGED challenge
  /\ UNCHANGED <<part, vars, treeVars, digestVars, mailVars, hookVars,
                 presenceVars, scheduleVars, incidentVars, routingVars, portalVars, walk>>

RoutingPart ==
  /\ part = "routing" /\ RoutingNext
  /\ UNCHANGED <<part, vars, treeVars, digestVars, mailVars, hookVars,
                 presenceVars, scheduleVars, incidentVars, loginVars, portalVars, walk>>

PortalPart ==
  /\ part = "portal" /\ PortalNext
  /\ UNCHANGED <<part, vars, treeVars, digestVars, mailVars, hookVars,
                 presenceVars, scheduleVars, incidentVars, loginVars, routingVars, walk>>

HoursPart ==
  /\ part = "hours" /\ HoursNext
  /\ UNCHANGED <<part, vars, treeVars, digestVars, mailVars, hookVars, presenceVars,
                 scheduleVars, incidentVars, loginVars, routingVars, portalVars>>

ServicesNext ==
  \/ TicketsPart \/ TreePart \/ DigestPart \/ MailPart \/ HooksPart
  \/ PresencePart \/ SchedulesPart \/ IncidentsPart \/ LoginPart \/ RoutingPart
  \/ PortalPart \/ HoursPart

ServicesSpec == ServicesInit /\ [][ServicesNext]_servicesVars

(* The fairness of the components: timers fire, what they started goes on,
   and a request that is sent is handled. *)
ServicesFairSpec ==
  /\ ServicesSpec
  /\ \A r \in Requests : WF_vars(part = "tickets" /\ Complete(r))
  /\ WF_vars(part = "tickets" /\ Poll)
  /\ WF_digestVars(part = "digest" /\ DigestWork) /\ WF_digestVars(part = "digest" /\ HourPasses)
  /\ WF_mailVars(part = "mail" /\ FetchUnseen) /\ WF_mailVars(part = "mail" /\ MailWork("imap"))
  /\ \A r \in Calls : WF_presenceVars(part = "presence" /\ Handle(r))
  /\ \A u \in Viewers : WF_presenceVars(part = "presence" /\ \E r \in Calls : SendBeat(r, u))
  /\ WF_presenceVars(part = "presence" /\ IntervalPasses)
  /\ WF_scheduleVars(part = "schedules" /\ RunDue) /\ WF_scheduleVars(part = "schedules" /\ PollPasses)
  /\ WF_scheduleVars(part = "schedules" /\ RunnerWorks)
  /\ \A j \in Hands : WF_scheduleVars(part = "schedules" /\ Execute(j))
  /\ WF_portalVars(part = "portal" /\ TabWorks)

(* Type invariant of the component that moves: every row and every piece of
   memory of a handler, runner or poller has one of its shapes. *)
ServicesTypeOK ==
  /\ part = "tree" => TreeTypeOK
  /\ part = "digest" => DigestTypeOK
  /\ part = "mail" => MailTypeOK
  /\ part = "hooks" => HooksTypeOK
  /\ part = "presence" => PresenceTypeOK
  /\ part = "schedules" => SchedulesTypeOK
  /\ part = "incidents" => IncidentsTypeOK
  /\ part \in LoginParts => LoginTypeOK
  /\ part = "routing" => RoutingTypeOK
  /\ part = "portal" => PortalTypeOK
  /\ part = "hours" => HoursTypeOK

(***************************************************************************)
(* Values of the constants                                                 *)
(***************************************************************************)
FromAnn == [t \in Tickets |-> "ann"]

BothIncidents == [t \in Tickets |-> "incident"]

(* A daily digest without quiet hours, a weekly one with quiet hours over
   midnight, and none. *)
OffOrOn == {[freq |-> "daily", start |-> 0, end |-> 0],
            [freq |-> "weekly", start |-> 2, end |-> 1],
            [freq |-> "none", start |-> 2, end |-> 1]}

(* An answer to our letter, and a further mail that answers the first one too. *)
AskAnswerFollow ==
  [m \in {"ask", "answer", "follow"} |->
     CASE m = "ask" -> <<>> [] m = "answer" -> <<"letter">> [] m = "follow" -> <<"letter", "ask">>]

TwoSenders == [m \in Mails |-> IF m = "follow" THEN "bob" ELSE "ann"]

ById == "ann" :> 1 @@ "bob" :> 2

ByPriority ==
  <<[kinds |-> {"vpn"}, crew |-> "net", auto |-> TRUE, able |-> {"ann", "bob"}],
    [kinds |-> {"vpn", "desk"}, crew |-> "help", auto |-> TRUE, able |-> {}]>>

BySortOrder ==
  <<[kinds |-> {"vpn"}, major |-> BOOLEAN, crew |-> "help", flag |-> {TRUE}],
    [kinds |-> {"vpn", "desk"}, major |-> {TRUE}, crew |-> "net", flag |-> {}]>>

OpenOn(d, s, e) == [dow |-> d, start |-> s, end |-> e]

(* Windows of two days of a week of three: none, one a day, a lunch break, one
   that never opens with one that never closes, two that overlap, one alone. *)
SeveralCalendars ==
  [hours : {{}, {OpenOn(1, 1, 3), OpenOn(2, 1, 3)}, {OpenOn(1, 0, 1), OpenOn(1, 2, 4), OpenOn(2, 1, 2)},
            {OpenOn(1, 3, 1), OpenOn(2, 0, 4)}, {OpenOn(1, 0, 3), OpenOn(1, 1, 4)}, {OpenOn(1, 2, 2)}},
   holidays : {{}, {1}, {2, 4}}]

SomeStarts == (0..2) \X (0..3)

(* Extra permissions that belong together, and one that lacks its companions. *)
Bundles ==
  {{}, {"users:manage", "users:read", "roles:manage"}, {"org:manage", "org:read"},
   {"settings:manage", "tickets:write", "tickets:read_all"}, {"im:read", "im:write", "knowledge:write"},
   {"users:manage"}, {"approvals:read", "approvals:decide"}, {"assets:read", "assets:write", "reports:read"}}

AnyRoleWithBundle == {[role |-> r, extras |-> b \ RolePermissions[r]] : r \in RoleCodes, b \in Bundles}

Seeded == {[role |-> r, extras |-> {}] : r \in RoleCodes}

(* A role alone keeps the extras; the second payload takes them away. *)
PromoteOrDemote == {[role |-> r, payload |-> p] : r \in {"employee", "it_manager"}, p \in {{}, {{}}}}
=============================================================================

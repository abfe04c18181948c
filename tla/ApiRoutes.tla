------------------------------ MODULE ApiRoutes ------------------------------
(***************************************************************************)
(* The routes of the API, controller by controller in the order of their   *)
(* declaration, each with what it demands of a signed-in user: the roles   *)
(* and permissions of its decorators and the checks that the handler and   *)
(* the service make before they do anything.  "*" is a parameter.          *)
(*                                                                         *)
(* About a ticket the codes "requester" and "assignee" stand for the tie   *)
(* of the user to it.  Restricted tickets and watchers are left out.       *)
(***************************************************************************)
EXTENDS Access, Naturals, Sequences

GET(path, need) == [verb |-> "GET", path |-> path, need |-> need]
POST(path, need) == [verb |-> "POST", path |-> path, need |-> need]
PATCH(path, need) == [verb |-> "PATCH", path |-> path, need |-> need]
PUT(path, need) == [verb |-> "PUT", path |-> path, need |-> need]
DELETE(path, need) == [verb |-> "DELETE", path |-> path, need |-> need]

AuthRoutes == <<
  POST(<<"auth", "login">>, Free), POST(<<"auth", "mfa", "verify-login">>, Free),
  POST(<<"auth", "mfa", "setup">>, Free), POST(<<"auth", "mfa", "confirm">>, Free),
  POST(<<"auth", "mfa", "cancel-setup">>, Free), POST(<<"auth", "mfa", "disable">>, Free),
  GET(<<"auth", "sso", "providers">>, Free), GET(<<"auth", "sso", "entra">>, Free),
  GET(<<"auth", "sso", "entra", "callback">>, Free), POST(<<"auth", "logout">>, Free),
  GET(<<"auth", "me">>, Free), GET(<<"auth", "profile">>, Free), PATCH(<<"auth", "me">>, Free),
  POST(<<"auth", "change-password">>, Free), POST(<<"auth", "password-reset", "request">>, Free),
  POST(<<"auth", "password-reset", "confirm">>, Free)>>

UserRoutes == <<
  GET(<<"users">>, Needs("users:read")), GET(<<"users", "roles", "matrix">>, Needs("roles:manage")),
  GET(<<"users", "*">>, Needs("users:read")), POST(<<"users">>, Needs("users:manage")),
  PATCH(<<"users", "*">>, Needs("users:manage")),
  POST(<<"users", "*", "reset-password">>, Needs("users:manage")),
  DELETE(<<"users", "*">>, Needs("users:manage")),
  PATCH(<<"users", "*", "roles">>, Needs("users:manage"))>>

OrgRoutes == <<
  GET(<<"org", "locations">>, Needs("org:read")), POST(<<"org", "locations">>, Needs("org:manage")),
  PATCH(<<"org", "locations", "*">>, Needs("org:manage")),
  DELETE(<<"org", "locations", "*">>, Needs("org:manage")),
  GET(<<"org", "departments">>, Needs("org:read")), POST(<<"org", "departments">>, Needs("org:manage")),
  PATCH(<<"org", "departments", "*">>, Needs("org:manage")),
  DELETE(<<"org", "departments", "*">>, Needs("org:manage")),
  GET(<<"org", "teams">>, Needs("org:read")), POST(<<"org", "teams">>, Needs("org:manage")),
  PATCH(<<"org", "teams", "*">>, Needs("org:manage")),
  POST(<<"org", "teams", "*", "members">>, Needs("org:manage")),
  DELETE(<<"org", "teams", "*", "members", "*">>, Needs("org:manage"))>>

StaffTickets == {"tickets:read_all", "tickets:read_queue", "settings:manage"}
Visible == {"tickets:read_all", "settings:manage", "requester", "assignee"}
Writes == {"tickets:write"}

(* Deleting takes settings:manage, or both of the others. *)
DeletesTickets == {{"settings:manage", "tickets:read_all"}, {"settings:manage", "tickets:write"}}

TicketListRoutes == <<
  GET(<<"tickets", "meta">>, Free), GET(<<"tickets", "views">>, Free),
  POST(<<"tickets", "views">>, Free), PATCH(<<"tickets", "views", "*">>, Free),
  DELETE(<<"tickets", "views", "*">>, Free), GET(<<"tickets", "board">>, OneOf(StaffTickets)),
  GET(<<"tickets", "major-incidents">>, OneOf(StaffTickets)), GET(<<"tickets", "export.csv">>, Free),
  GET(<<"tickets">>, Free), POST(<<"tickets">>, OneOf(Writes))>>

TicketRowRoutes == <<
  GET(<<"tickets", "*">>, {Visible}), PATCH(<<"tickets", "*">>, {Visible, {"requester"} \cup Writes}),
  DELETE(<<"tickets", "*">>, {Visible} \cup DeletesTickets),
  POST(<<"tickets", "*", "comments">>, {Visible, {"requester"} \cup Writes}),
  POST(<<"tickets", "*", "watch">>, {Visible}), DELETE(<<"tickets", "*", "watch">>, {Visible}),
  POST(<<"tickets", "*", "presence">>, {Visible}), GET(<<"tickets", "*", "presence">>, {Visible}),
  DELETE(<<"tickets", "*", "presence">>, {Visible}),
  POST(<<"tickets", "*", "work-logs">>, {Visible, Writes, StaffTickets}),
  GET(<<"tickets", "*", "work-logs">>, {Visible, StaffTickets \cup {"requester"}}),
  POST(<<"tickets", "*", "request-cab">>, {Visible, Writes, StaffTickets}),
  POST(<<"tickets", "*", "promote-problem">>, {Visible, Writes, StaffTickets}),
  POST(<<"tickets", "*", "merge">>, {Visible, Writes \cup {"tickets:assign"}, StaffTickets}),
  POST(<<"tickets", "*", "children">>, {Visible, Writes, StaffTickets}),
  DELETE(<<"tickets", "*", "children", "*">>, {Visible, Writes, StaffTickets})>>

(* What the service asks besides for the fields of an update. *)
FieldNeed ==
  [status |-> {StaffTickets \cup {"requester"}}, impact |-> Free, assignment |-> Needs("tickets:assign"),
   location |-> {StaffTickets}, major |-> {StaffTickets}, restricted |-> {Writes},
   analysis |-> {StaffTickets}, plan |-> {StaffTickets}]

AttachmentReaders == {"requester", "tickets:read_all", "tickets:read_queue"}

AttachmentRoutes == <<
  POST(<<"tickets", "*", "attachments">>, {AttachmentReaders, {"requester"} \cup Writes}),
  GET(<<"tickets", "*", "attachments">>, {AttachmentReaders}), GET(<<"attachments", "limits">>, Free),
  GET(<<"attachments", "*", "download">>, {AttachmentReaders})>>

AuditRoutes == <<
  GET(<<"audit", "facets">>, Needs("audit:read")), GET(<<"audit", "export.csv">>, Needs("audit:read")),
  GET(<<"audit", "export-schedules">>, Needs("audit:read")),
  POST(<<"audit", "export-schedules">>, Needs("audit:read")),
  PATCH(<<"audit", "export-schedules", "*">>, Needs("audit:read")),
  DELETE(<<"audit", "export-schedules", "*">>, Needs("audit:read")),
  POST(<<"audit", "export-schedules", "*", "run">>, Needs("audit:read")),
  GET(<<"audit", "export-runs">>, Needs("audit:read")), GET(<<"audit">>, Needs("audit:read"))>>

NotificationRoutes == <<
  GET(<<"notifications", "preferences">>, Free), GET(<<"notifications", "digest">>, Free),
  PATCH(<<"notifications", "digest">>, Free), GET(<<"notifications", "digest", "status">>, Free),
  GET(<<"notifications", "events">>, Free), GET(<<"notifications", "unread-count">>, Free),
  PATCH(<<"notifications", "preferences">>, Free), GET(<<"notifications">>, Free),
  POST(<<"notifications", "read-all">>, Free), POST(<<"notifications", "*", "read">>, Free)>>

SlaRoutes == <<
  GET(<<"sla", "policies">>, Needs("settings:manage")),
  POST(<<"sla", "policies">>, Needs("settings:manage")), GET(<<"sla", "tickets", "*">>, Free)>>

AssignmentRoutes == <<
  GET(<<"assignment-rules">>, Needs("org:read")), POST(<<"assignment-rules">>, Needs("org:manage"))>>

SkillRoutes == <<
  GET(<<"skills">>, Needs("org:read")), POST(<<"skills">>, Needs("org:manage")),
  GET(<<"skills", "users", "*">>, Needs("org:read")),
  PUT(<<"skills", "users", "*">>, Needs("org:manage"))>>

KnowledgeRoutes == <<
  GET(<<"knowledge">>, Free), GET(<<"knowledge", "analytics", "deflection">>, Needs("reports:read")),
  POST(<<"knowledge", "media">>, Needs("knowledge:write")),
  GET(<<"knowledge", "attachments", "*", "content">>, Free),
  GET(<<"knowledge", "attachments", "*", "download">>, OneOf({"knowledge:read", "knowledge:write"})),
  GET(<<"knowledge", "*", "attachments">>, OneOf({"knowledge:read", "knowledge:write"})),
  POST(<<"knowledge", "*", "attachments">>, Needs("knowledge:write")), GET(<<"knowledge", "*">>, Free),
  POST(<<"knowledge", "*", "feedback">>, Needs("knowledge:read")),
  POST(<<"knowledge">>, Needs("knowledge:write")),
  PATCH(<<"knowledge", "*">>, Needs("knowledge:write")),
  POST(<<"knowledge", "*", "publish">>, Needs("knowledge:write"))>>

CatalogRoutes == <<
  GET(<<"catalog">>, Free), POST(<<"catalog">>, Needs("settings:manage")),
  PATCH(<<"catalog", "*">>, Needs("settings:manage")),
  POST(<<"catalog", "*", "request">>, OneOf(Writes))>>

AssetRoutes == <<
  GET(<<"assets", "types">>, Needs("assets:read")), GET(<<"assets", "statuses">>, Needs("assets:read")),
  GET(<<"assets", "relation-types">>, Needs("assets:read")),
  GET(<<"assets", "assignees">>, Needs("assets:write")),
  GET(<<"assets", "export.csv">>, Needs("assets:read")),
  POST(<<"assets", "discovery", "import">>, Needs("assets:write")),
  GET(<<"assets">>, Needs("assets:read")), GET(<<"assets", "*", "relations">>, Needs("assets:read")),
  POST(<<"assets", "*", "relations">>, Needs("assets:write")),
  DELETE(<<"assets", "*", "relations", "*">>, Needs("assets:write")),
  GET(<<"assets", "*", "impact">>, Needs("assets:read")), GET(<<"assets", "*">>, Needs("assets:read")),
  POST(<<"assets">>, Needs("assets:write")), PATCH(<<"assets", "*">>, Needs("assets:write")),
  DELETE(<<"assets", "*">>, Needs("assets:write")),
  POST(<<"assets", "tickets", "*", "link">>, Needs("assets:write"))>>

SchedulesReports == OneOf({"reports:read", "settings:manage"})

ReportRoutes == <<
  GET(<<"reports", "workspace">>, OneOf({"tickets:read_all", "tickets:read_queue", "reports:read"})),
  GET(<<"reports", "summary">>, Needs("reports:read")),
  GET(<<"reports", "ims-kpis">>, Needs("reports:read")),
  GET(<<"reports", "stages">>, Needs("reports:read")),
  GET(<<"reports", "heatmap">>, Needs("reports:read")),
  GET(<<"reports", "export.csv">>, Needs("reports:read")),
  GET(<<"reports", "export.pdf">>, Needs("reports:read")),
  GET(<<"reports", "schedules">>, SchedulesReports), POST(<<"reports", "schedules">>, SchedulesReports),
  PATCH(<<"reports", "schedules", "*">>, SchedulesReports),
  DELETE(<<"reports", "schedules", "*">>, SchedulesReports),
  POST(<<"reports", "schedules", "*", "run">>, SchedulesReports)>>

ManagesPolicies == OneOf({"approvals:manage", "settings:manage"})

ApprovalRoutes == <<
  GET(<<"approvals", "policies">>, ManagesPolicies), POST(<<"approvals", "policies">>, ManagesPolicies),
  PATCH(<<"approvals", "policies", "*">>, ManagesPolicies),
  GET(<<"approvals">>, Needs("approvals:read")),
  POST(<<"approvals", "*", "decide">>, Needs("approvals:decide"))>>

IntegrationRoutes == <<
  GET(<<"integrations", "status">>, Needs("sysadmin")),
  POST(<<"integrations", "email", "imap", "poll">>, Needs("sysadmin")),
  POST(<<"integrations", "chat", "simulate">>, Needs("sysadmin")),
  POST(<<"integrations", "slack", "events">>, Free),
  POST(<<"integrations", "slack", "commands">>, Free),
  POST(<<"integrations", "teams", "messages">>, Free),
  POST(<<"integrations", "email", "inbound">>, Free),
  POST(<<"integrations", "monitoring", "alerts">>, Free)>>

BrandingRoutes == <<
  GET(<<"branding">>, Free), GET(<<"branding", "assets", "*">>, Free),
  PATCH(<<"branding", "theme">>, Needs("sysadmin")), POST(<<"branding", "logo">>, Needs("sysadmin")),
  POST(<<"branding", "banner">>, Needs("sysadmin")), POST(<<"branding", "reset">>, Needs("sysadmin"))>>

WebhookRoutes == <<
  GET(<<"webhooks", "events">>, Needs("settings:manage")),
  GET(<<"webhooks", "endpoints">>, Needs("settings:manage")),
  POST(<<"webhooks", "endpoints">>, Needs("settings:manage")),
  PATCH(<<"webhooks", "endpoints", "*">>, Needs("settings:manage")),
  DELETE(<<"webhooks", "endpoints", "*">>, Needs("settings:manage")),
  POST(<<"webhooks", "endpoints", "*", "test">>, Needs("settings:manage")),
  GET(<<"webhooks", "endpoints", "*", "deliveries">>, Needs("settings:manage"))>>

AiRoutes == <<
  GET(<<"ai", "status">>, OneOf(Writes)), POST(<<"ai", "assist", "classify">>, OneOf(Writes)),
  POST(<<"ai", "assist", "summarize">>, OneOf(Writes)),
  POST(<<"ai", "assist", "duplicates">>, OneOf(Writes)),
  POST(<<"ai", "assist", "knowledge">>, Needs("knowledge:read")),
  GET(<<"ai", "assist", "sla-risk", "*">>, Needs("tickets:read_queue"))>>

AutomationRoutes == <<
  GET(<<"automation", "rules">>, Needs("settings:manage")),
  POST(<<"automation", "rules">>, Needs("settings:manage")),
  PATCH(<<"automation", "rules", "*">>, Needs("settings:manage"))>>

ImRoutes == <<
  GET(<<"im">>, Needs("im:read")), GET(<<"im", "dashboard">>, Needs("im:read")),
  POST(<<"im">>, Needs("im:write")), GET(<<"im", "*", "pir">>, Needs("im:read")),
  GET(<<"im", "*">>, Needs("im:read")), PATCH(<<"im", "*", "status">>, Needs("im:write")),
  POST(<<"im", "*", "updates">>, Needs("im:write")), POST(<<"im", "*", "roles">>, Needs("im:write"))>>

(* The controllers in the order of the modules of app.module.ts; that of the
   tickets in two parts. *)
Controllers ==
  <<AuthRoutes, UserRoutes, OrgRoutes, TicketListRoutes, TicketRowRoutes, AuditRoutes, AttachmentRoutes,
    NotificationRoutes, SlaRoutes, AssignmentRoutes, SkillRoutes, KnowledgeRoutes, CatalogRoutes,
    AssetRoutes, ReportRoutes, ApprovalRoutes, IntegrationRoutes, BrandingRoutes, WebhookRoutes,
    AiRoutes, AutomationRoutes, ImRoutes>>

Serves(route, verb, path) ==
  /\ route.verb = verb
  /\ Len(route.path) = Len(path)
  /\ \A i \in DOMAIN path : route.path[i] \in {"*", path[i]}

Fits(c, verb, path) == {i \in DOMAIN Controllers[c] : Serves(Controllers[c][i], verb, path)}

First(places) == {i \in places : \A j \in places : i <= j}

(* The first route that fits, as a set: no route fits a path that the API
   does not know. *)
RouteOf(verb, path) ==
  UNION {{Controllers[c][i] : i \in First(Fits(c, verb, path))} :
           c \in First({c \in DOMAIN Controllers : Fits(c, verb, path) # {}})}

(* RolesGuard: every clause of the decorators and checks is met. *)
Guard(user, found, fields) ==
  /\ found # {}
  /\ \A route \in found : Meets(user, route.need \cup UNION {FieldNeed[field] : field \in fields})
=============================================================================

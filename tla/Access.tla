------------------------------- MODULE Access -------------------------------
(***************************************************************************)
(* Roles, permissions and what they open: the permission codes of          *)
(* packages/shared, the roles that prisma/seed.ts writes, the view of a    *)
(* user that the sessions carry, setAccess, the guard of the API and the   *)
(* menus of the web client.                                                *)
(*                                                                         *)
(* A condition on a user is a set of clauses.  A clause is a set of role   *)
(* and permission codes of which one is enough, and every clause must be   *)
(* met: the decorators of the API and the gates of the client both have    *)
(* this form.                                                              *)
(***************************************************************************)
EXTENDS FiniteSets

RoleCodes == {"employee", "agent", "senior_agent", "it_manager", "approver", "sysadmin", "auditor"}

PermissionCodes ==
  {"users:read", "users:write", "users:manage", "roles:manage", "tickets:read_own",
   "tickets:read_queue", "tickets:read_all", "tickets:write", "tickets:assign",
   "tickets:internal_note", "org:read", "org:manage", "audit:read", "reports:read",
   "settings:manage", "knowledge:read", "knowledge:write", "assets:read", "assets:write",
   "approvals:read", "approvals:decide", "approvals:manage", "im:read", "im:write",
   "im:command", "im:postmortem"}

AgentPermissions ==
  {"tickets:read_own", "tickets:read_queue", "tickets:write", "tickets:assign",
   "tickets:internal_note", "knowledge:read", "assets:read", "org:read"}

(* The grants of the roles: the seed adds the missing ones and removes others. *)
RolePermissions ==
  [employee |-> {"tickets:read_own", "tickets:write", "knowledge:read"},
   agent |-> AgentPermissions,
   senior_agent |-> AgentPermissions \cup {"knowledge:write", "assets:write"},
   it_manager |->
     {"tickets:read_all", "tickets:write", "tickets:assign", "tickets:internal_note", "users:read",
      "org:read", "org:manage", "reports:read", "audit:read", "knowledge:read", "knowledge:write",
      "assets:read", "assets:write", "approvals:read", "approvals:decide", "approvals:manage",
      "im:read", "im:write", "im:command", "im:postmortem"},
   approver |-> {"tickets:read_own", "knowledge:read", "approvals:read", "approvals:decide"},
   sysadmin |-> PermissionCodes,
   auditor |-> {"audit:read", "tickets:read_all", "reports:read", "assets:read"}]

Accounts == [role : RoleCodes, extras : SUBSET PermissionCodes]

(* setAccess: without a payload the stored extras stay, and what the new role
   grants anyway is never stored.  A payload is a set of at most one set. *)
AccessAfter(account, role, payload) ==
  LET asked == IF payload = {} THEN account.extras ELSE UNION payload
  IN  [role |-> role, extras |-> asked \ RolePermissions[role]]

(* What a session knows of its user; one role, as setAccess leaves it. *)
AuthUser(account) == {account.role} \cup RolePermissions[account.role] \cup account.extras

Meets(user, need) == \A clause \in need : clause \cap user # {}

Free == {}
Needs(code) == {{code}}
OneOf(codes) == {codes}

ShowAgentWorkspace ==
  OneOf({"agent", "senior_agent", "it_manager", "sysadmin", "tickets:read_all", "tickets:read_queue"})
CanSeeOrgTickets == OneOf({"tickets:read_all", "settings:manage"})
CanWorkTicketQueue ==
  OneOf({"agent", "senior_agent", "it_manager", "sysadmin", "tickets:read_all",
         "tickets:read_queue", "settings:manage"})
CanManageApprovalPolicies == OneOf({"approvals:manage", "settings:manage"})

Offered(user, gates) == {page \in DOMAIN gates : Meets(user, gates[page])}

(* The first row of the menu, shown to everybody. *)
PrimaryNav == {"home", "tickets", "knowledge", "catalog"}

NavGates ==
  [major |-> ShowAgentWorkspace, problems |-> ShowAgentWorkspace, changes |-> ShowAgentWorkspace,
   im |-> Needs("im:read"), approvals |-> Needs("approvals:read"), assets |-> Needs("assets:read"),
   reports |-> Needs("reports:read"), audit |-> Needs("audit:read"),
   users |-> Needs("users:manage"), roles |-> OneOf({"roles:manage", "users:manage"}),
   teams |-> Needs("org:manage"), departments |-> Needs("org:manage"),
   locations |-> Needs("org:manage"), routing |-> OneOf({"settings:manage", "org:manage"}),
   policies |-> CanManageApprovalPolicies, automation |-> Needs("settings:manage"),
   integrations |-> Needs("sysadmin"), branding |-> Needs("sysadmin")]

NavForUser(user) == PrimaryNav \cup Offered(user, NavGates)

BrowsesStaff == OneOf({"tickets:read_all", "tickets:read_queue"})
BrowsesTickets == OneOf({"tickets:read_own", "tickets:read_all", "tickets:read_queue"})

AdminActions ==
  [users |-> Needs("users:manage"), roles |-> OneOf({"roles:manage", "users:manage"}),
   teams |-> Needs("org:manage"), locations |-> Needs("org:manage"),
   integrations |-> Free, branding |-> Free, routing |-> OneOf({"settings:manage", "org:manage"}),
   policies |-> CanManageApprovalPolicies, automation |-> Needs("settings:manage"),
   im |-> Needs("im:read"), queue |-> BrowsesStaff, tickets |-> BrowsesStaff,
   new_article |-> Needs("knowledge:write"), catalog |-> Needs("settings:manage"),
   assets |-> Needs("assets:write"), audit |-> Needs("audit:read"), reports |-> Needs("reports:read")]

AuditorActions ==
  [audit |-> Needs("audit:read"), reports |-> Needs("reports:read"), tickets |-> BrowsesStaff]

ManagerActions ==
  [reports |-> Needs("reports:read"), teams |-> Needs("org:manage"), locations |-> Needs("org:manage"),
   queue |-> BrowsesTickets, tickets |-> BrowsesTickets, approvals |-> Needs("approvals:read"),
   policies |-> CanManageApprovalPolicies, im |-> Needs("im:read"), assets |-> Needs("assets:read")]

ApproverActions ==
  [approvals |-> Needs("approvals:read"), tickets |-> OneOf({"tickets:write", "tickets:read_own"}),
   catalog |-> Free]

AgentActions ==
  [queue |-> Free, im |-> Needs("im:read"), major |-> Free, problems |-> Free, changes |-> Free,
   tickets |-> Free, new_article |-> Needs("knowledge:write"), knowledge |-> Needs("knowledge:read"),
   assets |-> Needs("assets:read")]

EmployeeActions ==
  [tickets |-> OneOf({"tickets:write", "tickets:read_own", "tickets:read_all", "tickets:read_queue"}),
   catalog |-> Free, knowledge |-> Needs("knowledge:read")]

(* The suggestions of the home page: those of the first role that fits. *)
WorkspaceNextActions(user) ==
  IF "sysadmin" \in user THEN Offered(user, AdminActions)
  ELSE IF "auditor" \in user THEN Offered(user, AuditorActions)
  ELSE IF "it_manager" \in user THEN Offered(user, ManagerActions)
  ELSE IF {"approver", "approvals:decide"} \cap user # {} THEN Offered(user, ApproverActions)
  ELSE IF {"senior_agent", "agent"} \cap user # {}
       THEN Offered(user, AgentActions) \ (IF "knowledge:write" \in user THEN {"knowledge"} ELSE {})
       ELSE Offered(user, EmployeeActions)
=============================================================================

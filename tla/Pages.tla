-------------------------------- MODULE Pages --------------------------------
(***************************************************************************)
(* The pages of web/src/app/app/admin: the gate that each of them puts     *)
(* before its visitors, what it loads, and what its buttons send.          *)
(*                                                                         *)
(* A step is a call of the API, made when the user whom the page holds     *)
(* meets `when`.  `fails` says what a failure does: it is "ignored", it is *)
(* shown as an "error", or the page is left for another one.  A step that  *)
(* is not `sure` depends on what was typed or picked.                      *)
(***************************************************************************)
EXTENDS ApiClient

Call(call, when, fails) == [call |-> call, fields |-> {}, when |-> when, fails |-> fails, sure |-> TRUE]

Must(call) == Call(call, Free, "login")
MustIf(when, call) == Call(call, when, "login")
Shown(call) == Call(call, Free, "error")
ShownIf(when, call) == Call(call, when, "error")
Optional(call) == Call(call, Free, "ignored")
OptionalIf(when, call) == Call(call, when, "ignored")
Perhaps(call) == [Call(call, Free, "error") EXCEPT !.sure = FALSE]
Change(fields) == [Call("updateTicket", Free, "error") EXCEPT !.fields = fields]

(* A page first asks who the user is; one who does not meet the gate is sent
   to `other`. *)
PageOf(who, gate, other, load) == [who |-> who, gate |-> gate, other |-> other, load |-> load]
Page(gate, other, load) == PageOf(Call("me", Free, "login"), gate, other, load)

(* A button: who sees it, what it sends, and where it leads ("stay" or a page). *)
Button(offer, sends) == [offer |-> offer, sends |-> sends, next |-> "stay"]
LeadingTo(offer, sends, next) == [offer |-> offer, sends |-> sends, next |-> next]

PoliciesPage == Page(CanManageApprovalPolicies, "home", <<Must("approvalPolicies"), Must("ticketMeta")>>)
PoliciesButtons ==
  [create |-> Button(Free, <<Shown("createApprovalPolicy"), Shown("approvalPolicies")>>),
   edit |-> Button(Free, <<Shown("updateApprovalPolicy"), Shown("approvalPolicies")>>)]

AutomationPage ==
  Page(Needs("settings:manage"), "home", <<Must("listAutomationRules"), Optional("listTeams")>>)
AutomationButtons ==
  [create |-> Button(Free, <<Shown("createAutomationRule"), Shown("listAutomationRules")>>),
   toggle |-> Button(Free, <<Shown("updateAutomationRule"), Shown("listAutomationRules")>>)]

BrandingPage == Page(Needs("sysadmin"), "home", <<Must("branding")>>)
BrandingButtons ==
  [saveAssets |-> Button(Free, <<Perhaps("uploadBrandingLogo"), Perhaps("uploadBrandingBanner")>>),
   saveTheme |-> Button(Free, <<Shown("updateBrandingTheme")>>),
   reset |-> Button(Free, <<Shown("resetBranding")>>)]

ReadsOrg == OneOf({"org:read", "org:manage"})
ManagesOrg == Needs("org:manage")

DepartmentsPage ==
  Page(ReadsOrg, "home", <<Must("listDepartments"), Optional("listLocations")>>)
DepartmentsButtons ==
  [create |-> Button(ManagesOrg, <<Shown("createDepartment"), Shown("listDepartments")>>),
   save |-> Button(ManagesOrg, <<Shown("updateDepartment"), Shown("listDepartments")>>),
   deactivate |-> Button(ManagesOrg, <<Shown("deactivateDepartment"), Shown("listDepartments")>>)]

LocationsPage == Page(ReadsOrg, "home", <<Must("listLocations")>>)
LocationsButtons ==
  [create |-> Button(ManagesOrg, <<Shown("createLocation"), Shown("listLocations")>>),
   save |-> Button(ManagesOrg, <<Shown("updateLocation"), Shown("listLocations")>>),
   deactivate |-> Button(ManagesOrg, <<Shown("deactivateLocation"), Shown("listLocations")>>)]

IntegrationsPage ==
  Page(Needs("sysadmin"), "home",
       <<Must("integrationsStatus"), Optional("webhookEvents"), Optional("webhookEndpoints")>>)
IntegrationsButtons ==
  [refresh |->
     Button(Free, <<Shown("integrationsStatus"), Shown("webhookEvents"), Shown("webhookEndpoints")>>),
   simulate |-> Button(Free, <<Shown("simulateChatTicket")>>),
   poll |-> Button(Free, <<Shown("pollImap"), Shown("integrationsStatus")>>),
   create |-> Button(Free, <<Shown("createWebhookEndpoint"), Shown("webhookEndpoints")>>),
   save |-> Button(Free, <<Shown("updateWebhookEndpoint"), Shown("webhookEndpoints")>>),
   test |-> Button(Free, <<Shown("testWebhookEndpoint"), Perhaps("webhookDeliveries")>>),
   deliveries |-> Button(Free, <<Shown("webhookDeliveries")>>),
   delete |-> Button(Free, <<Shown("deleteWebhookEndpoint"), Shown("webhookEndpoints")>>)]

RolesPage ==
  Page(OneOf({"roles:manage", "users:manage"}), "home",
       <<Must("rolesMatrix"), Must("listUsers"), Optional("listLocations")>>)
RolesButtons ==
  [save |-> Button(Free, <<Shown("setUserAccess"), Perhaps("updateUser"), Shown("rolesMatrix"),
                           Shown("listUsers"), Optional("listLocations")>>)]

RoutingPageForSla ==   \* wrong variant: only those who see the SLA part get in
  Page(Needs("settings:manage"), "home",
       <<Must("slaPolicies"), Must("assignmentRules"), Must("listTeams"), Must("listSkills"),
         Optional("ticketMeta")>>)

RoutingPage ==
  Page(OneOf({"settings:manage", "org:read", "org:manage"}), "home",
       <<MustIf(Needs("settings:manage"), "slaPolicies"), MustIf(ReadsOrg, "assignmentRules"),
         MustIf(ReadsOrg, "listTeams"), MustIf(ReadsOrg, "listSkills"),
         MustIf(ManagesOrg, "listLocations"), OptionalIf(Needs("users:read"), "listUsers"),
         Optional("ticketMeta")>>)
RoutingButtons ==
  [createSla |-> Button(Needs("settings:manage"), <<Shown("createSlaPolicy"), Shown("slaPolicies")>>),
   createRule |-> Button(ManagesOrg, <<Shown("createAssignmentRule"), Shown("assignmentRules")>>),
   createSkill |-> Button(ManagesOrg, <<Shown("createSkill"), Shown("listSkills")>>),
   loadSkills |-> Button(ManagesOrg, <<Shown("getUserSkills")>>),
   saveSkills |-> Button(ManagesOrg, <<Shown("setUserSkills"), Shown("listSkills")>>)]

ThenTeams(call) ==
  <<Shown(call), Shown("listTeams"), Shown("listLocations"), Shown("listDepartments")>>

TeamsPage ==
  Page(ReadsOrg, "home",
       <<Must("listTeams"), Must("listLocations"), Must("listDepartments"),
         MustIf(OneOf({"users:read", "users:manage"}), "listUsers")>>)
TeamsButtons ==
  [create |-> Button(ManagesOrg, ThenTeams("createTeam")),
   save |-> Button(ManagesOrg, ThenTeams("updateTeam")),
   addMember |-> Button(ManagesOrg, ThenTeams("addTeamMember")),
   removeMember |-> Button(ManagesOrg, ThenTeams("removeTeamMember"))]

ManagesUsers == Needs("users:manage")

UsersPage ==
  Page(OneOf({"users:manage", "users:read"}), "home",
       <<Must("listUsers"), Optional("rolesMatrix"), OptionalIf(ReadsOrg, "listLocations"),
         OptionalIf(ReadsOrg, "listDepartments")>>)
UsersButtons ==
  [create |-> Button(ManagesUsers, <<Shown("createUser"), Shown("listUsers")>>),
   save |-> Button(ManagesUsers, <<Shown("updateUser"), Shown("listUsers")>>),
   reset |-> Button(ManagesUsers, <<Shown("resetUserPassword")>>),
   delete |-> Button(ManagesUsers, <<Shown("deleteUser"), Shown("listUsers")>>)]
=============================================================================

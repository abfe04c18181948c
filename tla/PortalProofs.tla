----------------------------- MODULE PortalProofs -----------------------------
(***************************************************************************)
(* The pages of the web client and the guards of the API agree.            *)
(*                                                                         *)
(* Every page and every button is looked at once: what the routes of its   *)
(* calls ask for (RouteProofs) is met by whoever meets the gate of the     *)
(* page and respects what the menus take for granted, or meets the offer   *)
(* of the button, unless the table of disagreements says what is missing.  *)
(* The invariant of the tab then carries this through every step, with     *)
(* changes of the access and sessions that end at any moment.              *)
(***************************************************************************)
EXTENDS Portal, RouteProofs

(***************************************************************************)
(* What a user who has a code has besides                                  *)
(***************************************************************************)
(* U are the codes of an account, H what the page holds of it, C what the  *)
(* API sees: they differ by the tie to a ticket and by "plain".            *)
Visitor(U, H, C) ==
  /\ \E account \in Accounts : U = AuthUser(account)
  /\ \A code : code \notin {"requester", "assignee"} => (code \in C <=> code \in U)
  /\ \A code : code # "plain" => (code \in H <=> code \in C)

(* Nothing that the step does is refused, or nobody looks. *)
Served(H, C, step) ==
  step.fails = "ignored" \/ (Meets(H, step.when) => Guard(C, Reached[step.call], step.fields))

Kept(H, C, steps) == \A i \in DOMAIN steps : Served(H, C, steps[i])

LEMMA Granted ==
  ASSUME NEW user, NEW call, NEW need, Asks(call, need), Meets(user, need)
  PROVE  Guard(user, Reached[call], {})
  BY DEF Asks, Guard, Meets

LEMMA GrantedFields ==
  ASSUME NEW user, NEW call, NEW need, NEW fields, Asks(call, need), Meets(user, need),
         \A field \in fields : Meets(user, FieldNeed[field])
  PROVE  Guard(user, Reached[call], fields)
<1>1. \A clause \in need \cup UNION {FieldNeed[field] : field \in fields} : clause \cap user # {}
  BY DEF Meets
<1>2. QED
  BY <1>1 DEF Asks, Guard, Meets

LEMMA GuardMeets ==
  ASSUME NEW user, NEW call, NEW need, Asks(call, need), Guard(user, Reached[call], {})
  PROVE  Meets(user, need)
  BY DEF Asks, Guard, Meets

LEMMA MeetsFree == \A user : Meets(user, Free)
  BY DEF Meets, Free

(* The roles of the staff come with one of the permissions of the queue, the
   system administrator has every permission, and only the auditor, who reads
   all tickets, has no access to the knowledge base by the role. *)
LEMMA RolesGrant ==
  ASSUME NEW U, NEW H, NEW C, Visitor(U, H, C)
  PROVE  /\ {"agent", "senior_agent", "it_manager", "sysadmin"} \cap U # {}
              => "tickets:read_all" \in U \/ "tickets:read_queue" \in U
         /\ "sysadmin" \in U => "settings:manage" \in U /\ "assets:read" \in U
         /\ "knowledge:read" \in U \/ "tickets:read_all" \in U
<1>1. PICK account \in Accounts : U = AuthUser(account)
  BY DEF Visitor
<1>2. account.role \in RoleCodes /\ account.extras \subseteq PermissionCodes
  BY DEF Accounts
<1>3. RolePermissions[account.role] \subseteq PermissionCodes
  BY <1>2 DEF RolePermissions, RoleCodes, PermissionCodes, AgentPermissions
<1>4. \A role \in RoleCodes : role \notin PermissionCodes
  BY DEF RoleCodes, PermissionCodes
<1>5. \A role \in RoleCodes : role \in U => role = account.role
  BY <1>1, <1>2, <1>3, <1>4 DEF AuthUser
<1>6. \A code \in RolePermissions[account.role] : code \in U
  BY <1>1 DEF AuthUser
<1>7. /\ "tickets:read_queue" \in RolePermissions["agent"]
      /\ "tickets:read_queue" \in RolePermissions["senior_agent"]
      /\ "tickets:read_all" \in RolePermissions["it_manager"]
      /\ "tickets:read_all" \in RolePermissions["sysadmin"]
      /\ "settings:manage" \in RolePermissions["sysadmin"]
      /\ "assets:read" \in RolePermissions["sysadmin"]
      /\ \A role \in RoleCodes :
           "knowledge:read" \in RolePermissions[role] \/ "tickets:read_all" \in RolePermissions[role]
  BY DEF RoleCodes, RolePermissions, AgentPermissions, PermissionCodes
<1>8. {"agent", "senior_agent", "it_manager", "sysadmin"} \subseteq RoleCodes
  BY DEF RoleCodes
<1>9. QED
  BY <1>2, <1>5, <1>6, <1>7, <1>8

LEMMA MenusPresume ==
  ASSUME NEW user, Respects(user, PresumedByMenus)
  PROVE  /\ "users:manage" \in user => "users:read" \in user /\ "roles:manage" \in user
         /\ "roles:manage" \in user => "users:read" \in user
         /\ "org:manage" \in user => "org:read" \in user
  BY DEF Respects, PresumedByMenus

(* What the API asks for a change of a ticket, and of its status. *)
WriterNeed == {{"requester"} \cup Writes}
MoverNeed == {StaffTickets \cup {"requester"}}

(* What the table of disagreements says of a user whom nothing is refused. *)
LEMMA AgreementGives ==
  ASSUME NEW user
  PROVE  /\ \A b \in {"status", "impact", "assignment", "location", "assignToMe", "major"} :
              Agree(user, "ticket", b) => Meets(user, WriterNeed)
         /\ \A b \in {"assignment", "analysis", "plan", "cab"} :
              Agree(user, "ticket", b) => Meets(user, {StaffTickets})
         /\ Agree(user, "ticket", "assignToMe") => Meets(user, MoverNeed)
         /\ Agree(user, "ticket", "unlink") => Meets(user, {Writes})
         /\ Agree(user, "ticket", "attach") => Meets(user, {AttachmentReaders})
         /\ Agree(user, "tickets", "assist") => "knowledge:read" \in user
         /\ Agree(user, "article", "feedback") => "knowledge:read" \in user
         /\ Agree(user, "incident", "role") => "im:write" \in user
         /\ \A b \in {"create", "save", "delete"} : Agree(user, "users", b) => "users:read" \in user
         /\ Agree(user, "roles", "save")
              => "users:manage" \in user /\ "roles:manage" \in user /\ "users:read" \in user
         /\ \A b \in {"create", "save", "addMember", "removeMember"} :
              Agree(user, "teams", b) => "org:read" \in user
         /\ \A p \in {"departments", "locations"}, b \in {"create", "save", "deactivate"} :
              Agree(user, p, b) => "org:read" \in user
         /\ \A b \in {"createRule", "createSkill", "loadSkills", "saveSkills"} :
              Agree(user, "routing", b) => "org:read" \in user
<1>1. ASSUME NEW p, NEW b, NEW codes, Agree(user, p, b), <<p, b, codes>> \in AsksMore
      PROVE  Meets(user, {codes}) /\ \A code : codes = {code} => code \in user
  BY <1>1 DEF Agree, Meets
<1>2. /\ \A b \in {"status", "impact", "assignment", "location", "assignToMe", "major"} :
           <<"ticket", b, {"requester"} \cup Writes>> \in AsksMore
      /\ \A b \in {"assignment", "analysis", "plan", "cab"} : <<"ticket", b, StaffTickets>> \in AsksMore
      /\ <<"ticket", "assignToMe", StaffTickets \cup {"requester"}>> \in AsksMore
      /\ <<"ticket", "unlink", Writes>> \in AsksMore
      /\ <<"ticket", "attach", AttachmentReaders>> \in AsksMore
  BY DEF AsksMore
<1>3. /\ <<"tickets", "assist", {"knowledge:read"}>> \in AsksMore
      /\ <<"article", "feedback", {"knowledge:read"}>> \in AsksMore
      /\ <<"incident", "role", {"im:write"}>> \in AsksMore
      /\ \A b \in {"create", "save", "delete"} : <<"users", b, {"users:read"}>> \in AsksMore
      /\ \A code \in {"users:manage", "roles:manage", "users:read"} : <<"roles", "save", {code}>> \in AsksMore
  BY DEF AsksMore
<1>4. /\ \A b \in {"create", "save", "addMember", "removeMember"} :
           <<"teams", b, {"org:read"}>> \in AsksMore
      /\ \A p \in {"departments", "locations"}, b \in {"create", "save", "deactivate"} :
           <<p, b, {"org:read"}>> \in AsksMore
      /\ \A b \in {"createRule", "createSkill", "loadSkills", "saveSkills"} :
           <<"routing", b, {"org:read"}>> \in AsksMore
  BY DEF AsksMore
<1>5. QED
  BY <1>1, <1>2, <1>3, <1>4 DEF WriterNeed, MoverNeed

LEMMA FieldNeeds ==
  /\ FieldNeed["status"] = {StaffTickets \cup {"requester"}} /\ FieldNeed["impact"] = Free
  /\ FieldNeed["assignment"] = Needs("tickets:assign") /\ FieldNeed["restricted"] = {Writes}
  /\ \A field \in {"location", "major", "analysis", "plan"} : FieldNeed[field] = {StaffTickets}
  BY DEF FieldNeed

(***************************************************************************)
(* The pages: their form, and what they load                               *)
(***************************************************************************)
PageNames ==
  {"home", "tickets", "ticket", "queue", "major", "problems", "changes", "im", "incident",
   "approvals", "assets", "audit", "catalog", "knowledge", "article", "new_article",
   "notifications", "profile", "reports", "users", "roles", "teams", "departments", "locations",
   "routing", "policies", "automation", "integrations", "branding"}

LEMMA PagesNamed == DOMAIN AllPages = PageNames
  BY DEF AllPages, PageNames

(* The form of a page: a failure leads to a page, or nowhere; the page of a
   ticket first gets the ticket, and the board gets its tickets. *)
PageForm(p, content) ==
  /\ content.who.call \in {"me", "getProfile"} /\ content.who.fields = {}
  /\ content.who.fails \in PageNames \cup {"login"} /\ content.other \in PageNames
  /\ Len(content.load) \in Nat /\ DOMAIN content.load = 1..Len(content.load)
  /\ \A i \in DOMAIN content.load :
       /\ content.load[i].fails \in PageNames \cup {"login", "error", "ignored"}
       /\ p = "ticket" => content.load[i].call \notin {"createTicket", "ticketBoard"}
  /\ p = "ticket" => Len(content.load) > 1 /\ content.load[1] = Must("getTicket")
  /\ p = "queue" => Len(content.load) = 1 /\ content.load[1] = Shown("ticketBoard")

LEMMA PageForms == \A p \in PageNames : PageForm(p, AllPages[p])
<1>1. PageForm("home", AllPages["home"])
  <2>1. AllPages["home"] = HomePage
    BY DEF AllPages
  <2>2. PageForm("home", HomePage)
    BY DEF PageNames, PageForm, Page, PageOf, HomePage, Optional, Call, OptionalIf
  <2>3. QED
    BY <2>1, <2>2
<1>2. PageForm("tickets", AllPages["tickets"])
  <2>1. AllPages["tickets"] = TicketsPage
    BY DEF AllPages
  <2>2. PageForm("tickets", TicketsPage)
    BY DEF PageNames, PageForm, Page, PageOf, TicketsPage, Optional, Call, OptionalIf, Shown
  <2>3. QED
    BY <2>1, <2>2
<1>3. PageForm("ticket", AllPages["ticket"])
  <2>1. AllPages["ticket"] = TicketPage
    BY DEF AllPages
  <2>2. PageForm("ticket", TicketPage)
    BY DEF PageNames, PageForm, Page, PageOf, TicketPage, Must, Call, Optional, OptionalIf
  <2>3. QED
    BY <2>1, <2>2
<1>4. PageForm("queue", AllPages["queue"])
  <2>1. AllPages["queue"] = QueuePage
    BY DEF AllPages
  <2>2. PageForm("queue", QueuePage)
    BY DEF PageNames, PageForm, Page, PageOf, QueuePage, Shown, Call
  <2>3. QED
    BY <2>1, <2>2
<1>5. PageForm("major", AllPages["major"])
  <2>1. AllPages["major"] = MajorPage
    BY DEF AllPages
  <2>2. PageForm("major", MajorPage)
    BY DEF PageNames, PageForm, Page, PageOf, MajorPage, Shown, Call
  <2>3. QED
    BY <2>1, <2>2
<1>6. PageForm("problems", AllPages["problems"])
  <2>1. AllPages["problems"] = ProblemsPage
    BY DEF AllPages
  <2>2. PageForm("problems", ProblemsPage)
    BY DEF PageNames, PageForm, Page, PageOf, ProblemsPage, Shown, Call
  <2>3. QED
    BY <2>1, <2>2
<1>7. PageForm("changes", AllPages["changes"])
  <2>1. AllPages["changes"] = ChangesPage
    BY DEF AllPages
  <2>2. PageForm("changes", ChangesPage)
    BY DEF PageNames, PageForm, Page, PageOf, ChangesPage, Shown, Call
  <2>3. QED
    BY <2>1, <2>2
<1>8. PageForm("im", AllPages["im"])
  <2>1. AllPages["im"] = ImPage
    BY DEF AllPages
  <2>2. PageForm("im", ImPage)
    BY DEF PageNames, PageForm, Page, PageOf, ImPage, Shown, Call
  <2>3. QED
    BY <2>1, <2>2
<1>9. PageForm("incident", AllPages["incident"])
  <2>1. AllPages["incident"] = IncidentPage
    BY DEF AllPages
  <2>2. PageForm("incident", IncidentPage)
    BY DEF PageNames, PageForm, Page, PageOf, IncidentPage, OptionalIf, Call, Shown
  <2>3. QED
    BY <2>1, <2>2
<1>10. PageForm("approvals", AllPages["approvals"])
  <2>1. AllPages["approvals"] = ApprovalsPage
    BY DEF AllPages
  <2>2. PageForm("approvals", ApprovalsPage)
    BY DEF PageNames, PageForm, Page, PageOf, ApprovalsPage, Shown, Call
  <2>3. QED
    BY <2>1, <2>2
<1>11. PageForm("assets", AllPages["assets"])
  <2>1. AllPages["assets"] = AssetsPage
    BY DEF AllPages
  <2>2. PageForm("assets", AssetsPage)
    BY DEF PageNames, PageForm, Page, PageOf, AssetsPage, Shown, Call, ShownIf
  <2>3. QED
    BY <2>1, <2>2
<1>12. PageForm("audit", AllPages["audit"])
  <2>1. AllPages["audit"] = AuditPage
    BY DEF AllPages
  <2>2. PageForm("audit", AuditPage)
    BY DEF PageNames, PageForm, Page, PageOf, AuditPage, Must, Call
  <2>3. QED
    BY <2>1, <2>2
<1>13. PageForm("catalog", AllPages["catalog"])
  <2>1. AllPages["catalog"] = CatalogPage
    BY DEF AllPages
  <2>2. PageForm("catalog", CatalogPage)
    BY DEF PageNames, PageForm, Page, PageOf, CatalogPage, Optional, Call, Shown
  <2>3. QED
    BY <2>1, <2>2
<1>14. PageForm("knowledge", AllPages["knowledge"])
  <2>1. AllPages["knowledge"] = KnowledgePage
    BY DEF AllPages
  <2>2. PageForm("knowledge", KnowledgePage)
    BY DEF PageNames, PageForm, Page, PageOf, KnowledgePage, Shown, Call
  <2>3. QED
    BY <2>1, <2>2
<1>15. PageForm("article", AllPages["article"])
  <2>1. AllPages["article"] = ArticlePage
    BY DEF AllPages
  <2>2. PageForm("article", ArticlePage)
    BY DEF PageNames, PageForm, Page, PageOf, ArticlePage, Call
  <2>3. QED
    BY <2>1, <2>2
<1>16. PageForm("new_article", AllPages["new_article"])
  <2>1. AllPages["new_article"] = NewArticlePage
    BY DEF AllPages
  <2>2. PageForm("new_article", NewArticlePage)
    BY DEF PageNames, PageForm, Page, PageOf, NewArticlePage, Call
  <2>3. QED
    BY <2>1, <2>2
<1>17. PageForm("notifications", AllPages["notifications"])
  <2>1. AllPages["notifications"] = NotificationsPage
    BY DEF AllPages
  <2>2. PageForm("notifications", NotificationsPage)
    BY DEF PageNames, PageForm, Page, PageOf, NotificationsPage, Must, Call
  <2>3. QED
    BY <2>1, <2>2
<1>18. PageForm("profile", AllPages["profile"])
  <2>1. AllPages["profile"] = ProfilePage
    BY DEF AllPages
  <2>2. PageForm("profile", ProfilePage)
    BY DEF PageNames, PageForm, Page, PageOf, ProfilePage, Optional, Call
  <2>3. QED
    BY <2>1, <2>2
<1>19. PageForm("reports", AllPages["reports"])
  <2>1. AllPages["reports"] = ReportsPage
    BY DEF AllPages
  <2>2. PageForm("reports", ReportsPage)
    BY DEF PageNames, PageForm, Page, PageOf, ReportsPage, Optional, Call, Shown
  <2>3. QED
    BY <2>1, <2>2
<1>20. PageForm("users", AllPages["users"])
  <2>1. AllPages["users"] = UsersPage
    BY DEF AllPages
  <2>2. PageForm("users", UsersPage)
    BY DEF PageNames, PageForm, Page, PageOf, UsersPage, Must, Call, Optional, OptionalIf
  <2>3. QED
    BY <2>1, <2>2
<1>21. PageForm("roles", AllPages["roles"])
  <2>1. AllPages["roles"] = RolesPage
    BY DEF AllPages
  <2>2. PageForm("roles", RolesPage)
    BY DEF PageNames, PageForm, Page, PageOf, RolesPage, Must, Call, Optional
  <2>3. QED
    BY <2>1, <2>2
<1>22. PageForm("teams", AllPages["teams"])
  <2>1. AllPages["teams"] = TeamsPage
    BY DEF AllPages
  <2>2. PageForm("teams", TeamsPage)
    BY DEF PageNames, PageForm, Page, PageOf, TeamsPage, Must, Call, MustIf
  <2>3. QED
    BY <2>1, <2>2
<1>23. PageForm("departments", AllPages["departments"])
  <2>1. AllPages["departments"] = DepartmentsPage
    BY DEF AllPages
  <2>2. PageForm("departments", DepartmentsPage)
    BY DEF PageNames, PageForm, Page, PageOf, DepartmentsPage, Must, Call, Optional
  <2>3. QED
    BY <2>1, <2>2
<1>24. PageForm("locations", AllPages["locations"])
  <2>1. AllPages["locations"] = LocationsPage
    BY DEF AllPages
  <2>2. PageForm("locations", LocationsPage)
    BY DEF PageNames, PageForm, Page, PageOf, LocationsPage, Must, Call
  <2>3. QED
    BY <2>1, <2>2
<1>25. PageForm("routing", AllPages["routing"])
  <2>1. AllPages["routing"] = RoutingPage
    BY DEF AllPages
  <2>2. PageForm("routing", RoutingPage)
    BY DEF PageNames, PageForm, Page, PageOf, RoutingPage, MustIf, Call, Optional, OptionalIf
  <2>3. QED
    BY <2>1, <2>2
<1>26. PageForm("policies", AllPages["policies"])
  <2>1. AllPages["policies"] = PoliciesPage
    BY DEF AllPages
  <2>2. PageForm("policies", PoliciesPage)
    BY DEF PageNames, PageForm, Page, PageOf, PoliciesPage, Must, Call
  <2>3. QED
    BY <2>1, <2>2
<1>27. PageForm("automation", AllPages["automation"])
  <2>1. AllPages["automation"] = AutomationPage
    BY DEF AllPages
  <2>2. PageForm("automation", AutomationPage)
    BY DEF PageNames, PageForm, Page, PageOf, AutomationPage, Must, Call, Optional
  <2>3. QED
    BY <2>1, <2>2
<1>28. PageForm("integrations", AllPages["integrations"])
  <2>1. AllPages["integrations"] = IntegrationsPage
    BY DEF AllPages
  <2>2. PageForm("integrations", IntegrationsPage)
    BY DEF PageNames, PageForm, Page, PageOf, IntegrationsPage, Must, Call, Optional
  <2>3. QED
    BY <2>1, <2>2
<1>29. PageForm("branding", AllPages["branding"])
  <2>1. AllPages["branding"] = BrandingPage
    BY DEF AllPages
  <2>2. PageForm("branding", BrandingPage)
    BY DEF PageNames, PageForm, Page, PageOf, BrandingPage, Must, Call
  <2>3. QED
    BY <2>1, <2>2
<1>30. QED
  BY <1>1, <1>2, <1>3, <1>4, <1>5, <1>6, <1>7, <1>8, <1>9, <1>10, <1>11, <1>12, <1>13, <1>14,
     <1>15, <1>16, <1>17, <1>18, <1>19, <1>20, <1>21, <1>22, <1>23, <1>24, <1>25, <1>26, <1>27,
     <1>28, <1>29 DEF PageNames

(* What is enough to open a page of the menus. *)
EntryNeed ==
  [home |-> Free, tickets |-> Free, catalog |-> Free, notifications |-> Free, profile |-> Free,
   queue |-> ShowAgentWorkspace, major |-> ShowAgentWorkspace, problems |-> ShowAgentWorkspace,
   changes |-> ShowAgentWorkspace, im |-> Needs("im:read"),
   approvals |-> Needs("approvals:read"), assets |-> Needs("assets:read"),
   reports |-> Needs("reports:read"), audit |-> Needs("audit:read"),
   users |-> Needs("users:manage"), roles |-> OneOf({"roles:manage", "users:manage"}),
   teams |-> Needs("org:manage"), departments |-> Needs("org:manage"),
   locations |-> Needs("org:manage"), routing |-> OneOf({"settings:manage", "org:manage"}),
   policies |-> CanManageApprovalPolicies, automation |-> Needs("settings:manage"),
   integrations |-> Needs("sysadmin"), branding |-> Needs("sysadmin"),
   new_article |-> Needs("knowledge:write")]

(* The page opens for the visitor, and nothing of it is refused. *)
Opens(U, H, C, content) == Meets(U, content.gate) /\ Kept(H, C, content.load)

LEMMA HomeOpens ==
  ASSUME NEW U, NEW H, NEW C, Visitor(U, H, C), Respects(C, PresumedByMenus),
         Meets(U, Free)
  PROVE  Opens(U, H, C, HomePage)
<1>1. Meets(U, Free)
  BY MenusPresume, RolesGrant
    DEF Meets, Visitor, Free
<1>3. QED
  BY <1>1
    DEF Opens, Kept, Served, Page, PageOf, HomePage, Optional, Call, OptionalIf

LEMMA TicketsOpens ==
  ASSUME NEW U, NEW H, NEW C, Visitor(U, H, C), Respects(C, PresumedByMenus),
         Meets(U, Free)
  PROVE  Opens(U, H, C, TicketsPage)
<1>1. /\ Meets(U, Free)
      /\ Meets(C, Free)
  BY MenusPresume, RolesGrant
    DEF Meets, Visitor, Free
<1>2. /\ Guard(C, Reached["listTickets"], {})
      /\ Guard(C, Reached["ticketMeta"], {})
  BY <1>1, Granted, TicketListCallsAsk, TicketViewCallsAsk
<1>3. QED
  BY <1>1, <1>2
    DEF Opens, Kept, Served, Page, PageOf, TicketsPage, Optional, Call, OptionalIf, Shown

LEMMA CatalogOpens ==
  ASSUME NEW U, NEW H, NEW C, Visitor(U, H, C), Respects(C, PresumedByMenus),
         Meets(U, Free)
  PROVE  Opens(U, H, C, CatalogPage)
<1>1. /\ Meets(U, Free)
      /\ Meets(C, Free)
  BY MenusPresume, RolesGrant
    DEF Meets, Visitor, Free
<1>2. Guard(C, Reached["catalog"], {})
  BY <1>1, Granted, CatalogCallsAsk
<1>3. QED
  BY <1>1, <1>2
    DEF Opens, Kept, Served, Page, PageOf, CatalogPage, Optional, Call, Shown

LEMMA NotificationsOpens ==
  ASSUME NEW U, NEW H, NEW C, Visitor(U, H, C), Respects(C, PresumedByMenus),
         Meets(U, Free)
  PROVE  Opens(U, H, C, NotificationsPage)
<1>1. /\ Meets(U, Free)
      /\ Meets(C, Free)
  BY MenusPresume, RolesGrant
    DEF Meets, Visitor, Free
<1>2. Guard(C, Reached["notifications"], {})
  BY <1>1, Granted, NotificationCallsAsk
<1>3. QED
  BY <1>1, <1>2
    DEF Opens, Kept, Served, Page, PageOf, NotificationsPage, Must, Call

LEMMA ProfileOpens ==
  ASSUME NEW U, NEW H, NEW C, Visitor(U, H, C), Respects(C, PresumedByMenus),
         Meets(U, Free)
  PROVE  Opens(U, H, C, ProfilePage)
<1>1. Meets(U, Free)
  BY MenusPresume, RolesGrant
    DEF Meets, Visitor, Free
<1>3. QED
  BY <1>1
    DEF Opens, Kept, Served, Page, PageOf, ProfilePage, Optional, Call

LEMMA QueueOpens ==
  ASSUME NEW U, NEW H, NEW C, Visitor(U, H, C), Respects(C, PresumedByMenus),
         Meets(U, ShowAgentWorkspace)
  PROVE  Opens(U, H, C, QueuePage)
<1>1. /\ Meets(U, ShowAgentWorkspace)
      /\ Meets(C, OneOf(StaffTickets))
  BY MenusPresume, RolesGrant
    DEF Meets, Visitor, OneOf, ShowAgentWorkspace, StaffTickets
<1>2. Guard(C, Reached["ticketBoard"], {})
  BY <1>1, Granted, TicketListCallsAsk
<1>3. QED
  BY <1>1, <1>2
    DEF Opens, Kept, Served, Page, PageOf, QueuePage, Shown, Call

LEMMA MajorOpens ==
  ASSUME NEW U, NEW H, NEW C, Visitor(U, H, C), Respects(C, PresumedByMenus),
         Meets(U, ShowAgentWorkspace)
  PROVE  Opens(U, H, C, MajorPage)
<1>1. /\ Meets(U, ShowAgentWorkspace)
      /\ Meets(C, OneOf(StaffTickets))
  BY MenusPresume, RolesGrant
    DEF Meets, Visitor, OneOf, ShowAgentWorkspace, StaffTickets
<1>2. Guard(C, Reached["majorIncidentsOps"], {})
  BY <1>1, Granted, TicketListCallsAsk
<1>3. QED
  BY <1>1, <1>2
    DEF Opens, Kept, Served, Page, PageOf, MajorPage, Shown, Call

LEMMA ProblemsOpens ==
  ASSUME NEW U, NEW H, NEW C, Visitor(U, H, C), Respects(C, PresumedByMenus),
         Meets(U, ShowAgentWorkspace)
  PROVE  Opens(U, H, C, ProblemsPage)
<1>1. /\ Meets(U, ShowAgentWorkspace)
      /\ Meets(C, Free)
  BY MenusPresume, RolesGrant
    DEF Meets, Visitor, OneOf, Free, ShowAgentWorkspace
<1>2. Guard(C, Reached["listTickets"], {})
  BY <1>1, Granted, TicketListCallsAsk
<1>3. QED
  BY <1>1, <1>2
    DEF Opens, Kept, Served, Page, PageOf, ProblemsPage, Shown, Call

LEMMA ChangesOpens ==
  ASSUME NEW U, NEW H, NEW C, Visitor(U, H, C), Respects(C, PresumedByMenus),
         Meets(U, ShowAgentWorkspace)
  PROVE  Opens(U, H, C, ChangesPage)
<1>1. /\ Meets(U, ShowAgentWorkspace)
      /\ Meets(C, Free)
  BY MenusPresume, RolesGrant
    DEF Meets, Visitor, OneOf, Free, ShowAgentWorkspace
<1>2. Guard(C, Reached["listTickets"], {})
  BY <1>1, Granted, TicketListCallsAsk
<1>3. QED
  BY <1>1, <1>2
    DEF Opens, Kept, Served, Page, PageOf, ChangesPage, Shown, Call

LEMMA ImOpens ==
  ASSUME NEW U, NEW H, NEW C, Visitor(U, H, C), Respects(C, PresumedByMenus),
         Meets(U, Needs("im:read"))
  PROVE  Opens(U, H, C, ImPage)
<1>1. /\ Meets(U, Needs("im:read"))
      /\ Meets(C, Needs("im:read"))
  BY MenusPresume, RolesGrant
    DEF Meets, Visitor, Needs
<1>2. /\ Guard(C, Reached["listImIncidents"], {})
      /\ Guard(C, Reached["getImDashboard"], {})
  BY <1>1, Granted, ImCallsAsk
<1>3. QED
  BY <1>1, <1>2
    DEF Opens, Kept, Served, Page, PageOf, ImPage, Shown, Call

LEMMA ApprovalsOpens ==
  ASSUME NEW U, NEW H, NEW C, Visitor(U, H, C), Respects(C, PresumedByMenus),
         Meets(U, Needs("approvals:read"))
  PROVE  Opens(U, H, C, ApprovalsPage)
<1>1. /\ Meets(U, Needs("approvals:read"))
      /\ Meets(C, Needs("approvals:read"))
  BY MenusPresume, RolesGrant
    DEF Meets, Visitor, Needs
<1>2. Guard(C, Reached["approvals"], {})
  BY <1>1, Granted, ApprovalCallsAsk
<1>3. QED
  BY <1>1, <1>2
    DEF Opens, Kept, Served, Page, PageOf, ApprovalsPage, Shown, Call

LEMMA AssetsOpens ==
  ASSUME NEW U, NEW H, NEW C, Visitor(U, H, C), Respects(C, PresumedByMenus),
         Meets(U, Needs("assets:read"))
  PROVE  Opens(U, H, C, AssetsPage)
<1>1. /\ Meets(U, Needs("assets:read"))
      /\ Meets(C, Needs("assets:read"))
      /\ Meets(H, Needs("org:read")) => Meets(C, Needs("org:read"))
      /\ Meets(H, WritesAssets) => Meets(C, Needs("assets:write"))
  BY MenusPresume, RolesGrant
    DEF Meets, Visitor, Needs, WritesAssets
<1>2. /\ Guard(C, Reached["assetTypes"], {})
      /\ Guard(C, Reached["assetStatuses"], {})
      /\ Guard(C, Reached["assets"], {})
      /\ Guard(C, Reached["assetRelationTypes"], {})
      /\ Meets(H, Needs("org:read")) => Guard(C, Reached["listLocations"], {})
      /\ Meets(H, WritesAssets) => Guard(C, Reached["assetAssignees"], {})
  BY <1>1, Granted, AssetCallsAsk, OrgCallsAsk
<1>3. QED
  BY <1>1, <1>2
    DEF Opens, Kept, Served, Page, PageOf, AssetsPage, Shown, Call, ShownIf

LEMMA ReportsOpens ==
  ASSUME NEW U, NEW H, NEW C, Visitor(U, H, C), Respects(C, PresumedByMenus),
         Meets(U, Needs("reports:read"))
  PROVE  Opens(U, H, C, ReportsPage)
<1>1. /\ Meets(U, ReadsReports)
      /\ Meets(C, Needs("reports:read"))
      /\ Meets(C, SchedulesReports)
  BY MenusPresume, RolesGrant
    DEF Meets, Visitor, Needs, OneOf, ReadsReports, SchedulesReports
<1>2. /\ Guard(C, Reached["reportSummary"], {})
      /\ Guard(C, Reached["reportStages"], {})
      /\ Guard(C, Reached["reportHeatmap"], {})
      /\ Guard(C, Reached["listReportSchedules"], {})
  BY <1>1, Granted, ReportCallsAsk
<1>3. QED
  BY <1>1, <1>2
    DEF Opens, Kept, Served, Page, PageOf, ReportsPage, Optional, Call, Shown

LEMMA AuditOpens ==
  ASSUME NEW U, NEW H, NEW C, Visitor(U, H, C), Respects(C, PresumedByMenus),
         Meets(U, Needs("audit:read"))
  PROVE  Opens(U, H, C, AuditPage)
<1>1. /\ Meets(U, Needs("audit:read"))
      /\ Meets(C, Needs("audit:read"))
  BY MenusPresume, RolesGrant
    DEF Meets, Visitor, Needs
<1>2. /\ Guard(C, Reached["auditFacets"], {})
      /\ Guard(C, Reached["audit"], {})
      /\ Guard(C, Reached["listAuditExportSchedules"], {})
      /\ Guard(C, Reached["listAuditExportRuns"], {})
  BY <1>1, Granted, AuditCallsAsk
<1>3. QED
  BY <1>1, <1>2
    DEF Opens, Kept, Served, Page, PageOf, AuditPage, Must, Call

LEMMA UsersOpens ==
  ASSUME NEW U, NEW H, NEW C, Visitor(U, H, C), Respects(C, PresumedByMenus),
         Meets(U, Needs("users:manage"))
  PROVE  Opens(U, H, C, UsersPage)
<1>1. /\ Meets(U, OneOf({"users:manage", "users:read"}))
      /\ Meets(C, Needs("users:read"))
  BY MenusPresume, RolesGrant
    DEF Meets, Visitor, Needs, OneOf
<1>2. Guard(C, Reached["listUsers"], {})
  BY <1>1, Granted, UserCallsAsk
<1>3. QED
  BY <1>1, <1>2
    DEF Opens, Kept, Served, Page, PageOf, UsersPage, Must, Call, Optional, OptionalIf

LEMMA RolesOpens ==
  ASSUME NEW U, NEW H, NEW C, Visitor(U, H, C), Respects(C, PresumedByMenus),
         Meets(U, OneOf({"roles:manage", "users:manage"}))
  PROVE  Opens(U, H, C, RolesPage)
<1>1. /\ Meets(U, OneOf({"roles:manage", "users:manage"}))
      /\ Meets(C, Needs("roles:manage"))
      /\ Meets(C, Needs("users:read"))
  BY MenusPresume, RolesGrant
    DEF Meets, Visitor, Needs, OneOf
<1>2. /\ Guard(C, Reached["rolesMatrix"], {})
      /\ Guard(C, Reached["listUsers"], {})
  BY <1>1, Granted, UserCallsAsk
<1>3. QED
  BY <1>1, <1>2
    DEF Opens, Kept, Served, Page, PageOf, RolesPage, Must, Call, Optional

LEMMA TeamsOpens ==
  ASSUME NEW U, NEW H, NEW C, Visitor(U, H, C), Respects(C, PresumedByMenus),
         Meets(U, Needs("org:manage"))
  PROVE  Opens(U, H, C, TeamsPage)
<1>1. /\ Meets(U, ReadsOrg)
      /\ Meets(C, Needs("org:read"))
      /\ Meets(H, OneOf({"users:read", "users:manage"})) => Meets(C, Needs("users:read"))
  BY MenusPresume, RolesGrant
    DEF Meets, Visitor, Needs, OneOf, ReadsOrg
<1>2. /\ Guard(C, Reached["listTeams"], {})
      /\ Guard(C, Reached["listLocations"], {})
      /\ Guard(C, Reached["listDepartments"], {})
      /\ Meets(H, OneOf({"users:read", "users:manage"})) => Guard(C, Reached["listUsers"], {})
  BY <1>1, Granted, OrgCallsAsk, UserCallsAsk
<1>3. QED
  BY <1>1, <1>2
    DEF Opens, Kept, Served, Page, PageOf, TeamsPage, Must, Call, MustIf

LEMMA DepartmentsOpens ==
  ASSUME NEW U, NEW H, NEW C, Visitor(U, H, C), Respects(C, PresumedByMenus),
         Meets(U, Needs("org:manage"))
  PROVE  Opens(U, H, C, DepartmentsPage)
<1>1. /\ Meets(U, ReadsOrg)
      /\ Meets(C, Needs("org:read"))
  BY MenusPresume, RolesGrant
    DEF Meets, Visitor, Needs, OneOf, ReadsOrg
<1>2. Guard(C, Reached["listDepartments"], {})
  BY <1>1, Granted, OrgCallsAsk
<1>3. QED
  BY <1>1, <1>2
    DEF Opens, Kept, Served, Page, PageOf, DepartmentsPage, Must, Call, Optional

LEMMA LocationsOpens ==
  ASSUME NEW U, NEW H, NEW C, Visitor(U, H, C), Respects(C, PresumedByMenus),
         Meets(U, Needs("org:manage"))
  PROVE  Opens(U, H, C, LocationsPage)
<1>1. /\ Meets(U, ReadsOrg)
      /\ Meets(C, Needs("org:read"))
  BY MenusPresume, RolesGrant
    DEF Meets, Visitor, Needs, OneOf, ReadsOrg
<1>2. Guard(C, Reached["listLocations"], {})
  BY <1>1, Granted, OrgCallsAsk
<1>3. QED
  BY <1>1, <1>2
    DEF Opens, Kept, Served, Page, PageOf, LocationsPage, Must, Call

LEMMA RoutingOpens ==
  ASSUME NEW U, NEW H, NEW C, Visitor(U, H, C), Respects(C, PresumedByMenus),
         Meets(U, OneOf({"settings:manage", "org:manage"}))
  PROVE  Opens(U, H, C, RoutingPage)
<1>1. /\ Meets(U, OneOf({"settings:manage", "org:read", "org:manage"}))
      /\ Meets(H, Needs("settings:manage")) => Meets(C, Needs("settings:manage"))
      /\ Meets(H, ReadsOrg) => Meets(C, Needs("org:read"))
      /\ Meets(H, ManagesOrg) => Meets(C, Needs("org:read"))
  BY MenusPresume, RolesGrant
    DEF Meets, Visitor, Needs, OneOf, ReadsOrg, ManagesOrg
<1>2. /\ Meets(H, Needs("settings:manage")) => Guard(C, Reached["slaPolicies"], {})
      /\ Meets(H, ReadsOrg) => Guard(C, Reached["assignmentRules"], {})
      /\ Meets(H, ReadsOrg) => Guard(C, Reached["listTeams"], {})
      /\ Meets(H, ReadsOrg) => Guard(C, Reached["listSkills"], {})
      /\ Meets(H, ManagesOrg) => Guard(C, Reached["listLocations"], {})
  BY <1>1, Granted, OrgCallsAsk, RoutingCallsAsk
<1>3. QED
  BY <1>1, <1>2
    DEF Opens, Kept, Served, Page, PageOf, RoutingPage, MustIf, Call, Optional, OptionalIf

LEMMA PoliciesOpens ==
  ASSUME NEW U, NEW H, NEW C, Visitor(U, H, C), Respects(C, PresumedByMenus),
         Meets(U, CanManageApprovalPolicies)
  PROVE  Opens(U, H, C, PoliciesPage)
<1>1. /\ Meets(U, CanManageApprovalPolicies)
      /\ Meets(C, ManagesPolicies)
      /\ Meets(C, Free)
  BY MenusPresume, RolesGrant
    DEF Meets, Visitor, OneOf, Free, CanManageApprovalPolicies, ManagesPolicies
<1>2. /\ Guard(C, Reached["approvalPolicies"], {})
      /\ Guard(C, Reached["ticketMeta"], {})
  BY <1>1, Granted, ApprovalCallsAsk, TicketViewCallsAsk
<1>3. QED
  BY <1>1, <1>2
    DEF Opens, Kept, Served, Page, PageOf, PoliciesPage, Must, Call

LEMMA AutomationOpens ==
  ASSUME NEW U, NEW H, NEW C, Visitor(U, H, C), Respects(C, PresumedByMenus),
         Meets(U, Needs("settings:manage"))
  PROVE  Opens(U, H, C, AutomationPage)
<1>1. /\ Meets(U, Needs("settings:manage"))
      /\ Meets(C, Needs("settings:manage"))
  BY MenusPresume, RolesGrant
    DEF Meets, Visitor, Needs
<1>2. Guard(C, Reached["listAutomationRules"], {})
  BY <1>1, Granted, AutomationCallsAsk
<1>3. QED
  BY <1>1, <1>2
    DEF Opens, Kept, Served, Page, PageOf, AutomationPage, Must, Call, Optional

LEMMA IntegrationsOpens ==
  ASSUME NEW U, NEW H, NEW C, Visitor(U, H, C), Respects(C, PresumedByMenus),
         Meets(U, Needs("sysadmin"))
  PROVE  Opens(U, H, C, IntegrationsPage)
<1>1. /\ Meets(U, Needs("sysadmin"))
      /\ Meets(C, Needs("sysadmin"))
  BY MenusPresume, RolesGrant
    DEF Meets, Visitor, Needs
<1>2. Guard(C, Reached["integrationsStatus"], {})
  BY <1>1, Granted, IntegrationCallsAsk
<1>3. QED
  BY <1>1, <1>2
    DEF Opens, Kept, Served, Page, PageOf, IntegrationsPage, Must, Call, Optional

LEMMA BrandingOpens ==
  ASSUME NEW U, NEW H, NEW C, Visitor(U, H, C), Respects(C, PresumedByMenus),
         Meets(U, Needs("sysadmin"))
  PROVE  Opens(U, H, C, BrandingPage)
<1>1. /\ Meets(U, Needs("sysadmin"))
      /\ Meets(C, Free)
  BY MenusPresume, RolesGrant
    DEF Meets, Visitor, Needs, Free
<1>2. Guard(C, Reached["branding"], {})
  BY <1>1, Granted, BrandingCallsAsk
<1>3. QED
  BY <1>1, <1>2
    DEF Opens, Kept, Served, Page, PageOf, BrandingPage, Must, Call

LEMMA NewArticleOpens ==
  ASSUME NEW U, NEW H, NEW C, Visitor(U, H, C), Respects(C, PresumedByMenus),
         Meets(U, Needs("knowledge:write"))
  PROVE  Opens(U, H, C, NewArticlePage)
<1>1. Meets(U, WritesKnowledge)
  BY MenusPresume, RolesGrant
    DEF Meets, Visitor, Needs, WritesKnowledge
<1>3. QED
  BY <1>1
    DEF Opens, Kept, Served, Page, PageOf, NewArticlePage

(* Every page of the menus opens. *)
LEMMA EntryOpens ==
  ASSUME NEW U, NEW H, NEW C, Visitor(U, H, C), Respects(C, PresumedByMenus),
         NEW p \in DOMAIN EntryNeed, Meets(U, EntryNeed[p])
  PROVE  Opens(U, H, C, AllPages[p])
<1>1. CASE p = "home"
  <2>1. EntryNeed["home"] = Free /\ AllPages["home"] = HomePage
    BY DEF EntryNeed, AllPages
  <2>2. QED
    BY <1>1, <2>1, HomeOpens
<1>2. CASE p = "tickets"
  <2>1. EntryNeed["tickets"] = Free /\ AllPages["tickets"] = TicketsPage
    BY DEF EntryNeed, AllPages
  <2>2. QED
    BY <1>2, <2>1, TicketsOpens
<1>3. CASE p = "catalog"
  <2>1. EntryNeed["catalog"] = Free /\ AllPages["catalog"] = CatalogPage
    BY DEF EntryNeed, AllPages
  <2>2. QED
    BY <1>3, <2>1, CatalogOpens
<1>4. CASE p = "notifications"
  <2>1. EntryNeed["notifications"] = Free /\ AllPages["notifications"] = NotificationsPage
    BY DEF EntryNeed, AllPages
  <2>2. QED
    BY <1>4, <2>1, NotificationsOpens
<1>5. CASE p = "profile"
  <2>1. EntryNeed["profile"] = Free /\ AllPages["profile"] = ProfilePage
    BY DEF EntryNeed, AllPages
  <2>2. QED
    BY <1>5, <2>1, ProfileOpens
<1>6. CASE p = "queue"
  <2>1. EntryNeed["queue"] = ShowAgentWorkspace /\ AllPages["queue"] = QueuePage
    BY DEF EntryNeed, AllPages
  <2>2. QED
    BY <1>6, <2>1, QueueOpens
<1>7. CASE p = "major"
  <2>1. EntryNeed["major"] = ShowAgentWorkspace /\ AllPages["major"] = MajorPage
    BY DEF EntryNeed, AllPages
  <2>2. QED
    BY <1>7, <2>1, MajorOpens
<1>8. CASE p = "problems"
  <2>1. EntryNeed["problems"] = ShowAgentWorkspace /\ AllPages["problems"] = ProblemsPage
    BY DEF EntryNeed, AllPages
  <2>2. QED
    BY <1>8, <2>1, ProblemsOpens
<1>9. CASE p = "changes"
  <2>1. EntryNeed["changes"] = ShowAgentWorkspace /\ AllPages["changes"] = ChangesPage
    BY DEF EntryNeed, AllPages
  <2>2. QED
    BY <1>9, <2>1, ChangesOpens
<1>10. CASE p = "im"
  <2>1. EntryNeed["im"] = Needs("im:read") /\ AllPages["im"] = ImPage
    BY DEF EntryNeed, AllPages
  <2>2. QED
    BY <1>10, <2>1, ImOpens
<1>11. CASE p = "approvals"
  <2>1. EntryNeed["approvals"] = Needs("approvals:read") /\ AllPages["approvals"] = ApprovalsPage
    BY DEF EntryNeed, AllPages
  <2>2. QED
    BY <1>11, <2>1, ApprovalsOpens
<1>12. CASE p = "assets"
  <2>1. EntryNeed["assets"] = Needs("assets:read") /\ AllPages["assets"] = AssetsPage
    BY DEF EntryNeed, AllPages
  <2>2. QED
    BY <1>12, <2>1, AssetsOpens
<1>13. CASE p = "reports"
  <2>1. EntryNeed["reports"] = Needs("reports:read") /\ AllPages["reports"] = ReportsPage
    BY DEF EntryNeed, AllPages
  <2>2. QED
    BY <1>13, <2>1, ReportsOpens
<1>14. CASE p = "audit"
  <2>1. EntryNeed["audit"] = Needs("audit:read") /\ AllPages["audit"] = AuditPage
    BY DEF EntryNeed, AllPages
  <2>2. QED
    BY <1>14, <2>1, AuditOpens
<1>15. CASE p = "users"
  <2>1. EntryNeed["users"] = Needs("users:manage") /\ AllPages["users"] = UsersPage
    BY DEF EntryNeed, AllPages
  <2>2. QED
    BY <1>15, <2>1, UsersOpens
<1>16. CASE p = "roles"
  <2>1. EntryNeed["roles"] = OneOf({"roles:manage", "users:manage"}) /\ AllPages["roles"] = RolesPage
    BY DEF EntryNeed, AllPages
  <2>2. QED
    BY <1>16, <2>1, RolesOpens
<1>17. CASE p = "teams"
  <2>1. EntryNeed["teams"] = Needs("org:manage") /\ AllPages["teams"] = TeamsPage
    BY DEF EntryNeed, AllPages
  <2>2. QED
    BY <1>17, <2>1, TeamsOpens
<1>18. CASE p = "departments"
  <2>1. EntryNeed["departments"] = Needs("org:manage") /\ AllPages["departments"] = DepartmentsPage
    BY DEF EntryNeed, AllPages
  <2>2. QED
    BY <1>18, <2>1, DepartmentsOpens
<1>19. CASE p = "locations"
  <2>1. EntryNeed["locations"] = Needs("org:manage") /\ AllPages["locations"] = LocationsPage
    BY DEF EntryNeed, AllPages
  <2>2. QED
    BY <1>19, <2>1, LocationsOpens
<1>20. CASE p = "routing"
  <2>1. EntryNeed["routing"] = OneOf({"settings:manage", "org:manage"}) /\ AllPages["routing"] = RoutingPage
    BY DEF EntryNeed, AllPages
  <2>2. QED
    BY <1>20, <2>1, RoutingOpens
<1>21. CASE p = "policies"
  <2>1. EntryNeed["policies"] = CanManageApprovalPolicies /\ AllPages["policies"] = PoliciesPage
    BY DEF EntryNeed, AllPages
  <2>2. QED
    BY <1>21, <2>1, PoliciesOpens
<1>22. CASE p = "automation"
  <2>1. EntryNeed["automation"] = Needs("settings:manage") /\ AllPages["automation"] = AutomationPage
    BY DEF EntryNeed, AllPages
  <2>2. QED
    BY <1>22, <2>1, AutomationOpens
<1>23. CASE p = "integrations"
  <2>1. EntryNeed["integrations"] = Needs("sysadmin") /\ AllPages["integrations"] = IntegrationsPage
    BY DEF EntryNeed, AllPages
  <2>2. QED
    BY <1>23, <2>1, IntegrationsOpens
<1>24. CASE p = "branding"
  <2>1. EntryNeed["branding"] = Needs("sysadmin") /\ AllPages["branding"] = BrandingPage
    BY DEF EntryNeed, AllPages
  <2>2. QED
    BY <1>24, <2>1, BrandingOpens
<1>25. CASE p = "new_article"
  <2>1. EntryNeed["new_article"] = Needs("knowledge:write") /\ AllPages["new_article"] = NewArticlePage
    BY DEF EntryNeed, AllPages
  <2>2. QED
    BY <1>25, <2>1, NewArticleOpens
<1>26. DOMAIN EntryNeed = {"home", "tickets", "catalog", "notifications", "profile", "queue", "major", "problems", "changes", "im", "approvals", "assets", "reports", "audit", "users", "roles", "teams", "departments", "locations", "routing", "policies", "automation", "integrations", "branding", "new_article"}
  BY DEF EntryNeed
<1>27. QED
  BY <1>1, <1>2, <1>3, <1>4, <1>5, <1>6, <1>7, <1>8, <1>9, <1>10, <1>11, <1>12, <1>13, <1>14,
     <1>15, <1>16, <1>17, <1>18, <1>19, <1>20, <1>21, <1>22, <1>23, <1>24, <1>25, <1>26

(***************************************************************************)
(* The buttons: their form, and what they send                             *)
(***************************************************************************)
(* The form of a button: a failure is shown or ignored; only the change of
   the password ends the session, by its last call; a ticket is created, and
   the board is read, by buttons that do not go by the tie to a ticket. *)
ButtonForm(p, b, content) ==
  /\ b # "none" /\ content.next \in PageNames \cup {"stay", "login"}
  /\ Len(content.sends) \in Nat /\ DOMAIN content.sends = 1..Len(content.sends)
  /\ \A i \in DOMAIN content.sends :
       /\ content.sends[i].fails \in {"error", "ignored"}
       /\ content.sends[i].call = "changePassword" => Len(content.sends) = 1
       /\ content.sends[i].call \in {"createTicket", "ticketBoard"}
            => p # "ticket" /\ content.offer \in {Free, WritesTickets}
       /\ content.sends[i].call = "createTicket" => p # "queue"
       /\ content.sends[i].call = "ticketBoard" => p = "queue"
  /\ p = "tickets" /\ b = "create" => content.sends[1] = Shown("createTicket")

FormOf(p, offers) == \A b \in DOMAIN offers : ButtonForm(p, b, offers[b])

LEMMA TicketsButtonsForm == FormOf("tickets", TicketsButtons)
<1> SUFFICES ASSUME NEW b \in DOMAIN TicketsButtons PROVE ButtonForm("tickets", b, TicketsButtons[b])
  BY DEF FormOf
<1>1. CASE b = "create"
  <2>1. /\ TicketsButtons["create"].next = "ticket" /\ Len(TicketsButtons["create"].sends) = 2
        /\ DOMAIN TicketsButtons["create"].sends = 1..2
        /\ TicketsButtons["create"].offer = WritesTickets /\ TicketsButtons["create"].sends[1] = Shown("createTicket")
    BY DEF TicketsButtons, LeadingTo
  <2>2. \A i \in 1..2 :
        TicketsButtons["create"].sends[i].fails \in {"error", "ignored"}
        /\ TicketsButtons["create"].sends[i].call \in {"createTicket", "uploadAttachment"}
    BY SMTT(30) DEF TicketsButtons, LeadingTo, Perhaps, Call, Shown
  <2>3. QED
    BY <1>1, <2>1, <2>2 DEF ButtonForm, PageNames
<1>2. CASE b = "assist"
  BY <1>2, SMTT(30) DEF PageNames, ButtonForm, TicketsButtons, Button, Shown, Call
<1>3. CASE b = "search"
  BY <1>3, SMTT(30) DEF PageNames, ButtonForm, TicketsButtons, Button, Shown, Call
<1>4. CASE b = "export"
  BY <1>4, SMTT(30) DEF PageNames, ButtonForm, TicketsButtons, Button, Shown, Call
<1>5. CASE b = "saveView"
  BY <1>5, SMTT(30) DEF PageNames, ButtonForm, TicketsButtons, Button, Shown, Call
<1>6. QED
  BY <1>1, <1>2, <1>3, <1>4, <1>5 DEF TicketsButtons

LEMMA TicketFormsForm == FormOf("ticket", TicketForms)
<1> SUFFICES ASSUME NEW b \in DOMAIN TicketForms PROVE ButtonForm("ticket", b, TicketForms[b])
  BY DEF FormOf
<1>1. CASE b = "status"
  BY <1>1, SMTT(30) DEF PageNames, ButtonForm, TicketForms, Button, Change, Call, Shown
<1>2. CASE b = "impact"
  BY <1>2, SMTT(30) DEF PageNames, ButtonForm, TicketForms, Button, Change, Call, Shown
<1>3. CASE b = "assignment"
  BY <1>3, SMTT(30) DEF PageNames, ButtonForm, TicketForms, Button, Change, Call, Shown
<1>4. CASE b = "location"
  BY <1>4, SMTT(30) DEF PageNames, ButtonForm, TicketForms, Button, Change, Call, Shown
<1>5. CASE b = "assignToMe"
  BY <1>5, SMTT(30) DEF PageNames, ButtonForm, TicketForms, Button, Change, Call, Shown
<1>6. CASE b = "analysis"
  BY <1>6, SMTT(30) DEF PageNames, ButtonForm, TicketForms, Button, Change, Call, Shown
<1>7. CASE b = "plan"
  BY <1>7, SMTT(30) DEF PageNames, ButtonForm, TicketForms, Button, Change, Call, Shown
<1>8. CASE b = "major"
  BY <1>8, SMTT(30) DEF PageNames, ButtonForm, TicketForms, Button, Change, Call, Shown
<1>9. CASE b = "restricted"
  BY <1>9, SMTT(30) DEF PageNames, ButtonForm, TicketForms, Button, Change, Call, Shown
<1>10. QED
  BY <1>1, <1>2, <1>3, <1>4, <1>5, <1>6, <1>7, <1>8, <1>9 DEF TicketForms

LEMMA TicketToolsForm == FormOf("ticket", TicketTools)
<1> SUFFICES ASSUME NEW b \in DOMAIN TicketTools PROVE ButtonForm("ticket", b, TicketTools[b])
  BY DEF FormOf
<1>1. CASE b = "cab"
  BY <1>1, SMTT(30) DEF PageNames, ButtonForm, TicketTools, Button, Shown, Call
<1>2. CASE b = "problem"
  BY <1>2, SMTT(30) DEF PageNames, ButtonForm, TicketTools, LeadingTo, Shown, Call
<1>3. CASE b = "comment"
  BY <1>3, SMTT(30) DEF PageNames, ButtonForm, TicketTools, Button, Shown, Call
<1>4. CASE b = "delete"
  BY <1>4, SMTT(30) DEF PageNames, ButtonForm, TicketTools, LeadingTo, Shown, Call
<1>5. CASE b = "link"
  BY <1>5, SMTT(30) DEF PageNames, ButtonForm, TicketTools, Button, Shown, Call
<1>6. CASE b = "unlink"
  BY <1>6, SMTT(30) DEF PageNames, ButtonForm, TicketTools, Button, Shown, Call
<1>7. CASE b = "merge"
  BY <1>7, SMTT(30) DEF PageNames, ButtonForm, TicketTools, Button, Optional, Call, Shown
<1>8. CASE b = "watch"
  BY <1>8, SMTT(30) DEF PageNames, ButtonForm, TicketTools, Button, Shown, Call
<1>9. CASE b = "unwatch"
  BY <1>9, SMTT(30) DEF PageNames, ButtonForm, TicketTools, Button, Shown, Call
<1>10. CASE b = "assist"
  BY <1>10, SMTT(30) DEF PageNames, ButtonForm, TicketTools, Button, Shown, Call, ShownIf
<1>11. CASE b = "workLog"
  BY <1>11, SMTT(30) DEF PageNames, ButtonForm, TicketTools, Button, Shown, Call
<1>12. CASE b = "attach"
  BY <1>12, SMTT(30) DEF PageNames, ButtonForm, TicketTools, Button, Shown, Call
<1>13. QED
  BY <1>1, <1>2, <1>3, <1>4, <1>5, <1>6, <1>7, <1>8, <1>9, <1>10, <1>11, <1>12 DEF TicketTools

LEMMA QueueButtonsForm == FormOf("queue", QueueButtons)
<1> SUFFICES ASSUME NEW b \in DOMAIN QueueButtons PROVE ButtonForm("queue", b, QueueButtons[b])
  BY DEF FormOf
<1>1. CASE b = "refresh"
  BY <1>1, SMTT(30) DEF PageNames, ButtonForm, QueueButtons, Button, Shown, Call
<1>2. CASE b = "move"
  BY <1>2, SMTT(30) DEF PageNames, ButtonForm, QueueButtons, Button, Change, Call, Shown
<1>3. QED
  BY <1>1, <1>2 DEF QueueButtons

LEMMA MajorButtonsForm == FormOf("major", MajorButtons)
  BY SMTT(30) DEF FormOf, PageNames, ButtonForm, MajorButtons, Button, Shown, Call

LEMMA ProblemsButtonsForm == FormOf("problems", ProblemsButtons)
  BY SMTT(30) DEF FormOf, PageNames, ButtonForm, ProblemsButtons, LeadingTo, Shown, Call

LEMMA ChangesButtonsForm == FormOf("changes", ChangesButtons)
  BY SMTT(30) DEF FormOf, PageNames, ButtonForm, ChangesButtons, LeadingTo, Shown, Call

LEMMA ImButtonsForm == FormOf("im", ImButtons)
<1> SUFFICES ASSUME NEW b \in DOMAIN ImButtons PROVE ButtonForm("im", b, ImButtons[b])
  BY DEF FormOf
<1>1. CASE b = "refresh"
  BY <1>1, SMTT(30) DEF PageNames, ButtonForm, ImButtons, Button, Shown, Call
<1>2. CASE b = "create"
  BY <1>2, SMTT(30) DEF PageNames, ButtonForm, ImButtons, LeadingTo, Shown, Call
<1>3. QED
  BY <1>1, <1>2 DEF ImButtons

LEMMA IncidentButtonsForm == FormOf("incident", IncidentButtons)
<1> SUFFICES ASSUME NEW b \in DOMAIN IncidentButtons PROVE ButtonForm("incident", b, IncidentButtons[b])
  BY DEF FormOf
<1>1. CASE b = "update"
  BY <1>1, SMTT(30) DEF PageNames, ButtonForm, IncidentButtons, Button, Shown, Call
<1>2. CASE b = "status"
  BY <1>2, SMTT(30) DEF PageNames, ButtonForm, IncidentButtons, Button, Shown, Call
<1>3. CASE b = "role"
  BY <1>3, SMTT(30) DEF PageNames, ButtonForm, IncidentButtons, Button, Shown, Call
<1>4. CASE b = "pir"
  BY <1>4, SMTT(30) DEF PageNames, ButtonForm, IncidentButtons, Button, Shown, Call
<1>5. QED
  BY <1>1, <1>2, <1>3, <1>4 DEF IncidentButtons

LEMMA ApprovalsButtonsForm == FormOf("approvals", ApprovalsButtons)
  BY SMTT(30) DEF FormOf, PageNames, ButtonForm, ApprovalsButtons, Button, Shown, Call

LEMMA AssetsButtonsForm == FormOf("assets", AssetsButtons)
<1> SUFFICES ASSUME NEW b \in DOMAIN AssetsButtons PROVE ButtonForm("assets", b, AssetsButtons[b])
  BY DEF FormOf
<1>1. CASE b = "select"
  BY <1>1, SMTT(30) DEF PageNames, ButtonForm, AssetsButtons, Button, Optional, Call, Shown
<1>2. CASE b = "filter"
  BY <1>2, SMTT(30) DEF PageNames, ButtonForm, AssetsButtons, Button, Shown, Call
<1>3. CASE b = "export"
  BY <1>3, SMTT(30) DEF PageNames, ButtonForm, AssetsButtons, Button, Shown, Call
<1>4. CASE b = "create"
  BY <1>4, SMTT(30) DEF PageNames, ButtonForm, AssetsButtons, Button, Shown, Call
<1>5. CASE b = "save"
  BY <1>5, SMTT(30) DEF PageNames, ButtonForm, AssetsButtons, Button, Shown, Call
<1>6. CASE b = "retire"
  BY <1>6, SMTT(30) DEF PageNames, ButtonForm, AssetsButtons, Button, Shown, Call
<1>7. CASE b = "addRelation"
  BY <1>7, SMTT(30) DEF PageNames, ButtonForm, AssetsButtons, Button, Shown, Call
<1>8. CASE b = "deleteRelation"
  BY <1>8, SMTT(30) DEF PageNames, ButtonForm, AssetsButtons, Button, Shown, Call
<1>9. CASE b = "import"
  BY <1>9, SMTT(30) DEF PageNames, ButtonForm, AssetsButtons, Button, Shown, Call
<1>10. QED
  BY <1>1, <1>2, <1>3, <1>4, <1>5, <1>6, <1>7, <1>8, <1>9 DEF AssetsButtons

LEMMA AuditButtonsForm == FormOf("audit", AuditButtons)
<1> SUFFICES ASSUME NEW b \in DOMAIN AuditButtons PROVE ButtonForm("audit", b, AuditButtons[b])
  BY DEF FormOf
<1>1. CASE b = "filter"
  BY <1>1, SMTT(30) DEF PageNames, ButtonForm, AuditButtons, Button, Shown, Call
<1>2. CASE b = "export"
  BY <1>2, SMTT(30) DEF PageNames, ButtonForm, AuditButtons, Button, Shown, Call
<1>3. CASE b = "create"
  BY <1>3, SMTT(30) DEF PageNames, ButtonForm, AuditButtons, Button, ThenExports, Shown, Call
<1>4. CASE b = "run"
  BY <1>4, SMTT(30) DEF PageNames, ButtonForm, AuditButtons, Button, ThenExports, Shown, Call
<1>5. CASE b = "toggle"
  BY <1>5, SMTT(30) DEF PageNames, ButtonForm, AuditButtons, Button, ThenExports, Shown, Call
<1>6. CASE b = "delete"
  BY <1>6, SMTT(30) DEF PageNames, ButtonForm, AuditButtons, Button, ThenExports, Shown, Call
<1>7. QED
  BY <1>1, <1>2, <1>3, <1>4, <1>5, <1>6 DEF AuditButtons

LEMMA CatalogButtonsForm == FormOf("catalog", CatalogButtons)
<1> SUFFICES ASSUME NEW b \in DOMAIN CatalogButtons PROVE ButtonForm("catalog", b, CatalogButtons[b])
  BY DEF FormOf
<1>1. CASE b = "create"
  BY <1>1, SMTT(30) DEF PageNames, ButtonForm, CatalogButtons, Button, Shown, Call
<1>2. CASE b = "save"
  BY <1>2, SMTT(30) DEF PageNames, ButtonForm, CatalogButtons, Button, Shown, Call
<1>3. CASE b = "request"
  BY <1>3, SMTT(30) DEF PageNames, ButtonForm, CatalogButtons, LeadingTo, Shown, Call
<1>4. QED
  BY <1>1, <1>2, <1>3 DEF CatalogButtons

LEMMA KnowledgeButtonsForm == FormOf("knowledge", KnowledgeButtons)
  BY SMTT(30) DEF FormOf, PageNames, ButtonForm, KnowledgeButtons, Button, Shown, Call

LEMMA ArticleButtonsForm == FormOf("article", ArticleButtons)
<1> SUFFICES ASSUME NEW b \in DOMAIN ArticleButtons PROVE ButtonForm("article", b, ArticleButtons[b])
  BY DEF FormOf
<1>1. CASE b = "save"
  BY <1>1, SMTT(30) DEF PageNames, ButtonForm, ArticleButtons, Button, Shown, Call
<1>2. CASE b = "publish"
  BY <1>2, SMTT(30) DEF PageNames, ButtonForm, ArticleButtons, Button, Shown, Call
<1>3. CASE b = "media"
  BY <1>3, SMTT(30) DEF PageNames, ButtonForm, ArticleButtons, Button, Shown, Call
<1>4. CASE b = "feedback"
  BY <1>4, SMTT(30) DEF PageNames, ButtonForm, ArticleButtons, Button, Shown, Call
<1>5. QED
  BY <1>1, <1>2, <1>3, <1>4 DEF ArticleButtons

LEMMA NewArticleButtonsForm == FormOf("new_article", NewArticleButtons)
<1> SUFFICES ASSUME NEW b \in DOMAIN NewArticleButtons PROVE ButtonForm("new_article", b, NewArticleButtons[b])
  BY DEF FormOf
<1>1. CASE b = "submit"
  BY <1>1, SMTT(30) DEF PageNames, ButtonForm, NewArticleButtons, LeadingTo, Perhaps, Call,
     Shown
<1>2. CASE b = "media"
  BY <1>2, SMTT(30) DEF PageNames, ButtonForm, NewArticleButtons, Button, Shown, Call
<1>3. QED
  BY <1>1, <1>2 DEF NewArticleButtons

LEMMA NotificationsButtonsForm == FormOf("notifications", NotificationsButtons)
<1> SUFFICES ASSUME NEW b \in DOMAIN NotificationsButtons PROVE ButtonForm("notifications", b, NotificationsButtons[b])
  BY DEF FormOf
<1>1. CASE b = "read"
  BY <1>1, SMTT(30) DEF PageNames, ButtonForm, NotificationsButtons, Button, Optional, Call,
     Shown
<1>2. CASE b = "open"
  BY <1>2, SMTT(30) DEF PageNames, ButtonForm, NotificationsButtons, LeadingTo, Optional, Call,
     Shown
<1>3. CASE b = "readAll"
  BY <1>3, SMTT(30) DEF PageNames, ButtonForm, NotificationsButtons, Button, Shown, Call
<1>4. QED
  BY <1>1, <1>2, <1>3 DEF NotificationsButtons

LEMMA ProfileButtonsForm == FormOf("profile", ProfileButtons)
<1> SUFFICES ASSUME NEW b \in DOMAIN ProfileButtons PROVE ButtonForm("profile", b, ProfileButtons[b])
  BY DEF FormOf
<1>1. CASE b = "save"
  BY <1>1, SMTT(30) DEF PageNames, ButtonForm, ProfileButtons, Button, Shown, Call
<1>2. CASE b = "changePassword"
  BY <1>2, SMTT(30) DEF PageNames, ButtonForm, ProfileButtons, LeadingTo, Shown, Call
<1>3. CASE b = "setupMfa"
  BY <1>3, SMTT(30) DEF PageNames, ButtonForm, ProfileButtons, Button, Shown, Call
<1>4. CASE b = "confirmMfa"
  BY <1>4, SMTT(30) DEF PageNames, ButtonForm, ProfileButtons, Button, Shown, Call
<1>5. CASE b = "cancelMfa"
  BY <1>5, SMTT(30) DEF PageNames, ButtonForm, ProfileButtons, Button, Optional, Call, Shown
<1>6. CASE b = "disableMfa"
  BY <1>6, SMTT(30) DEF PageNames, ButtonForm, ProfileButtons, Button, Shown, Call
<1>7. CASE b = "preference"
  BY <1>7, SMTT(30) DEF PageNames, ButtonForm, ProfileButtons, Button, Shown, Call
<1>8. CASE b = "digest"
  BY <1>8, SMTT(30) DEF PageNames, ButtonForm, ProfileButtons, Button, Shown, Call
<1>9. QED
  BY <1>1, <1>2, <1>3, <1>4, <1>5, <1>6, <1>7, <1>8 DEF ProfileButtons

LEMMA ReportsButtonsForm == FormOf("reports", ReportsButtons)
<1> SUFFICES ASSUME NEW b \in DOMAIN ReportsButtons PROVE ButtonForm("reports", b, ReportsButtons[b])
  BY DEF FormOf
<1>1. CASE b = "apply"
  BY <1>1, SMTT(30) DEF PageNames, ButtonForm, ReportsButtons, Button, Shown, Call
<1>2. CASE b = "csv"
  BY <1>2, SMTT(30) DEF PageNames, ButtonForm, ReportsButtons, Button, Shown, Call
<1>3. CASE b = "pdf"
  BY <1>3, SMTT(30) DEF PageNames, ButtonForm, ReportsButtons, Button, Shown, Call
<1>4. CASE b = "create"
  BY <1>4, SMTT(30) DEF PageNames, ButtonForm, ReportsButtons, Button, Shown, Call
<1>5. CASE b = "run"
  BY <1>5, SMTT(30) DEF PageNames, ButtonForm, ReportsButtons, Button, Shown, Call
<1>6. CASE b = "toggle"
  BY <1>6, SMTT(30) DEF PageNames, ButtonForm, ReportsButtons, Button, Shown, Call
<1>7. CASE b = "delete"
  BY <1>7, SMTT(30) DEF PageNames, ButtonForm, ReportsButtons, Button, Shown, Call
<1>8. QED
  BY <1>1, <1>2, <1>3, <1>4, <1>5, <1>6, <1>7 DEF ReportsButtons

LEMMA UsersButtonsForm == FormOf("users", UsersButtons)
<1> SUFFICES ASSUME NEW b \in DOMAIN UsersButtons PROVE ButtonForm("users", b, UsersButtons[b])
  BY DEF FormOf
<1>1. CASE b = "create"
  BY <1>1, SMTT(30) DEF PageNames, ButtonForm, UsersButtons, Button, Shown, Call
<1>2. CASE b = "save"
  BY <1>2, SMTT(30) DEF PageNames, ButtonForm, UsersButtons, Button, Shown, Call
<1>3. CASE b = "reset"
  BY <1>3, SMTT(30) DEF PageNames, ButtonForm, UsersButtons, Button, Shown, Call
<1>4. CASE b = "delete"
  BY <1>4, SMTT(30) DEF PageNames, ButtonForm, UsersButtons, Button, Shown, Call
<1>5. QED
  BY <1>1, <1>2, <1>3, <1>4 DEF UsersButtons

LEMMA RolesButtonsForm == FormOf("roles", RolesButtons)
<1> SUFFICES ASSUME NEW b \in DOMAIN RolesButtons PROVE ButtonForm("roles", b, RolesButtons[b])
  BY DEF FormOf
<1>1. CASE b = "save"
  <2>1. /\ RolesButtons["save"].next = "stay" /\ Len(RolesButtons["save"].sends) = 5
        /\ DOMAIN RolesButtons["save"].sends = 1..5
    BY DEF RolesButtons, Button, Optional, Call, Perhaps, Shown
  <2>2. \A i \in 1..5 :
        RolesButtons["save"].sends[i].fails \in {"error", "ignored"}
        /\ RolesButtons["save"].sends[i].call \in {"setUserAccess", "updateUser", "rolesMatrix", "listUsers", "listLocations"}
    BY SMTT(30) DEF RolesButtons, Button, Optional, Call, Perhaps, Shown
  <2>3. QED
    BY <1>1, <2>1, <2>2 DEF ButtonForm, PageNames
<1>2. QED
  BY <1>1 DEF RolesButtons

LEMMA TeamsButtonsForm == FormOf("teams", TeamsButtons)
<1> SUFFICES ASSUME NEW b \in DOMAIN TeamsButtons PROVE ButtonForm("teams", b, TeamsButtons[b])
  BY DEF FormOf
<1>1. CASE b = "create"
  <2>1. /\ TeamsButtons["create"].next = "stay" /\ Len(TeamsButtons["create"].sends) = 4
        /\ DOMAIN TeamsButtons["create"].sends = 1..4
    BY DEF TeamsButtons, Button, ThenTeams, Shown, Call
  <2>2. \A i \in 1..4 :
        TeamsButtons["create"].sends[i].fails \in {"error", "ignored"}
        /\ TeamsButtons["create"].sends[i].call \in {"createTeam", "listTeams", "listLocations", "listDepartments"}
    BY SMTT(30) DEF TeamsButtons, Button, ThenTeams, Shown, Call
  <2>3. QED
    BY <1>1, <2>1, <2>2 DEF ButtonForm, PageNames
<1>2. CASE b = "save"
  <2>1. /\ TeamsButtons["save"].next = "stay" /\ Len(TeamsButtons["save"].sends) = 4
        /\ DOMAIN TeamsButtons["save"].sends = 1..4
    BY DEF TeamsButtons, Button, ThenTeams, Shown, Call
  <2>2. \A i \in 1..4 :
        TeamsButtons["save"].sends[i].fails \in {"error", "ignored"}
        /\ TeamsButtons["save"].sends[i].call \in {"updateTeam", "listTeams", "listLocations", "listDepartments"}
    BY SMTT(30) DEF TeamsButtons, Button, ThenTeams, Shown, Call
  <2>3. QED
    BY <1>2, <2>1, <2>2 DEF ButtonForm, PageNames
<1>3. CASE b = "addMember"
  <2>1. /\ TeamsButtons["addMember"].next = "stay" /\ Len(TeamsButtons["addMember"].sends) = 4
        /\ DOMAIN TeamsButtons["addMember"].sends = 1..4
    BY DEF TeamsButtons, Button, ThenTeams, Shown, Call
  <2>2. \A i \in 1..4 :
        TeamsButtons["addMember"].sends[i].fails \in {"error", "ignored"}
        /\ TeamsButtons["addMember"].sends[i].call \in {"addTeamMember", "listTeams", "listLocations", "listDepartments"}
    BY SMTT(30) DEF TeamsButtons, Button, ThenTeams, Shown, Call
  <2>3. QED
    BY <1>3, <2>1, <2>2 DEF ButtonForm, PageNames
<1>4. CASE b = "removeMember"
  <2>1. /\ TeamsButtons["removeMember"].next = "stay" /\ Len(TeamsButtons["removeMember"].sends) = 4
        /\ DOMAIN TeamsButtons["removeMember"].sends = 1..4
    BY DEF TeamsButtons, Button, ThenTeams, Shown, Call
  <2>2. \A i \in 1..4 :
        TeamsButtons["removeMember"].sends[i].fails \in {"error", "ignored"}
        /\ TeamsButtons["removeMember"].sends[i].call \in {"removeTeamMember", "listTeams", "listLocations", "listDepartments"}
    BY SMTT(30) DEF TeamsButtons, Button, ThenTeams, Shown, Call
  <2>3. QED
    BY <1>4, <2>1, <2>2 DEF ButtonForm, PageNames
<1>5. QED
  BY <1>1, <1>2, <1>3, <1>4 DEF TeamsButtons

LEMMA DepartmentsButtonsForm == FormOf("departments", DepartmentsButtons)
<1> SUFFICES ASSUME NEW b \in DOMAIN DepartmentsButtons PROVE ButtonForm("departments", b, DepartmentsButtons[b])
  BY DEF FormOf
<1>1. CASE b = "create"
  BY <1>1, SMTT(30) DEF PageNames, ButtonForm, DepartmentsButtons, Button, Shown, Call
<1>2. CASE b = "save"
  BY <1>2, SMTT(30) DEF PageNames, ButtonForm, DepartmentsButtons, Button, Shown, Call
<1>3. CASE b = "deactivate"
  BY <1>3, SMTT(30) DEF PageNames, ButtonForm, DepartmentsButtons, Button, Shown, Call
<1>4. QED
  BY <1>1, <1>2, <1>3 DEF DepartmentsButtons

LEMMA LocationsButtonsForm == FormOf("locations", LocationsButtons)
<1> SUFFICES ASSUME NEW b \in DOMAIN LocationsButtons PROVE ButtonForm("locations", b, LocationsButtons[b])
  BY DEF FormOf
<1>1. CASE b = "create"
  BY <1>1, SMTT(30) DEF PageNames, ButtonForm, LocationsButtons, Button, Shown, Call
<1>2. CASE b = "save"
  BY <1>2, SMTT(30) DEF PageNames, ButtonForm, LocationsButtons, Button, Shown, Call
<1>3. CASE b = "deactivate"
  BY <1>3, SMTT(30) DEF PageNames, ButtonForm, LocationsButtons, Button, Shown, Call
<1>4. QED
  BY <1>1, <1>2, <1>3 DEF LocationsButtons

LEMMA RoutingButtonsForm == FormOf("routing", RoutingButtons)
<1> SUFFICES ASSUME NEW b \in DOMAIN RoutingButtons PROVE ButtonForm("routing", b, RoutingButtons[b])
  BY DEF FormOf
<1>1. CASE b = "createSla"
  BY <1>1, SMTT(30) DEF PageNames, ButtonForm, RoutingButtons, Button, Shown, Call
<1>2. CASE b = "createRule"
  BY <1>2, SMTT(30) DEF PageNames, ButtonForm, RoutingButtons, Button, Shown, Call
<1>3. CASE b = "createSkill"
  BY <1>3, SMTT(30) DEF PageNames, ButtonForm, RoutingButtons, Button, Shown, Call
<1>4. CASE b = "loadSkills"
  BY <1>4, SMTT(30) DEF PageNames, ButtonForm, RoutingButtons, Button, Shown, Call
<1>5. CASE b = "saveSkills"
  BY <1>5, SMTT(30) DEF PageNames, ButtonForm, RoutingButtons, Button, Shown, Call
<1>6. QED
  BY <1>1, <1>2, <1>3, <1>4, <1>5 DEF RoutingButtons

LEMMA PoliciesButtonsForm == FormOf("policies", PoliciesButtons)
<1> SUFFICES ASSUME NEW b \in DOMAIN PoliciesButtons PROVE ButtonForm("policies", b, PoliciesButtons[b])
  BY DEF FormOf
<1>1. CASE b = "create"
  BY <1>1, SMTT(30) DEF PageNames, ButtonForm, PoliciesButtons, Button, Shown, Call
<1>2. CASE b = "edit"
  BY <1>2, SMTT(30) DEF PageNames, ButtonForm, PoliciesButtons, Button, Shown, Call
<1>3. QED
  BY <1>1, <1>2 DEF PoliciesButtons

LEMMA AutomationButtonsForm == FormOf("automation", AutomationButtons)
<1> SUFFICES ASSUME NEW b \in DOMAIN AutomationButtons PROVE ButtonForm("automation", b, AutomationButtons[b])
  BY DEF FormOf
<1>1. CASE b = "create"
  BY <1>1, SMTT(30) DEF PageNames, ButtonForm, AutomationButtons, Button, Shown, Call
<1>2. CASE b = "toggle"
  BY <1>2, SMTT(30) DEF PageNames, ButtonForm, AutomationButtons, Button, Shown, Call
<1>3. QED
  BY <1>1, <1>2 DEF AutomationButtons

LEMMA IntegrationsButtonsForm == FormOf("integrations", IntegrationsButtons)
<1> SUFFICES ASSUME NEW b \in DOMAIN IntegrationsButtons PROVE ButtonForm("integrations", b, IntegrationsButtons[b])
  BY DEF FormOf
<1>1. CASE b = "refresh"
  BY <1>1, SMTT(30) DEF PageNames, ButtonForm, IntegrationsButtons, Button, Shown, Call
<1>2. CASE b = "simulate"
  BY <1>2, SMTT(30) DEF PageNames, ButtonForm, IntegrationsButtons, Button, Shown, Call
<1>3. CASE b = "poll"
  BY <1>3, SMTT(30) DEF PageNames, ButtonForm, IntegrationsButtons, Button, Shown, Call
<1>4. CASE b = "create"
  BY <1>4, SMTT(30) DEF PageNames, ButtonForm, IntegrationsButtons, Button, Shown, Call
<1>5. CASE b = "save"
  BY <1>5, SMTT(30) DEF PageNames, ButtonForm, IntegrationsButtons, Button, Shown, Call
<1>6. CASE b = "test"
  BY <1>6, SMTT(30) DEF PageNames, ButtonForm, IntegrationsButtons, Button, Perhaps, Call, Shown
<1>7. CASE b = "deliveries"
  BY <1>7, SMTT(30) DEF PageNames, ButtonForm, IntegrationsButtons, Button, Shown, Call
<1>8. CASE b = "delete"
  BY <1>8, SMTT(30) DEF PageNames, ButtonForm, IntegrationsButtons, Button, Shown, Call
<1>9. QED
  BY <1>1, <1>2, <1>3, <1>4, <1>5, <1>6, <1>7, <1>8 DEF IntegrationsButtons

LEMMA BrandingButtonsForm == FormOf("branding", BrandingButtons)
<1> SUFFICES ASSUME NEW b \in DOMAIN BrandingButtons PROVE ButtonForm("branding", b, BrandingButtons[b])
  BY DEF FormOf
<1>1. CASE b = "saveAssets"
  BY <1>1, SMTT(30) DEF PageNames, ButtonForm, BrandingButtons, Button, Perhaps, Call, Shown
<1>2. CASE b = "saveTheme"
  BY <1>2, SMTT(30) DEF PageNames, ButtonForm, BrandingButtons, Button, Shown, Call
<1>3. CASE b = "reset"
  BY <1>3, SMTT(30) DEF PageNames, ButtonForm, BrandingButtons, Button, Shown, Call
<1>4. QED
  BY <1>1, <1>2, <1>3 DEF BrandingButtons

LEMMA TicketButtonsForm == FormOf("ticket", TicketButtons)
<1>1. \A b \in DOMAIN TicketButtons :
        /\ b \in DOMAIN TicketForms \cup DOMAIN TicketTools
        /\ TicketButtons[b] = IF b \in DOMAIN TicketForms THEN TicketForms[b] ELSE TicketTools[b]
  BY DEF TicketButtons
<1>2. QED
  BY <1>1, TicketFormsForm, TicketToolsForm DEF FormOf

LEMMA ButtonForms ==
  ASSUME NEW p \in DOMAIN ButtonsOf
  PROVE  p \in PageNames /\ FormOf(p, ButtonsOf[p])
<1>1. CASE p = "tickets"
  <2>1. ButtonsOf["tickets"] = TicketsButtons
    BY DEF ButtonsOf
  <2>2. QED
    BY <1>1, <2>1, TicketsButtonsForm DEF PageNames
<1>2. CASE p = "ticket"
  <2>1. ButtonsOf["ticket"] = TicketButtons
    BY DEF ButtonsOf
  <2>2. QED
    BY <1>2, <2>1, TicketButtonsForm DEF PageNames
<1>3. CASE p = "queue"
  <2>1. ButtonsOf["queue"] = QueueButtons
    BY DEF ButtonsOf
  <2>2. QED
    BY <1>3, <2>1, QueueButtonsForm DEF PageNames
<1>4. CASE p = "major"
  <2>1. ButtonsOf["major"] = MajorButtons
    BY DEF ButtonsOf
  <2>2. QED
    BY <1>4, <2>1, MajorButtonsForm DEF PageNames
<1>5. CASE p = "problems"
  <2>1. ButtonsOf["problems"] = ProblemsButtons
    BY DEF ButtonsOf
  <2>2. QED
    BY <1>5, <2>1, ProblemsButtonsForm DEF PageNames
<1>6. CASE p = "changes"
  <2>1. ButtonsOf["changes"] = ChangesButtons
    BY DEF ButtonsOf
  <2>2. QED
    BY <1>6, <2>1, ChangesButtonsForm DEF PageNames
<1>7. CASE p = "im"
  <2>1. ButtonsOf["im"] = ImButtons
    BY DEF ButtonsOf
  <2>2. QED
    BY <1>7, <2>1, ImButtonsForm DEF PageNames
<1>8. CASE p = "incident"
  <2>1. ButtonsOf["incident"] = IncidentButtons
    BY DEF ButtonsOf
  <2>2. QED
    BY <1>8, <2>1, IncidentButtonsForm DEF PageNames
<1>9. CASE p = "approvals"
  <2>1. ButtonsOf["approvals"] = ApprovalsButtons
    BY DEF ButtonsOf
  <2>2. QED
    BY <1>9, <2>1, ApprovalsButtonsForm DEF PageNames
<1>10. CASE p = "assets"
  <2>1. ButtonsOf["assets"] = AssetsButtons
    BY DEF ButtonsOf
  <2>2. QED
    BY <1>10, <2>1, AssetsButtonsForm DEF PageNames
<1>11. CASE p = "audit"
  <2>1. ButtonsOf["audit"] = AuditButtons
    BY DEF ButtonsOf
  <2>2. QED
    BY <1>11, <2>1, AuditButtonsForm DEF PageNames
<1>12. CASE p = "catalog"
  <2>1. ButtonsOf["catalog"] = CatalogButtons
    BY DEF ButtonsOf
  <2>2. QED
    BY <1>12, <2>1, CatalogButtonsForm DEF PageNames
<1>13. CASE p = "knowledge"
  <2>1. ButtonsOf["knowledge"] = KnowledgeButtons
    BY DEF ButtonsOf
  <2>2. QED
    BY <1>13, <2>1, KnowledgeButtonsForm DEF PageNames
<1>14. CASE p = "article"
  <2>1. ButtonsOf["article"] = ArticleButtons
    BY DEF ButtonsOf
  <2>2. QED
    BY <1>14, <2>1, ArticleButtonsForm DEF PageNames
<1>15. CASE p = "new_article"
  <2>1. ButtonsOf["new_article"] = NewArticleButtons
    BY DEF ButtonsOf
  <2>2. QED
    BY <1>15, <2>1, NewArticleButtonsForm DEF PageNames
<1>16. CASE p = "notifications"
  <2>1. ButtonsOf["notifications"] = NotificationsButtons
    BY DEF ButtonsOf
  <2>2. QED
    BY <1>16, <2>1, NotificationsButtonsForm DEF PageNames
<1>17. CASE p = "profile"
  <2>1. ButtonsOf["profile"] = ProfileButtons
    BY DEF ButtonsOf
  <2>2. QED
    BY <1>17, <2>1, ProfileButtonsForm DEF PageNames
<1>18. CASE p = "reports"
  <2>1. ButtonsOf["reports"] = ReportsButtons
    BY DEF ButtonsOf
  <2>2. QED
    BY <1>18, <2>1, ReportsButtonsForm DEF PageNames
<1>19. CASE p = "users"
  <2>1. ButtonsOf["users"] = UsersButtons
    BY DEF ButtonsOf
  <2>2. QED
    BY <1>19, <2>1, UsersButtonsForm DEF PageNames
<1>20. CASE p = "roles"
  <2>1. ButtonsOf["roles"] = RolesButtons
    BY DEF ButtonsOf
  <2>2. QED
    BY <1>20, <2>1, RolesButtonsForm DEF PageNames
<1>21. CASE p = "teams"
  <2>1. ButtonsOf["teams"] = TeamsButtons
    BY DEF ButtonsOf
  <2>2. QED
    BY <1>21, <2>1, TeamsButtonsForm DEF PageNames
<1>22. CASE p = "departments"
  <2>1. ButtonsOf["departments"] = DepartmentsButtons
    BY DEF ButtonsOf
  <2>2. QED
    BY <1>22, <2>1, DepartmentsButtonsForm DEF PageNames
<1>23. CASE p = "locations"
  <2>1. ButtonsOf["locations"] = LocationsButtons
    BY DEF ButtonsOf
  <2>2. QED
    BY <1>23, <2>1, LocationsButtonsForm DEF PageNames
<1>24. CASE p = "routing"
  <2>1. ButtonsOf["routing"] = RoutingButtons
    BY DEF ButtonsOf
  <2>2. QED
    BY <1>24, <2>1, RoutingButtonsForm DEF PageNames
<1>25. CASE p = "policies"
  <2>1. ButtonsOf["policies"] = PoliciesButtons
    BY DEF ButtonsOf
  <2>2. QED
    BY <1>25, <2>1, PoliciesButtonsForm DEF PageNames
<1>26. CASE p = "automation"
  <2>1. ButtonsOf["automation"] = AutomationButtons
    BY DEF ButtonsOf
  <2>2. QED
    BY <1>26, <2>1, AutomationButtonsForm DEF PageNames
<1>27. CASE p = "integrations"
  <2>1. ButtonsOf["integrations"] = IntegrationsButtons
    BY DEF ButtonsOf
  <2>2. QED
    BY <1>27, <2>1, IntegrationsButtonsForm DEF PageNames
<1>28. CASE p = "branding"
  <2>1. ButtonsOf["branding"] = BrandingButtons
    BY DEF ButtonsOf
  <2>2. QED
    BY <1>28, <2>1, BrandingButtonsForm DEF PageNames
<1>29. DOMAIN ButtonsOf = {"tickets", "ticket", "queue", "major", "problems", "changes", "im", "incident", "approvals", "assets", "audit", "catalog", "knowledge", "article", "new_article", "notifications", "profile", "reports", "users", "roles", "teams", "departments", "locations", "routing", "policies", "automation", "integrations", "branding"}
  BY DEF ButtonsOf
<1>30. QED
  BY <1>1, <1>2, <1>3, <1>4, <1>5, <1>6, <1>7, <1>8, <1>9, <1>10, <1>11, <1>12, <1>13, <1>14,
     <1>15, <1>16, <1>17, <1>18, <1>19, <1>20, <1>21, <1>22, <1>23, <1>24, <1>25, <1>26, <1>27,
     <1>28, <1>29

(* The visitor of a page: the gate was met, and the page of a ticket and the
   board show the ticket. *)
Inside(U, H, C, p, gate) ==
  /\ Visitor(U, H, C) /\ Meets(U, gate)
  /\ p \in {"ticket", "queue"} => Meets(C, {Visible})

(* What the visitor needs besides where page and API disagree, and for the
   file that follows a new ticket. *)
Besides(C, p, b, i) ==
  /\ Agree(C, p, b)
  /\ p = "tickets" /\ b = "create" /\ i = 2 => "requester" \in C

Works(U, H, C, p, gate, offers) ==
  Inside(U, H, C, p, gate) =>
    \A b \in DOMAIN offers : Meets(H, offers[b].offer) =>
      \A i \in DOMAIN offers[b].sends :
        Besides(C, p, b, i) => Served(H, C, offers[b].sends[i])

LEMMA TicketsButtonsWork ==
  ASSUME NEW U, NEW H, NEW C
  PROVE  Works(U, H, C, "tickets", Free, TicketsButtons)
<1> SUFFICES ASSUME Inside(U, H, C, "tickets", Free),
                    NEW b \in DOMAIN TicketsButtons, Meets(H, TicketsButtons[b].offer),
                    NEW i \in DOMAIN TicketsButtons[b].sends, Besides(C, "tickets", b, i)
             PROVE  Served(H, C, TicketsButtons[b].sends[i])
  BY DEF Works
<1>0. /\ Visitor(U, H, C) /\ Meets(U, Free)
  BY DEF Inside
<1>1. ASSUME Meets(H, WritesTickets)
      PROVE  /\ Guard(C, Reached["createTicket"], {})
             /\ "requester" \in C => Guard(C, Reached["uploadAttachment"], {})
  <2>1. /\ Meets(C, OneOf(Writes))
        /\ "requester" \in C => Meets(C, {AttachmentReaders, {"requester"} \cup Writes})
    BY <1>0, <1>1, RolesGrant
      DEF Inside, Meets, Visitor, Needs, OneOf, Free, WritesTickets, Writes, AttachmentReaders
  <2>2. QED
    BY <2>1, Granted, AttachmentCallsAsk, TicketListCallsAsk
<1>2. ASSUME Meets(H, WritesTickets), "knowledge:read" \in C
      PROVE  /\ Guard(C, Reached["aiClassify"], {})
             /\ Guard(C, Reached["aiDuplicates"], {})
             /\ Guard(C, Reached["aiSuggestKnowledge"], {})
  <2>1. /\ Meets(C, OneOf(Writes))
        /\ Meets(C, Needs("knowledge:read"))
    BY <1>0, <1>2, RolesGrant
      DEF Inside, Meets, Visitor, Needs, OneOf, Free, WritesTickets, Writes
  <2>2. QED
    BY <2>1, Granted, AiCallsAsk
<1>3. /\ Guard(C, Reached["listTickets"], {})
      /\ Guard(C, Reached["downloadTicketsCsv"], {})
      /\ Guard(C, Reached["createSavedView"], {})
      /\ Guard(C, Reached["listSavedViews"], {})
  <2>1. Meets(C, Free)
    BY <1>0, RolesGrant
      DEF Inside, Meets, Visitor, Free
  <2>2. QED
    BY <2>1, Granted, DownloadCallsAsk, TicketListCallsAsk, TicketViewCallsAsk
<1>4. CASE b = "create"
  BY <1>4, <1>1
    DEF Besides, Served, TicketsButtons, LeadingTo, Perhaps, Call, Shown
<1>5. CASE b = "assist"
  <2>1. "knowledge:read" \in C
    BY <1>5, AgreementGives DEF Besides
  <2>2. QED
    BY <1>5, <1>2, <2>1 DEF Served, TicketsButtons, Button, Shown, Call
<1>6. CASE b = "search"
  BY <1>6, <1>3 DEF Served, TicketsButtons, Button, Shown, Call
<1>7. CASE b = "export"
  BY <1>7, <1>3 DEF Served, TicketsButtons, Button, Shown, Call
<1>8. CASE b = "saveView"
  BY <1>8, <1>3 DEF Served, TicketsButtons, Button, Shown, Call
<1>9. QED
  BY <1>4, <1>5, <1>6, <1>7, <1>8 DEF TicketsButtons

LEMMA TicketFormsWork ==
  ASSUME NEW U, NEW H, NEW C
  PROVE  Works(U, H, C, "ticket", Free, TicketForms)
<1> SUFFICES ASSUME Inside(U, H, C, "ticket", Free),
                    NEW b \in DOMAIN TicketForms, Meets(H, TicketForms[b].offer),
                    NEW i \in DOMAIN TicketForms[b].sends, Besides(C, "ticket", b, i)
             PROVE  Served(H, C, TicketForms[b].sends[i])
  BY DEF Works
<1>0. /\ Visitor(U, H, C) /\ Meets(U, Free)
      /\ Meets(C, {Visible})
  BY DEF Inside
<1>1. ASSUME Meets(H, OneOf(StaffTickets \cup {"requester"})), Meets(C, WriterNeed)
      PROVE  Guard(C, Reached["updateTicket"], {"status"})
  <2>1. /\ Meets(C, {Visible, {"requester"} \cup Writes})
        /\ Meets(C, {StaffTickets \cup {"requester"}})
    BY <1>0, <1>1, RolesGrant, SMTT(30)
      DEF WriterNeed, Inside, Meets, Visitor, OneOf, Free, StaffTickets, Visible, Writes
  <2>2. QED
    BY <2>1, Granted, GrantedFields, FieldNeeds, TicketRowCallsAsk
<1>2. ASSUME Meets(H, ShowAgentWorkspace), Meets(C, WriterNeed)
      PROVE  Guard(C, Reached["updateTicket"], {"impact"})
  <2>1. /\ Meets(C, {Visible, {"requester"} \cup Writes})
        /\ Meets(C, Free)
    BY <1>0, <1>2, RolesGrant, SMTT(30)
      DEF WriterNeed, Inside, Meets, Visitor, OneOf, Free, ShowAgentWorkspace, Visible, Writes
  <2>2. QED
    BY <2>1, Granted, GrantedFields, FieldNeeds, TicketRowCallsAsk
<1>3. ASSUME Meets(H, Needs("tickets:assign")), Meets(C, WriterNeed)
      PROVE  /\ Meets(C, {StaffTickets}) => Guard(C, Reached["updateTicket"], {"assignment", "location"})
             /\ Meets(C, MoverNeed)
                  => Guard(C, Reached["updateTicket"], {"assignment", "status"})
  <2>1. /\ Meets(C, {Visible, {"requester"} \cup Writes})
        /\ Meets(C, Needs("tickets:assign"))
    BY <1>0, <1>3, RolesGrant, SMTT(30)
      DEF WriterNeed, Inside, Meets, Visitor, Needs, Free, Visible, Writes
  <2>2. QED
    BY <2>1, Granted, GrantedFields, FieldNeeds, TicketRowCallsAsk DEF MoverNeed
<1>4. ASSUME Meets(H, OneOf(StaffTickets)), Meets(C, WriterNeed)
      PROVE  Guard(C, Reached["updateTicket"], {"location"})
  <2>1. /\ Meets(C, {Visible, {"requester"} \cup Writes})
        /\ Meets(C, {StaffTickets})
    BY <1>0, <1>4, RolesGrant, SMTT(30)
      DEF WriterNeed, Inside, Meets, Visitor, OneOf, Free, StaffTickets, Visible, Writes
  <2>2. QED
    BY <2>1, Granted, GrantedFields, FieldNeeds, TicketRowCallsAsk
<1>5. ASSUME Meets(H, WritesTickets), Meets(C, {StaffTickets})
      PROVE  /\ Guard(C, Reached["updateTicket"], {"analysis"})
             /\ Guard(C, Reached["updateTicket"], {"plan"})
  <2>1. /\ Meets(C, {Visible, {"requester"} \cup Writes})
        /\ Meets(C, {StaffTickets})
    BY <1>0, <1>5, RolesGrant, SMTT(30)
      DEF WriterNeed, Inside, Meets, Visitor, Needs, Free, WritesTickets, StaffTickets, Visible, Writes
  <2>2. QED
    BY <2>1, Granted, GrantedFields, FieldNeeds, TicketRowCallsAsk
<1>6. ASSUME Meets(H, OneOf(QueueReader)), Meets(C, WriterNeed)
      PROVE  Guard(C, Reached["updateTicket"], {"major"})
  <2>1. /\ Meets(C, {Visible, {"requester"} \cup Writes})
        /\ Meets(C, {StaffTickets})
    BY <1>0, <1>6, RolesGrant, SMTT(30)
      DEF WriterNeed, Inside, Meets, Visitor, OneOf, Free, StaffTickets, Visible, Writes, QueueReader
  <2>2. QED
    BY <2>1, Granted, GrantedFields, FieldNeeds, TicketRowCallsAsk
<1>7. ASSUME Meets(H, WritesTickets)
      PROVE  Guard(C, Reached["updateTicket"], {"restricted"})
  <2>1. /\ Meets(C, {Visible, {"requester"} \cup Writes})
        /\ Meets(C, {Writes})
    BY <1>0, <1>7, RolesGrant, SMTT(30)
      DEF WriterNeed, Inside, Meets, Visitor, Needs, Free, WritesTickets, Visible, Writes
  <2>2. QED
    BY <2>1, Granted, GrantedFields, FieldNeeds, TicketRowCallsAsk
<1>8. CASE b = "status"
  <2>1. Meets(C, WriterNeed)
    BY <1>8, AgreementGives DEF Besides
  <2>2. QED
    BY <1>8, <1>1, <2>1 DEF Served, TicketForms, Button, Change, Call
<1>9. CASE b = "impact"
  <2>1. Meets(C, WriterNeed)
    BY <1>9, AgreementGives DEF Besides
  <2>2. QED
    BY <1>9, <1>2, <2>1 DEF Served, TicketForms, Button, Change, Call
<1>10. CASE b = "assignment"
  <2>1. Meets(C, WriterNeed) /\ Meets(C, {StaffTickets})
    BY <1>10, AgreementGives DEF Besides
  <2>2. QED
    BY <1>10, <1>3, <2>1 DEF Served, TicketForms, Button, Change, Call
<1>11. CASE b = "location"
  <2>1. Meets(C, WriterNeed)
    BY <1>11, AgreementGives DEF Besides
  <2>2. QED
    BY <1>11, <1>4, <2>1 DEF Served, TicketForms, Button, Change, Call
<1>12. CASE b = "assignToMe"
  <2>1. Meets(C, WriterNeed) /\ Meets(C, MoverNeed)
    BY <1>12, AgreementGives DEF Besides
  <2>2. QED
    BY <1>12, <1>3, <2>1 DEF Served, TicketForms, Button, Change, Call
<1>13. CASE b = "analysis"
  <2>1. Meets(C, {StaffTickets})
    BY <1>13, AgreementGives DEF Besides
  <2>2. QED
    BY <1>13, <1>5, <2>1 DEF Served, TicketForms, Button, Change, Call
<1>14. CASE b = "plan"
  <2>1. Meets(C, {StaffTickets})
    BY <1>14, AgreementGives DEF Besides
  <2>2. QED
    BY <1>14, <1>5, <2>1 DEF Served, TicketForms, Button, Change, Call
<1>15. CASE b = "major"
  <2>1. Meets(C, WriterNeed)
    BY <1>15, AgreementGives DEF Besides
  <2>2. QED
    BY <1>15, <1>6, <2>1 DEF Served, TicketForms, Button, Change, Call
<1>16. CASE b = "restricted"
  BY <1>16, <1>7 DEF Served, TicketForms, Button, Change, Call
<1>17. QED
  BY <1>8, <1>9, <1>10, <1>11, <1>12, <1>13, <1>14, <1>15, <1>16 DEF TicketForms

LEMMA TicketToolsWork ==
  ASSUME NEW U, NEW H, NEW C
  PROVE  Works(U, H, C, "ticket", Free, TicketTools)
<1> SUFFICES ASSUME Inside(U, H, C, "ticket", Free),
                    NEW b \in DOMAIN TicketTools, Meets(H, TicketTools[b].offer),
                    NEW i \in DOMAIN TicketTools[b].sends, Besides(C, "ticket", b, i)
             PROVE  Served(H, C, TicketTools[b].sends[i])
  BY DEF Works
<1>0. /\ Visitor(U, H, C) /\ Meets(U, Free)
      /\ Meets(C, {Visible})
  BY DEF Inside
<1>1. ASSUME Meets(H, WritesTickets), Meets(C, {StaffTickets})
      PROVE  Guard(C, Reached["requestCab"], {})
  <2>1. Meets(C, {Visible, Writes, StaffTickets})
    BY <1>0, <1>1, RolesGrant, SMTT(30)
      DEF Inside, Meets, Visitor, Needs, Free, WritesTickets, StaffTickets, Visible, Writes
  <2>2. QED
    BY <2>1, Granted, TicketRowCallsAsk
<1>2. ASSUME Meets(H, QueueWriter)
      PROVE  /\ Guard(C, Reached["promoteToProblem"], {})
             /\ Guard(C, Reached["linkChildTicket"], {})
  <2>1. Meets(C, {Visible, Writes, StaffTickets})
    BY <1>0, <1>2, RolesGrant, SMTT(30)
      DEF Inside, Meets, Visitor, Needs, OneOf, Free, WritesTickets, StaffTickets, Visible,
          Writes, QueueReader, QueueWriter
  <2>2. QED
    BY <2>1, Granted, TicketRowCallsAsk
<1>3. ASSUME Meets(H, Participant)
      PROVE  /\ Guard(C, Reached["addComment"], {})
             /\ Guard(C, Reached["getTicket"], {})
             /\ Meets(C, {AttachmentReaders}) => Guard(C, Reached["uploadAttachment"], {})
  <2>1. /\ Meets(C, {Visible, {"requester"} \cup Writes})
        /\ Meets(C, {Visible})
        /\ Meets(C, {AttachmentReaders}) => Meets(C, {AttachmentReaders, {"requester"} \cup Writes})
    BY <1>0, <1>3, RolesGrant, SMTT(30)
      DEF Inside, Meets, Visitor, OneOf, Free, Visible, Writes, AttachmentReaders, Participant
  <2>2. QED
    BY <2>1, Granted, AttachmentCallsAsk, TicketListCallsAsk, TicketRowCallsAsk
<1>4. ASSUME Meets(H, DeletesTickets)
      PROVE  Guard(C, Reached["deleteTicket"], {})
  <2>1. Meets(C, {Visible} \cup DeletesTickets)
    BY <1>0, <1>4, RolesGrant, SMTT(30)
      DEF Inside, Meets, Visitor, Free, Visible, DeletesTickets
  <2>2. QED
    BY <2>1, Granted, TicketRowCallsAsk
<1>5. ASSUME Meets(H, OneOf(QueueReader)), Meets(C, {Writes})
      PROVE  Guard(C, Reached["unlinkChildTicket"], {})
  <2>1. Meets(C, {Visible, Writes, StaffTickets})
    BY <1>0, <1>5, RolesGrant, SMTT(30)
      DEF Inside, Meets, Visitor, OneOf, Free, StaffTickets, Visible, Writes, QueueReader
  <2>2. QED
    BY <2>1, Granted, TicketRowCallsAsk
<1>6. ASSUME Meets(H, Merger)
      PROVE  Guard(C, Reached["mergeTickets"], {})
  <2>1. Meets(C, {Visible, Writes \cup {"tickets:assign"}, StaffTickets})
    BY <1>0, <1>6, RolesGrant, SMTT(30)
      DEF Inside, Meets, Visitor, Free, StaffTickets, Visible, Writes, QueueReader, Merger
  <2>2. QED
    BY <2>1, Granted, TicketRowCallsAsk
<1>7. /\ Guard(C, Reached["watchTicket"], {})
      /\ Guard(C, Reached["unwatchTicket"], {})
  <2>1. Meets(C, {Visible})
    BY <1>0, RolesGrant, SMTT(30)
      DEF Inside, Meets, Visitor, Free, Visible
  <2>2. QED
    BY <2>1, Granted, TicketRowCallsAsk
<1>8. ASSUME Meets(H, WritesTickets)
      PROVE  /\ Guard(C, Reached["aiSummarize"], {})
             /\ Guard(C, Reached["aiDuplicates"], {})
             /\ Meets(H, Needs("tickets:read_queue")) => Guard(C, Reached["aiSlaRisk"], {})
  <2>1. /\ Meets(C, OneOf(Writes))
        /\ Meets(H, Needs("tickets:read_queue")) => Meets(C, Needs("tickets:read_queue"))
    BY <1>0, <1>8, RolesGrant, SMTT(30)
      DEF Inside, Meets, Visitor, Needs, OneOf, Free, WritesTickets, Writes
  <2>2. QED
    BY <2>1, Granted, AiCallsAsk
<1>9. ASSUME Meets(H, ShowAgentWorkspace \cup WritesTickets)
      PROVE  /\ Guard(C, Reached["addWorkLog"], {})
             /\ Guard(C, Reached["listWorkLogs"], {})
  <2>1. /\ Meets(C, {Visible, Writes, StaffTickets})
        /\ Meets(C, {Visible, StaffTickets \cup {"requester"}})
    BY <1>0, <1>9, RolesGrant, SMTT(30)
      DEF Inside, Meets, Visitor, Needs, OneOf, Free, ShowAgentWorkspace, WritesTickets,
          StaffTickets, Visible, Writes
  <2>2. QED
    BY <2>1, Granted, TicketRowCallsAsk
<1>10. CASE b = "cab"
  <2>1. Meets(C, {StaffTickets})
    BY <1>10, AgreementGives DEF Besides
  <2>2. QED
    BY <1>10, <1>1, <2>1 DEF Served, TicketTools, Button, Shown, Call
<1>11. CASE b = "problem"
  BY <1>11, <1>2 DEF Served, TicketTools, LeadingTo, Shown, Call
<1>12. CASE b = "comment"
  BY <1>12, <1>3 DEF Served, TicketTools, Button, Shown, Call
<1>13. CASE b = "delete"
  BY <1>13, <1>4 DEF Served, TicketTools, LeadingTo, Shown, Call
<1>14. CASE b = "link"
  BY <1>14, <1>2 DEF Served, TicketTools, Button, Shown, Call
<1>15. CASE b = "unlink"
  <2>1. Meets(C, {Writes})
    BY <1>15, AgreementGives DEF Besides
  <2>2. QED
    BY <1>15, <1>5, <2>1 DEF Served, TicketTools, Button, Shown, Call
<1>16. CASE b = "merge"
  BY <1>16, <1>6 DEF Served, TicketTools, Button, Optional, Call, Shown
<1>17. CASE b = "watch"
  BY <1>17, <1>7 DEF Served, TicketTools, Button, Shown, Call
<1>18. CASE b = "unwatch"
  BY <1>18, <1>7 DEF Served, TicketTools, Button, Shown, Call
<1>19. CASE b = "assist"
  BY <1>19, <1>8 DEF Served, TicketTools, Button, Shown, Call, ShownIf
<1>20. CASE b = "workLog"
  BY <1>20, <1>9 DEF Served, TicketTools, Button, Shown, Call
<1>21. CASE b = "attach"
  <2>1. Meets(C, {AttachmentReaders})
    BY <1>21, AgreementGives DEF Besides
  <2>2. QED
    BY <1>21, <1>3, <2>1 DEF Served, TicketTools, Button, Shown, Call
<1>22. QED
  BY <1>10, <1>11, <1>12, <1>13, <1>14, <1>15, <1>16, <1>17, <1>18, <1>19, <1>20, <1>21 DEF TicketTools

LEMMA QueueButtonsWork ==
  ASSUME NEW U, NEW H, NEW C
  PROVE  Works(U, H, C, "queue", ShowAgentWorkspace, QueueButtons)
<1> SUFFICES ASSUME Inside(U, H, C, "queue", ShowAgentWorkspace),
                    NEW b \in DOMAIN QueueButtons, Meets(H, QueueButtons[b].offer),
                    NEW i \in DOMAIN QueueButtons[b].sends, Besides(C, "queue", b, i)
             PROVE  Served(H, C, QueueButtons[b].sends[i])
  BY DEF Works
<1>0. /\ Visitor(U, H, C) /\ Meets(U, ShowAgentWorkspace)
      /\ Meets(C, {Visible})
  BY DEF Inside
<1>1. Guard(C, Reached["ticketBoard"], {})
  <2>1. Meets(C, OneOf(StaffTickets))
    BY <1>0, RolesGrant
      DEF Inside, Meets, Visitor, OneOf, ShowAgentWorkspace, StaffTickets
  <2>2. QED
    BY <2>1, Granted, TicketListCallsAsk
<1>2. ASSUME Meets(H, WritesTickets)
      PROVE  /\ Guard(C, Reached["updateTicket"], {"status"})
             /\ Guard(C, Reached["ticketBoard"], {})
  <2>1. /\ Meets(C, {Visible, {"requester"} \cup Writes})
        /\ Meets(C, {StaffTickets \cup {"requester"}})
        /\ Meets(C, OneOf(StaffTickets))
    BY <1>0, <1>2, RolesGrant
      DEF Inside, Meets, Visitor, Needs, OneOf, ShowAgentWorkspace, WritesTickets, StaffTickets,
          Visible, Writes
  <2>2. QED
    BY <2>1, Granted, GrantedFields, FieldNeeds, TicketListCallsAsk, TicketRowCallsAsk
<1>3. CASE b = "refresh"
  BY <1>3, <1>1 DEF Served, QueueButtons, Button, Shown, Call
<1>4. CASE b = "move"
  BY <1>4, <1>2 DEF Served, QueueButtons, Button, Change, Call, Shown
<1>5. QED
  BY <1>3, <1>4 DEF QueueButtons

LEMMA MajorButtonsWork ==
  ASSUME NEW U, NEW H, NEW C
  PROVE  Works(U, H, C, "major", ShowAgentWorkspace, MajorButtons)
<1> SUFFICES ASSUME Inside(U, H, C, "major", ShowAgentWorkspace),
                    NEW b \in DOMAIN MajorButtons, Meets(H, MajorButtons[b].offer),
                    NEW i \in DOMAIN MajorButtons[b].sends, Besides(C, "major", b, i)
             PROVE  Served(H, C, MajorButtons[b].sends[i])
  BY DEF Works
<1>0. /\ Visitor(U, H, C) /\ Meets(U, ShowAgentWorkspace)
  BY DEF Inside
<1>1. Guard(C, Reached["majorIncidentsOps"], {})
  <2>1. Meets(C, OneOf(StaffTickets))
    BY <1>0, RolesGrant
      DEF Inside, Meets, Visitor, OneOf, ShowAgentWorkspace, StaffTickets
  <2>2. QED
    BY <2>1, Granted, TicketListCallsAsk
<1>2. CASE b = "refresh"
  BY <1>2, <1>1 DEF Served, MajorButtons, Button, Shown, Call
<1>3. QED
  BY <1>2 DEF MajorButtons

LEMMA ProblemsButtonsWork ==
  ASSUME NEW U, NEW H, NEW C
  PROVE  Works(U, H, C, "problems", ShowAgentWorkspace, ProblemsButtons)
<1> SUFFICES ASSUME Inside(U, H, C, "problems", ShowAgentWorkspace),
                    NEW b \in DOMAIN ProblemsButtons, Meets(H, ProblemsButtons[b].offer),
                    NEW i \in DOMAIN ProblemsButtons[b].sends, Besides(C, "problems", b, i)
             PROVE  Served(H, C, ProblemsButtons[b].sends[i])
  BY DEF Works
<1>0. /\ Visitor(U, H, C) /\ Meets(U, ShowAgentWorkspace)
  BY DEF Inside
<1>1. ASSUME Meets(H, WritesTickets)
      PROVE  Guard(C, Reached["createTicket"], {})
  <2>1. Meets(C, OneOf(Writes))
    BY <1>0, <1>1, RolesGrant
      DEF Inside, Meets, Visitor, Needs, OneOf, ShowAgentWorkspace, WritesTickets, Writes
  <2>2. QED
    BY <2>1, Granted, TicketListCallsAsk
<1>2. CASE b = "create"
  BY <1>2, <1>1 DEF Served, ProblemsButtons, LeadingTo, Shown, Call
<1>3. QED
  BY <1>2 DEF ProblemsButtons

LEMMA ChangesButtonsWork ==
  ASSUME NEW U, NEW H, NEW C
  PROVE  Works(U, H, C, "changes", ShowAgentWorkspace, ChangesButtons)
<1> SUFFICES ASSUME Inside(U, H, C, "changes", ShowAgentWorkspace),
                    NEW b \in DOMAIN ChangesButtons, Meets(H, ChangesButtons[b].offer),
                    NEW i \in DOMAIN ChangesButtons[b].sends, Besides(C, "changes", b, i)
             PROVE  Served(H, C, ChangesButtons[b].sends[i])
  BY DEF Works
<1>0. /\ Visitor(U, H, C) /\ Meets(U, ShowAgentWorkspace)
  BY DEF Inside
<1>1. ASSUME Meets(H, WritesTickets)
      PROVE  Guard(C, Reached["createTicket"], {})
  <2>1. Meets(C, OneOf(Writes))
    BY <1>0, <1>1, RolesGrant
      DEF Inside, Meets, Visitor, Needs, OneOf, ShowAgentWorkspace, WritesTickets, Writes
  <2>2. QED
    BY <2>1, Granted, TicketListCallsAsk
<1>2. CASE b = "create"
  BY <1>2, <1>1 DEF Served, ChangesButtons, LeadingTo, Shown, Call
<1>3. QED
  BY <1>2 DEF ChangesButtons

LEMMA ImButtonsWork ==
  ASSUME NEW U, NEW H, NEW C
  PROVE  Works(U, H, C, "im", Needs("im:read"), ImButtons)
<1> SUFFICES ASSUME Inside(U, H, C, "im", Needs("im:read")),
                    NEW b \in DOMAIN ImButtons, Meets(H, ImButtons[b].offer),
                    NEW i \in DOMAIN ImButtons[b].sends, Besides(C, "im", b, i)
             PROVE  Served(H, C, ImButtons[b].sends[i])
  BY DEF Works
<1>0. /\ Visitor(U, H, C) /\ Meets(U, Needs("im:read"))
  BY DEF Inside
<1>1. /\ Guard(C, Reached["listImIncidents"], {})
      /\ Guard(C, Reached["getImDashboard"], {})
  <2>1. Meets(C, Needs("im:read"))
    BY <1>0, RolesGrant
      DEF Inside, Meets, Visitor, Needs
  <2>2. QED
    BY <2>1, Granted, ImCallsAsk
<1>2. ASSUME Meets(H, Needs("im:write"))
      PROVE  Guard(C, Reached["createImIncident"], {})
  <2>1. Meets(C, Needs("im:write"))
    BY <1>0, <1>2, RolesGrant
      DEF Inside, Meets, Visitor, Needs
  <2>2. QED
    BY <2>1, Granted, ImCallsAsk
<1>3. CASE b = "refresh"
  BY <1>3, <1>1 DEF Served, ImButtons, Button, Shown, Call
<1>4. CASE b = "create"
  BY <1>4, <1>2 DEF Served, ImButtons, LeadingTo, Shown, Call
<1>5. QED
  BY <1>3, <1>4 DEF ImButtons

LEMMA IncidentButtonsWork ==
  ASSUME NEW U, NEW H, NEW C
  PROVE  Works(U, H, C, "incident", Needs("im:read"), IncidentButtons)
<1> SUFFICES ASSUME Inside(U, H, C, "incident", Needs("im:read")),
                    NEW b \in DOMAIN IncidentButtons, Meets(H, IncidentButtons[b].offer),
                    NEW i \in DOMAIN IncidentButtons[b].sends, Besides(C, "incident", b, i)
             PROVE  Served(H, C, IncidentButtons[b].sends[i])
  BY DEF Works
<1>0. /\ Visitor(U, H, C) /\ Meets(U, Needs("im:read"))
  BY DEF Inside
<1>1. ASSUME Meets(H, Needs("im:write"))
      PROVE  /\ Guard(C, Reached["addImUpdate"], {})
             /\ Guard(C, Reached["getImIncident"], {})
             /\ Guard(C, Reached["updateImStatus"], {})
  <2>1. /\ Meets(C, Needs("im:write"))
        /\ Meets(C, Needs("im:read"))
    BY <1>0, <1>1, RolesGrant
      DEF Inside, Meets, Visitor, Needs
  <2>2. QED
    BY <2>1, Granted, ImCallsAsk
<1>2. ASSUME "im:write" \in C
      PROVE  /\ Guard(C, Reached["assignImRole"], {})
             /\ Guard(C, Reached["getImIncident"], {})
  <2>1. /\ Meets(C, Needs("im:write"))
        /\ Meets(C, Needs("im:read"))
    BY <1>0, <1>2, RolesGrant
      DEF Inside, Meets, Visitor, Needs, OneOf
  <2>2. QED
    BY <2>1, Granted, ImCallsAsk
<1>3. Guard(C, Reached["getImPir"], {})
  <2>1. Meets(C, Needs("im:read"))
    BY <1>0, RolesGrant
      DEF Inside, Meets, Visitor, Needs
  <2>2. QED
    BY <2>1, Granted, ImCallsAsk
<1>4. CASE b = "update"
  BY <1>4, <1>1 DEF Served, IncidentButtons, Button, Shown, Call
<1>5. CASE b = "status"
  BY <1>5, <1>1 DEF Served, IncidentButtons, Button, Shown, Call
<1>6. CASE b = "role"
  <2>1. "im:write" \in C
    BY <1>6, AgreementGives DEF Besides
  <2>2. QED
    BY <1>6, <1>2, <2>1 DEF Served, IncidentButtons, Button, Shown, Call
<1>7. CASE b = "pir"
  BY <1>7, <1>3 DEF Served, IncidentButtons, Button, Shown, Call
<1>8. QED
  BY <1>4, <1>5, <1>6, <1>7 DEF IncidentButtons

LEMMA ApprovalsButtonsWork ==
  ASSUME NEW U, NEW H, NEW C
  PROVE  Works(U, H, C, "approvals", Needs("approvals:read"), ApprovalsButtons)
<1> SUFFICES ASSUME Inside(U, H, C, "approvals", Needs("approvals:read")),
                    NEW b \in DOMAIN ApprovalsButtons, Meets(H, ApprovalsButtons[b].offer),
                    NEW i \in DOMAIN ApprovalsButtons[b].sends, Besides(C, "approvals", b, i)
             PROVE  Served(H, C, ApprovalsButtons[b].sends[i])
  BY DEF Works
<1>0. /\ Visitor(U, H, C) /\ Meets(U, Needs("approvals:read"))
  BY DEF Inside
<1>1. ASSUME Meets(H, Needs("approvals:decide"))
      PROVE  /\ Guard(C, Reached["decideApproval"], {})
             /\ Guard(C, Reached["approvals"], {})
  <2>1. /\ Meets(C, Needs("approvals:decide"))
        /\ Meets(C, Needs("approvals:read"))
    BY <1>0, <1>1, RolesGrant
      DEF Inside, Meets, Visitor, Needs
  <2>2. QED
    BY <2>1, Granted, ApprovalCallsAsk
<1>2. CASE b = "decide"
  BY <1>2, <1>1 DEF Served, ApprovalsButtons, Button, Shown, Call
<1>3. QED
  BY <1>2 DEF ApprovalsButtons

LEMMA AssetsButtonsWork ==
  ASSUME NEW U, NEW H, NEW C
  PROVE  Works(U, H, C, "assets", Needs("assets:read"), AssetsButtons)
<1> SUFFICES ASSUME Inside(U, H, C, "assets", Needs("assets:read")),
                    NEW b \in DOMAIN AssetsButtons, Meets(H, AssetsButtons[b].offer),
                    NEW i \in DOMAIN AssetsButtons[b].sends, Besides(C, "assets", b, i)
             PROVE  Served(H, C, AssetsButtons[b].sends[i])
  BY DEF Works
<1>0. /\ Visitor(U, H, C) /\ Meets(U, Needs("assets:read"))
  BY DEF Inside
<1>1. /\ Guard(C, Reached["assets"], {})
      /\ Guard(C, Reached["downloadAssetsCsv"], {})
  <2>1. Meets(C, Needs("assets:read"))
    BY <1>0, RolesGrant
      DEF Inside, Meets, Visitor, Needs
  <2>2. QED
    BY <2>1, Granted, AssetCallsAsk
<1>2. ASSUME Meets(H, WritesAssets)
      PROVE  /\ Guard(C, Reached["createAsset"], {})
             /\ Guard(C, Reached["assets"], {})
             /\ Guard(C, Reached["updateAsset"], {})
             /\ Guard(C, Reached["deleteAsset"], {})
             /\ Guard(C, Reached["createAssetRelation"], {})
             /\ Guard(C, Reached["assetRelations"], {})
             /\ Guard(C, Reached["assetImpact"], {})
             /\ Guard(C, Reached["deleteAssetRelation"], {})
             /\ Guard(C, Reached["discoveryImportAssets"], {})
  <2>1. /\ Meets(C, Needs("assets:write"))
        /\ Meets(C, Needs("assets:read"))
    BY <1>0, <1>2, RolesGrant
      DEF Inside, Meets, Visitor, Needs, WritesAssets
  <2>2. QED
    BY <2>1, Granted, AssetCallsAsk
<1>3. CASE b = "select"
  BY <1>3 DEF Served, AssetsButtons, Button, Optional, Call
<1>4. CASE b = "filter"
  BY <1>4, <1>1 DEF Served, AssetsButtons, Button, Shown, Call
<1>5. CASE b = "export"
  BY <1>5, <1>1 DEF Served, AssetsButtons, Button, Shown, Call
<1>6. CASE b = "create"
  BY <1>6, <1>2 DEF Served, AssetsButtons, Button, Shown, Call
<1>7. CASE b = "save"
  BY <1>7, <1>2 DEF Served, AssetsButtons, Button, Shown, Call
<1>8. CASE b = "retire"
  BY <1>8, <1>2 DEF Served, AssetsButtons, Button, Shown, Call
<1>9. CASE b = "addRelation"
  BY <1>9, <1>2 DEF Served, AssetsButtons, Button, Shown, Call
<1>10. CASE b = "deleteRelation"
  BY <1>10, <1>2 DEF Served, AssetsButtons, Button, Shown, Call
<1>11. CASE b = "import"
  BY <1>11, <1>2 DEF Served, AssetsButtons, Button, Shown, Call
<1>12. QED
  BY <1>3, <1>4, <1>5, <1>6, <1>7, <1>8, <1>9, <1>10, <1>11 DEF AssetsButtons

LEMMA AuditButtonsWork ==
  ASSUME NEW U, NEW H, NEW C
  PROVE  Works(U, H, C, "audit", Needs("audit:read"), AuditButtons)
<1> SUFFICES ASSUME Inside(U, H, C, "audit", Needs("audit:read")),
                    NEW b \in DOMAIN AuditButtons, Meets(H, AuditButtons[b].offer),
                    NEW i \in DOMAIN AuditButtons[b].sends, Besides(C, "audit", b, i)
             PROVE  Served(H, C, AuditButtons[b].sends[i])
  BY DEF Works
<1>0. /\ Visitor(U, H, C) /\ Meets(U, Needs("audit:read"))
  BY DEF Inside
<1>1. /\ Guard(C, Reached["audit"], {})
      /\ Guard(C, Reached["downloadAuditCsv"], {})
      /\ Guard(C, Reached["createAuditExportSchedule"], {})
      /\ Guard(C, Reached["listAuditExportSchedules"], {})
      /\ Guard(C, Reached["listAuditExportRuns"], {})
      /\ Guard(C, Reached["runAuditExportSchedule"], {})
      /\ Guard(C, Reached["updateAuditExportSchedule"], {})
      /\ Guard(C, Reached["deleteAuditExportSchedule"], {})
  <2>1. Meets(C, Needs("audit:read"))
    BY <1>0, RolesGrant
      DEF Inside, Meets, Visitor, Needs
  <2>2. QED
    BY <2>1, Granted, AuditCallsAsk, DownloadCallsAsk
<1>2. CASE b = "filter"
  BY <1>2, <1>1 DEF Served, AuditButtons, Button, Shown, Call
<1>3. CASE b = "export"
  BY <1>3, <1>1 DEF Served, AuditButtons, Button, Shown, Call
<1>4. CASE b = "create"
  BY <1>4, <1>1 DEF Served, AuditButtons, Button, ThenExports, Shown, Call
<1>5. CASE b = "run"
  BY <1>5, <1>1 DEF Served, AuditButtons, Button, ThenExports, Shown, Call
<1>6. CASE b = "toggle"
  BY <1>6, <1>1 DEF Served, AuditButtons, Button, ThenExports, Shown, Call
<1>7. CASE b = "delete"
  BY <1>7, <1>1 DEF Served, AuditButtons, Button, ThenExports, Shown, Call
<1>8. QED
  BY <1>2, <1>3, <1>4, <1>5, <1>6, <1>7 DEF AuditButtons

LEMMA CatalogButtonsWork ==
  ASSUME NEW U, NEW H, NEW C
  PROVE  Works(U, H, C, "catalog", Free, CatalogButtons)
<1> SUFFICES ASSUME Inside(U, H, C, "catalog", Free),
                    NEW b \in DOMAIN CatalogButtons, Meets(H, CatalogButtons[b].offer),
                    NEW i \in DOMAIN CatalogButtons[b].sends, Besides(C, "catalog", b, i)
             PROVE  Served(H, C, CatalogButtons[b].sends[i])
  BY DEF Works
<1>0. /\ Visitor(U, H, C) /\ Meets(U, Free)
  BY DEF Inside
<1>1. ASSUME Meets(H, Needs("settings:manage"))
      PROVE  /\ Guard(C, Reached["createCatalogItem"], {})
             /\ Guard(C, Reached["catalog"], {})
             /\ Guard(C, Reached["updateCatalogItem"], {})
  <2>1. /\ Meets(C, Needs("settings:manage"))
        /\ Meets(C, Free)
    BY <1>0, <1>1, RolesGrant
      DEF Inside, Meets, Visitor, Needs, Free
  <2>2. QED
    BY <2>1, Granted, CatalogCallsAsk
<1>2. ASSUME Meets(H, WritesTickets)
      PROVE  Guard(C, Reached["requestCatalogItem"], {})
  <2>1. Meets(C, OneOf(Writes))
    BY <1>0, <1>2, RolesGrant
      DEF Inside, Meets, Visitor, Needs, OneOf, Free, WritesTickets, Writes
  <2>2. QED
    BY <2>1, Granted, CatalogCallsAsk
<1>3. CASE b = "create"
  BY <1>3, <1>1 DEF Served, CatalogButtons, Button, Shown, Call
<1>4. CASE b = "save"
  BY <1>4, <1>1 DEF Served, CatalogButtons, Button, Shown, Call
<1>5. CASE b = "request"
  BY <1>5, <1>2 DEF Served, CatalogButtons, LeadingTo, Shown, Call
<1>6. QED
  BY <1>3, <1>4, <1>5 DEF CatalogButtons

LEMMA KnowledgeButtonsWork ==
  ASSUME NEW U, NEW H, NEW C
  PROVE  Works(U, H, C, "knowledge", OneOf({"knowledge:read", "knowledge:write"}), KnowledgeButtons)
<1> SUFFICES ASSUME Inside(U, H, C, "knowledge", OneOf({"knowledge:read", "knowledge:write"})),
                    NEW b \in DOMAIN KnowledgeButtons, Meets(H, KnowledgeButtons[b].offer),
                    NEW i \in DOMAIN KnowledgeButtons[b].sends, Besides(C, "knowledge", b, i)
             PROVE  Served(H, C, KnowledgeButtons[b].sends[i])
  BY DEF Works
<1>0. /\ Visitor(U, H, C) /\ Meets(U, OneOf({"knowledge:read", "knowledge:write"}))
  BY DEF Inside
<1>1. ASSUME Meets(H, WritesKnowledge)
      PROVE  /\ Guard(C, Reached["publishKnowledge"], {})
             /\ Guard(C, Reached["knowledge"], {})
  <2>1. /\ Meets(C, Needs("knowledge:write"))
        /\ Meets(C, Free)
    BY <1>0, <1>1, RolesGrant
      DEF Inside, Meets, Visitor, Needs, OneOf, Free, WritesKnowledge
  <2>2. QED
    BY <2>1, Granted, ArticleCallsAsk, KnowledgeCallsAsk
<1>2. CASE b = "publish"
  BY <1>2, <1>1 DEF Served, KnowledgeButtons, Button, Shown, Call
<1>3. QED
  BY <1>2 DEF KnowledgeButtons

LEMMA ArticleButtonsWork ==
  ASSUME NEW U, NEW H, NEW C
  PROVE  Works(U, H, C, "article", Free, ArticleButtons)
<1> SUFFICES ASSUME Inside(U, H, C, "article", Free),
                    NEW b \in DOMAIN ArticleButtons, Meets(H, ArticleButtons[b].offer),
                    NEW i \in DOMAIN ArticleButtons[b].sends, Besides(C, "article", b, i)
             PROVE  Served(H, C, ArticleButtons[b].sends[i])
  BY DEF Works
<1>0. /\ Visitor(U, H, C) /\ Meets(U, Free)
  BY DEF Inside
<1>1. ASSUME Meets(H, WritesKnowledge)
      PROVE  /\ Guard(C, Reached["updateKnowledge"], {})
             /\ Guard(C, Reached["publishKnowledge"], {})
             /\ Guard(C, Reached["uploadKnowledgeMedia"], {})
  <2>1. Meets(C, Needs("knowledge:write"))
    BY <1>0, <1>1, RolesGrant
      DEF Inside, Meets, Visitor, Needs, Free, WritesKnowledge
  <2>2. QED
    BY <2>1, Granted, ArticleCallsAsk
<1>2. "knowledge:read" \in C => Guard(C, Reached["knowledgeFeedback"], {})
  <2>1. "knowledge:read" \in C => Meets(C, Needs("knowledge:read"))
    BY DEF Meets, Needs
  <2>2. QED
    BY <2>1, Granted, KnowledgeCallsAsk
<1>3. CASE b = "save"
  BY <1>3, <1>1 DEF Served, ArticleButtons, Button, Shown, Call
<1>4. CASE b = "publish"
  BY <1>4, <1>1 DEF Served, ArticleButtons, Button, Shown, Call
<1>5. CASE b = "media"
  BY <1>5, <1>1 DEF Served, ArticleButtons, Button, Shown, Call
<1>6. CASE b = "feedback"
  <2>1. "knowledge:read" \in C
    BY <1>6, AgreementGives DEF Besides
  <2>2. QED
    BY <1>6, <1>2, <2>1 DEF Served, ArticleButtons, Button, Shown, Call
<1>7. QED
  BY <1>3, <1>4, <1>5, <1>6 DEF ArticleButtons

LEMMA NewArticleButtonsWork ==
  ASSUME NEW U, NEW H, NEW C
  PROVE  Works(U, H, C, "new_article", WritesKnowledge, NewArticleButtons)
<1> SUFFICES ASSUME Inside(U, H, C, "new_article", WritesKnowledge),
                    NEW b \in DOMAIN NewArticleButtons, Meets(H, NewArticleButtons[b].offer),
                    NEW i \in DOMAIN NewArticleButtons[b].sends, Besides(C, "new_article", b, i)
             PROVE  Served(H, C, NewArticleButtons[b].sends[i])
  BY DEF Works
<1>0. /\ Visitor(U, H, C) /\ Meets(U, WritesKnowledge)
  BY DEF Inside
<1>1. /\ Guard(C, Reached["createKnowledge"], {})
      /\ Guard(C, Reached["uploadKnowledgeAttachment"], {})
      /\ Guard(C, Reached["uploadKnowledgeMedia"], {})
  <2>1. Meets(C, Needs("knowledge:write"))
    BY <1>0, RolesGrant
      DEF Inside, Meets, Visitor, Needs, WritesKnowledge
  <2>2. QED
    BY <2>1, Granted, ArticleCallsAsk
<1>2. CASE b = "submit"
  BY <1>2, <1>1 DEF Served, NewArticleButtons, LeadingTo, Perhaps, Call, Shown
<1>3. CASE b = "media"
  BY <1>3, <1>1 DEF Served, NewArticleButtons, Button, Shown, Call
<1>4. QED
  BY <1>2, <1>3 DEF NewArticleButtons

LEMMA NotificationsButtonsWork ==
  ASSUME NEW U, NEW H, NEW C
  PROVE  Works(U, H, C, "notifications", Free, NotificationsButtons)
<1> SUFFICES ASSUME Inside(U, H, C, "notifications", Free),
                    NEW b \in DOMAIN NotificationsButtons, Meets(H, NotificationsButtons[b].offer),
                    NEW i \in DOMAIN NotificationsButtons[b].sends, Besides(C, "notifications", b, i)
             PROVE  Served(H, C, NotificationsButtons[b].sends[i])
  BY DEF Works
<1>0. /\ Visitor(U, H, C) /\ Meets(U, Free)
  BY DEF Inside
<1>1. /\ Guard(C, Reached["markAllNotificationsRead"], {})
      /\ Guard(C, Reached["notifications"], {})
  <2>1. Meets(C, Free)
    BY <1>0, RolesGrant
      DEF Inside, Meets, Visitor, Free
  <2>2. QED
    BY <2>1, Granted, NotificationCallsAsk
<1>2. CASE b = "read"
  BY <1>2 DEF Served, NotificationsButtons, Button, Optional, Call
<1>3. CASE b = "open"
  BY <1>3 DEF Served, NotificationsButtons, LeadingTo, Optional, Call
<1>4. CASE b = "readAll"
  BY <1>4, <1>1 DEF Served, NotificationsButtons, Button, Shown, Call
<1>5. QED
  BY <1>2, <1>3, <1>4 DEF NotificationsButtons

LEMMA ProfileButtonsWork ==
  ASSUME NEW U, NEW H, NEW C
  PROVE  Works(U, H, C, "profile", Free, ProfileButtons)
<1> SUFFICES ASSUME Inside(U, H, C, "profile", Free),
                    NEW b \in DOMAIN ProfileButtons, Meets(H, ProfileButtons[b].offer),
                    NEW i \in DOMAIN ProfileButtons[b].sends, Besides(C, "profile", b, i)
             PROVE  Served(H, C, ProfileButtons[b].sends[i])
  BY DEF Works
<1>0. /\ Visitor(U, H, C) /\ Meets(U, Free)
  BY DEF Inside
<1>1. /\ Guard(C, Reached["updateProfile"], {})
      /\ Guard(C, Reached["changePassword"], {})
      /\ Guard(C, Reached["mfaSetup"], {})
      /\ Guard(C, Reached["mfaConfirm"], {})
      /\ Guard(C, Reached["mfaDisable"], {})
      /\ Guard(C, Reached["setNotificationPreference"], {})
      /\ Guard(C, Reached["setNotificationDigestSettings"], {})
  <2>1. Meets(C, Free)
    BY <1>0, RolesGrant
      DEF Inside, Meets, Visitor, Free
  <2>2. QED
    BY <2>1, Granted, AuthCallsAsk, NotificationCallsAsk
<1>2. CASE b = "save"
  BY <1>2, <1>1 DEF Served, ProfileButtons, Button, Shown, Call
<1>3. CASE b = "changePassword"
  BY <1>3, <1>1 DEF Served, ProfileButtons, LeadingTo, Shown, Call
<1>4. CASE b = "setupMfa"
  BY <1>4, <1>1 DEF Served, ProfileButtons, Button, Shown, Call
<1>5. CASE b = "confirmMfa"
  BY <1>5, <1>1 DEF Served, ProfileButtons, Button, Shown, Call
<1>6. CASE b = "cancelMfa"
  BY <1>6 DEF Served, ProfileButtons, Button, Optional, Call
<1>7. CASE b = "disableMfa"
  BY <1>7, <1>1 DEF Served, ProfileButtons, Button, Shown, Call
<1>8. CASE b = "preference"
  BY <1>8, <1>1 DEF Served, ProfileButtons, Button, Shown, Call
<1>9. CASE b = "digest"
  BY <1>9, <1>1 DEF Served, ProfileButtons, Button, Shown, Call
<1>10. QED
  BY <1>2, <1>3, <1>4, <1>5, <1>6, <1>7, <1>8, <1>9 DEF ProfileButtons

LEMMA ReportsButtonsWork ==
  ASSUME NEW U, NEW H, NEW C
  PROVE  Works(U, H, C, "reports", ReadsReports, ReportsButtons)
<1> SUFFICES ASSUME Inside(U, H, C, "reports", ReadsReports),
                    NEW b \in DOMAIN ReportsButtons, Meets(H, ReportsButtons[b].offer),
                    NEW i \in DOMAIN ReportsButtons[b].sends, Besides(C, "reports", b, i)
             PROVE  Served(H, C, ReportsButtons[b].sends[i])
  BY DEF Works
<1>0. /\ Visitor(U, H, C) /\ Meets(U, ReadsReports)
  BY DEF Inside
<1>1. /\ Guard(C, Reached["reportSummary"], {})
      /\ Guard(C, Reached["reportStages"], {})
      /\ Guard(C, Reached["reportHeatmap"], {})
      /\ Guard(C, Reached["downloadReportCsv"], {})
      /\ Guard(C, Reached["downloadReportPdf"], {})
      /\ Guard(C, Reached["createReportSchedule"], {})
      /\ Guard(C, Reached["listReportSchedules"], {})
      /\ Guard(C, Reached["runReportSchedule"], {})
      /\ Guard(C, Reached["updateReportSchedule"], {})
      /\ Guard(C, Reached["deleteReportSchedule"], {})
  <2>1. /\ Meets(C, Needs("reports:read"))
        /\ Meets(C, SchedulesReports)
    BY <1>0, RolesGrant
      DEF Inside, Meets, Visitor, Needs, OneOf, ReadsReports, SchedulesReports
  <2>2. QED
    BY <2>1, Granted, DownloadCallsAsk, ReportCallsAsk
<1>2. CASE b = "apply"
  BY <1>2, <1>1 DEF Served, ReportsButtons, Button, Shown, Call
<1>3. CASE b = "csv"
  BY <1>3, <1>1 DEF Served, ReportsButtons, Button, Shown, Call
<1>4. CASE b = "pdf"
  BY <1>4, <1>1 DEF Served, ReportsButtons, Button, Shown, Call
<1>5. CASE b = "create"
  BY <1>5, <1>1 DEF Served, ReportsButtons, Button, Shown, Call
<1>6. CASE b = "run"
  BY <1>6, <1>1 DEF Served, ReportsButtons, Button, Shown, Call
<1>7. CASE b = "toggle"
  BY <1>7, <1>1 DEF Served, ReportsButtons, Button, Shown, Call
<1>8. CASE b = "delete"
  BY <1>8, <1>1 DEF Served, ReportsButtons, Button, Shown, Call
<1>9. QED
  BY <1>2, <1>3, <1>4, <1>5, <1>6, <1>7, <1>8 DEF ReportsButtons

LEMMA UsersButtonsWork ==
  ASSUME NEW U, NEW H, NEW C
  PROVE  Works(U, H, C, "users", OneOf({"users:manage", "users:read"}), UsersButtons)
<1> SUFFICES ASSUME Inside(U, H, C, "users", OneOf({"users:manage", "users:read"})),
                    NEW b \in DOMAIN UsersButtons, Meets(H, UsersButtons[b].offer),
                    NEW i \in DOMAIN UsersButtons[b].sends, Besides(C, "users", b, i)
             PROVE  Served(H, C, UsersButtons[b].sends[i])
  BY DEF Works
<1>0. /\ Visitor(U, H, C) /\ Meets(U, OneOf({"users:manage", "users:read"}))
  BY DEF Inside
<1>1. ASSUME Meets(H, ManagesUsers)
      PROVE  /\ Guard(C, Reached["createUser"], {})
             /\ "users:read" \in C => Guard(C, Reached["listUsers"], {})
             /\ Guard(C, Reached["updateUser"], {})
             /\ Guard(C, Reached["resetUserPassword"], {})
             /\ Guard(C, Reached["deleteUser"], {})
  <2>1. /\ Meets(C, Needs("users:manage"))
        /\ "users:read" \in C => Meets(C, Needs("users:read"))
    BY <1>0, <1>1, RolesGrant
      DEF Inside, Meets, Visitor, Needs, OneOf, ManagesUsers
  <2>2. QED
    BY <2>1, Granted, UserCallsAsk
<1>2. CASE b = "create"
  <2>1. "users:read" \in C
    BY <1>2, AgreementGives DEF Besides
  <2>2. QED
    BY <1>2, <1>1, <2>1 DEF Served, UsersButtons, Button, Shown, Call
<1>3. CASE b = "save"
  <2>1. "users:read" \in C
    BY <1>3, AgreementGives DEF Besides
  <2>2. QED
    BY <1>3, <1>1, <2>1 DEF Served, UsersButtons, Button, Shown, Call
<1>4. CASE b = "reset"
  BY <1>4, <1>1 DEF Served, UsersButtons, Button, Shown, Call
<1>5. CASE b = "delete"
  <2>1. "users:read" \in C
    BY <1>5, AgreementGives DEF Besides
  <2>2. QED
    BY <1>5, <1>1, <2>1 DEF Served, UsersButtons, Button, Shown, Call
<1>6. QED
  BY <1>2, <1>3, <1>4, <1>5 DEF UsersButtons

LEMMA RolesButtonsWork ==
  ASSUME NEW U, NEW H, NEW C
  PROVE  Works(U, H, C, "roles", OneOf({"roles:manage", "users:manage"}), RolesButtons)
<1> SUFFICES ASSUME Inside(U, H, C, "roles", OneOf({"roles:manage", "users:manage"})),
                    NEW b \in DOMAIN RolesButtons, Meets(H, RolesButtons[b].offer),
                    NEW i \in DOMAIN RolesButtons[b].sends, Besides(C, "roles", b, i)
             PROVE  Served(H, C, RolesButtons[b].sends[i])
  BY DEF Works
<1>0. /\ Visitor(U, H, C) /\ Meets(U, OneOf({"roles:manage", "users:manage"}))
  BY DEF Inside
<1>1. ASSUME "users:manage" \in C, "roles:manage" \in C, "users:read" \in C
      PROVE  /\ Guard(C, Reached["setUserAccess"], {})
             /\ Guard(C, Reached["updateUser"], {})
             /\ Guard(C, Reached["rolesMatrix"], {})
             /\ Guard(C, Reached["listUsers"], {})
  <2>1. /\ Meets(C, Needs("users:manage"))
        /\ Meets(C, Needs("roles:manage"))
        /\ Meets(C, Needs("users:read"))
    BY <1>1 DEF Meets, Needs
  <2>2. QED
    BY <2>1, Granted, UserCallsAsk
<1>2. CASE b = "save"
  <2>1. "users:manage" \in C /\ "roles:manage" \in C /\ "users:read" \in C
    BY <1>2, AgreementGives DEF Besides
  <2>2. QED
    BY <1>2, <1>1, <2>1 DEF Served, RolesButtons, Button, Optional, Call, Perhaps, Shown
<1>3. QED
  BY <1>2 DEF RolesButtons

LEMMA TeamsButtonsWork ==
  ASSUME NEW U, NEW H, NEW C
  PROVE  Works(U, H, C, "teams", ReadsOrg, TeamsButtons)
<1> SUFFICES ASSUME Inside(U, H, C, "teams", ReadsOrg),
                    NEW b \in DOMAIN TeamsButtons, Meets(H, TeamsButtons[b].offer),
                    NEW i \in DOMAIN TeamsButtons[b].sends, Besides(C, "teams", b, i)
             PROVE  Served(H, C, TeamsButtons[b].sends[i])
  BY DEF Works
<1>0. /\ Visitor(U, H, C) /\ Meets(U, ReadsOrg)
  BY DEF Inside
<1>1. ASSUME Meets(H, ManagesOrg), "org:read" \in C
      PROVE  /\ Guard(C, Reached["createTeam"], {})
             /\ Guard(C, Reached["listTeams"], {})
             /\ Guard(C, Reached["listLocations"], {})
             /\ Guard(C, Reached["listDepartments"], {})
             /\ Guard(C, Reached["updateTeam"], {})
             /\ Guard(C, Reached["addTeamMember"], {})
             /\ Guard(C, Reached["removeTeamMember"], {})
  <2>1. /\ Meets(C, Needs("org:manage"))
        /\ Meets(C, Needs("org:read"))
    BY <1>0, <1>1, RolesGrant
      DEF Inside, Meets, Visitor, Needs, OneOf, ReadsOrg, ManagesOrg
  <2>2. QED
    BY <2>1, Granted, OrgCallsAsk
<1>2. CASE b = "create"
  <2>1. "org:read" \in C
    BY <1>2, AgreementGives DEF Besides
  <2>2. QED
    BY <1>2, <1>1, <2>1, SMTT(30) DEF Served, TeamsButtons, Button, ThenTeams, Shown, Call
<1>3. CASE b = "save"
  <2>1. "org:read" \in C
    BY <1>3, AgreementGives DEF Besides
  <2>2. QED
    BY <1>3, <1>1, <2>1, SMTT(30) DEF Served, TeamsButtons, Button, ThenTeams, Shown, Call
<1>4. CASE b = "addMember"
  <2>1. "org:read" \in C
    BY <1>4, AgreementGives DEF Besides
  <2>2. QED
    BY <1>4, <1>1, <2>1, SMTT(30) DEF Served, TeamsButtons, Button, ThenTeams, Shown, Call
<1>5. CASE b = "removeMember"
  <2>1. "org:read" \in C
    BY <1>5, AgreementGives DEF Besides
  <2>2. QED
    BY <1>5, <1>1, <2>1, SMTT(30) DEF Served, TeamsButtons, Button, ThenTeams, Shown, Call
<1>6. QED
  BY <1>2, <1>3, <1>4, <1>5 DEF TeamsButtons

LEMMA DepartmentsButtonsWork ==
  ASSUME NEW U, NEW H, NEW C
  PROVE  Works(U, H, C, "departments", ReadsOrg, DepartmentsButtons)
<1> SUFFICES ASSUME Inside(U, H, C, "departments", ReadsOrg),
                    NEW b \in DOMAIN DepartmentsButtons, Meets(H, DepartmentsButtons[b].offer),
                    NEW i \in DOMAIN DepartmentsButtons[b].sends, Besides(C, "departments", b, i)
             PROVE  Served(H, C, DepartmentsButtons[b].sends[i])
  BY DEF Works
<1>0. /\ Visitor(U, H, C) /\ Meets(U, ReadsOrg)
  BY DEF Inside
<1>1. ASSUME Meets(H, ManagesOrg), "org:read" \in C
      PROVE  /\ Guard(C, Reached["createDepartment"], {})
             /\ Guard(C, Reached["listDepartments"], {})
             /\ Guard(C, Reached["updateDepartment"], {})
             /\ Guard(C, Reached["deactivateDepartment"], {})
  <2>1. /\ Meets(C, Needs("org:manage"))
        /\ Meets(C, Needs("org:read"))
    BY <1>0, <1>1, RolesGrant
      DEF Inside, Meets, Visitor, Needs, OneOf, ReadsOrg, ManagesOrg
  <2>2. QED
    BY <2>1, Granted, OrgCallsAsk
<1>2. CASE b = "create"
  <2>1. "org:read" \in C
    BY <1>2, AgreementGives DEF Besides
  <2>2. QED
    BY <1>2, <1>1, <2>1 DEF Served, DepartmentsButtons, Button, Shown, Call
<1>3. CASE b = "save"
  <2>1. "org:read" \in C
    BY <1>3, AgreementGives DEF Besides
  <2>2. QED
    BY <1>3, <1>1, <2>1 DEF Served, DepartmentsButtons, Button, Shown, Call
<1>4. CASE b = "deactivate"
  <2>1. "org:read" \in C
    BY <1>4, AgreementGives DEF Besides
  <2>2. QED
    BY <1>4, <1>1, <2>1 DEF Served, DepartmentsButtons, Button, Shown, Call
<1>5. QED
  BY <1>2, <1>3, <1>4 DEF DepartmentsButtons

LEMMA LocationsButtonsWork ==
  ASSUME NEW U, NEW H, NEW C
  PROVE  Works(U, H, C, "locations", ReadsOrg, LocationsButtons)
<1> SUFFICES ASSUME Inside(U, H, C, "locations", ReadsOrg),
                    NEW b \in DOMAIN LocationsButtons, Meets(H, LocationsButtons[b].offer),
                    NEW i \in DOMAIN LocationsButtons[b].sends, Besides(C, "locations", b, i)
             PROVE  Served(H, C, LocationsButtons[b].sends[i])
  BY DEF Works
<1>0. /\ Visitor(U, H, C) /\ Meets(U, ReadsOrg)
  BY DEF Inside
<1>1. ASSUME Meets(H, ManagesOrg), "org:read" \in C
      PROVE  /\ Guard(C, Reached["createLocation"], {})
             /\ Guard(C, Reached["listLocations"], {})
             /\ Guard(C, Reached["updateLocation"], {})
             /\ Guard(C, Reached["deactivateLocation"], {})
  <2>1. /\ Meets(C, Needs("org:manage"))
        /\ Meets(C, Needs("org:read"))
    BY <1>0, <1>1, RolesGrant
      DEF Inside, Meets, Visitor, Needs, OneOf, ReadsOrg, ManagesOrg
  <2>2. QED
    BY <2>1, Granted, OrgCallsAsk
<1>2. CASE b = "create"
  <2>1. "org:read" \in C
    BY <1>2, AgreementGives DEF Besides
  <2>2. QED
    BY <1>2, <1>1, <2>1 DEF Served, LocationsButtons, Button, Shown, Call
<1>3. CASE b = "save"
  <2>1. "org:read" \in C
    BY <1>3, AgreementGives DEF Besides
  <2>2. QED
    BY <1>3, <1>1, <2>1 DEF Served, LocationsButtons, Button, Shown, Call
<1>4. CASE b = "deactivate"
  <2>1. "org:read" \in C
    BY <1>4, AgreementGives DEF Besides
  <2>2. QED
    BY <1>4, <1>1, <2>1 DEF Served, LocationsButtons, Button, Shown, Call
<1>5. QED
  BY <1>2, <1>3, <1>4 DEF LocationsButtons

LEMMA RoutingButtonsWork ==
  ASSUME NEW U, NEW H, NEW C
  PROVE  Works(U, H, C, "routing", OneOf({"settings:manage", "org:read", "org:manage"}), RoutingButtons)
<1> SUFFICES ASSUME Inside(U, H, C, "routing", OneOf({"settings:manage", "org:read", "org:manage"})),
                    NEW b \in DOMAIN RoutingButtons, Meets(H, RoutingButtons[b].offer),
                    NEW i \in DOMAIN RoutingButtons[b].sends, Besides(C, "routing", b, i)
             PROVE  Served(H, C, RoutingButtons[b].sends[i])
  BY DEF Works
<1>0. /\ Visitor(U, H, C) /\ Meets(U, OneOf({"settings:manage", "org:read", "org:manage"}))
  BY DEF Inside
<1>1. ASSUME Meets(H, Needs("settings:manage"))
      PROVE  /\ Guard(C, Reached["createSlaPolicy"], {})
             /\ Guard(C, Reached["slaPolicies"], {})
  <2>1. Meets(C, Needs("settings:manage"))
    BY <1>0, <1>1, RolesGrant
      DEF Inside, Meets, Visitor, Needs, OneOf
  <2>2. QED
    BY <2>1, Granted, RoutingCallsAsk
<1>2. ASSUME Meets(H, ManagesOrg), "org:read" \in C
      PROVE  /\ Guard(C, Reached["createAssignmentRule"], {})
             /\ Guard(C, Reached["assignmentRules"], {})
             /\ Guard(C, Reached["createSkill"], {})
             /\ Guard(C, Reached["listSkills"], {})
             /\ Guard(C, Reached["getUserSkills"], {})
             /\ Guard(C, Reached["setUserSkills"], {})
  <2>1. /\ Meets(C, Needs("org:manage"))
        /\ Meets(C, Needs("org:read"))
    BY <1>0, <1>2, RolesGrant
      DEF Inside, Meets, Visitor, Needs, OneOf, ManagesOrg
  <2>2. QED
    BY <2>1, Granted, RoutingCallsAsk
<1>3. CASE b = "createSla"
  BY <1>3, <1>1 DEF Served, RoutingButtons, Button, Shown, Call
<1>4. CASE b = "createRule"
  <2>1. "org:read" \in C
    BY <1>4, AgreementGives DEF Besides
  <2>2. QED
    BY <1>4, <1>2, <2>1 DEF Served, RoutingButtons, Button, Shown, Call
<1>5. CASE b = "createSkill"
  <2>1. "org:read" \in C
    BY <1>5, AgreementGives DEF Besides
  <2>2. QED
    BY <1>5, <1>2, <2>1 DEF Served, RoutingButtons, Button, Shown, Call
<1>6. CASE b = "loadSkills"
  <2>1. "org:read" \in C
    BY <1>6, AgreementGives DEF Besides
  <2>2. QED
    BY <1>6, <1>2, <2>1 DEF Served, RoutingButtons, Button, Shown, Call
<1>7. CASE b = "saveSkills"
  <2>1. "org:read" \in C
    BY <1>7, AgreementGives DEF Besides
  <2>2. QED
    BY <1>7, <1>2, <2>1 DEF Served, RoutingButtons, Button, Shown, Call
<1>8. QED
  BY <1>3, <1>4, <1>5, <1>6, <1>7 DEF RoutingButtons

LEMMA PoliciesButtonsWork ==
  ASSUME NEW U, NEW H, NEW C
  PROVE  Works(U, H, C, "policies", CanManageApprovalPolicies, PoliciesButtons)
<1> SUFFICES ASSUME Inside(U, H, C, "policies", CanManageApprovalPolicies),
                    NEW b \in DOMAIN PoliciesButtons, Meets(H, PoliciesButtons[b].offer),
                    NEW i \in DOMAIN PoliciesButtons[b].sends, Besides(C, "policies", b, i)
             PROVE  Served(H, C, PoliciesButtons[b].sends[i])
  BY DEF Works
<1>0. /\ Visitor(U, H, C) /\ Meets(U, CanManageApprovalPolicies)
  BY DEF Inside
<1>1. /\ Guard(C, Reached["createApprovalPolicy"], {})
      /\ Guard(C, Reached["approvalPolicies"], {})
      /\ Guard(C, Reached["updateApprovalPolicy"], {})
  <2>1. Meets(C, ManagesPolicies)
    BY <1>0, RolesGrant
      DEF Inside, Meets, Visitor, OneOf, CanManageApprovalPolicies, ManagesPolicies
  <2>2. QED
    BY <2>1, Granted, ApprovalCallsAsk
<1>2. CASE b = "create"
  BY <1>2, <1>1 DEF Served, PoliciesButtons, Button, Shown, Call
<1>3. CASE b = "edit"
  BY <1>3, <1>1 DEF Served, PoliciesButtons, Button, Shown, Call
<1>4. QED
  BY <1>2, <1>3 DEF PoliciesButtons

LEMMA AutomationButtonsWork ==
  ASSUME NEW U, NEW H, NEW C
  PROVE  Works(U, H, C, "automation", Needs("settings:manage"), AutomationButtons)
<1> SUFFICES ASSUME Inside(U, H, C, "automation", Needs("settings:manage")),
                    NEW b \in DOMAIN AutomationButtons, Meets(H, AutomationButtons[b].offer),
                    NEW i \in DOMAIN AutomationButtons[b].sends, Besides(C, "automation", b, i)
             PROVE  Served(H, C, AutomationButtons[b].sends[i])
  BY DEF Works
<1>0. /\ Visitor(U, H, C) /\ Meets(U, Needs("settings:manage"))
  BY DEF Inside
<1>1. /\ Guard(C, Reached["createAutomationRule"], {})
      /\ Guard(C, Reached["listAutomationRules"], {})
      /\ Guard(C, Reached["updateAutomationRule"], {})
  <2>1. Meets(C, Needs("settings:manage"))
    BY <1>0, RolesGrant
      DEF Inside, Meets, Visitor, Needs
  <2>2. QED
    BY <2>1, Granted, AutomationCallsAsk
<1>2. CASE b = "create"
  BY <1>2, <1>1 DEF Served, AutomationButtons, Button, Shown, Call
<1>3. CASE b = "toggle"
  BY <1>3, <1>1 DEF Served, AutomationButtons, Button, Shown, Call
<1>4. QED
  BY <1>2, <1>3 DEF AutomationButtons

LEMMA IntegrationsButtonsWork ==
  ASSUME NEW U, NEW H, NEW C
  PROVE  Works(U, H, C, "integrations", Needs("sysadmin"), IntegrationsButtons)
<1> SUFFICES ASSUME Inside(U, H, C, "integrations", Needs("sysadmin")),
                    NEW b \in DOMAIN IntegrationsButtons, Meets(H, IntegrationsButtons[b].offer),
                    NEW i \in DOMAIN IntegrationsButtons[b].sends, Besides(C, "integrations", b, i)
             PROVE  Served(H, C, IntegrationsButtons[b].sends[i])
  BY DEF Works
<1>0. /\ Visitor(U, H, C) /\ Meets(U, Needs("sysadmin"))
  BY DEF Inside
<1>1. /\ Guard(C, Reached["integrationsStatus"], {})
      /\ Guard(C, Reached["webhookEvents"], {})
      /\ Guard(C, Reached["webhookEndpoints"], {})
      /\ Guard(C, Reached["simulateChatTicket"], {})
      /\ Guard(C, Reached["pollImap"], {})
      /\ Guard(C, Reached["createWebhookEndpoint"], {})
      /\ Guard(C, Reached["updateWebhookEndpoint"], {})
      /\ Guard(C, Reached["testWebhookEndpoint"], {})
      /\ Guard(C, Reached["webhookDeliveries"], {})
      /\ Guard(C, Reached["deleteWebhookEndpoint"], {})
  <2>1. /\ Meets(C, Needs("sysadmin"))
        /\ Meets(C, Needs("settings:manage"))
    BY <1>0, RolesGrant
      DEF Inside, Meets, Visitor, Needs
  <2>2. QED
    BY <2>1, Granted, IntegrationCallsAsk
<1>2. CASE b = "refresh"
  BY <1>2, <1>1 DEF Served, IntegrationsButtons, Button, Shown, Call
<1>3. CASE b = "simulate"
  BY <1>3, <1>1 DEF Served, IntegrationsButtons, Button, Shown, Call
<1>4. CASE b = "poll"
  BY <1>4, <1>1 DEF Served, IntegrationsButtons, Button, Shown, Call
<1>5. CASE b = "create"
  BY <1>5, <1>1 DEF Served, IntegrationsButtons, Button, Shown, Call
<1>6. CASE b = "save"
  BY <1>6, <1>1 DEF Served, IntegrationsButtons, Button, Shown, Call
<1>7. CASE b = "test"
  BY <1>7, <1>1 DEF Served, IntegrationsButtons, Button, Perhaps, Call, Shown
<1>8. CASE b = "deliveries"
  BY <1>8, <1>1 DEF Served, IntegrationsButtons, Button, Shown, Call
<1>9. CASE b = "delete"
  BY <1>9, <1>1 DEF Served, IntegrationsButtons, Button, Shown, Call
<1>10. QED
  BY <1>2, <1>3, <1>4, <1>5, <1>6, <1>7, <1>8, <1>9 DEF IntegrationsButtons

LEMMA BrandingButtonsWork ==
  ASSUME NEW U, NEW H, NEW C
  PROVE  Works(U, H, C, "branding", Needs("sysadmin"), BrandingButtons)
<1> SUFFICES ASSUME Inside(U, H, C, "branding", Needs("sysadmin")),
                    NEW b \in DOMAIN BrandingButtons, Meets(H, BrandingButtons[b].offer),
                    NEW i \in DOMAIN BrandingButtons[b].sends, Besides(C, "branding", b, i)
             PROVE  Served(H, C, BrandingButtons[b].sends[i])
  BY DEF Works
<1>0. /\ Visitor(U, H, C) /\ Meets(U, Needs("sysadmin"))
  BY DEF Inside
<1>1. /\ Guard(C, Reached["uploadBrandingLogo"], {})
      /\ Guard(C, Reached["uploadBrandingBanner"], {})
      /\ Guard(C, Reached["updateBrandingTheme"], {})
      /\ Guard(C, Reached["resetBranding"], {})
  <2>1. Meets(C, Needs("sysadmin"))
    BY <1>0, RolesGrant
      DEF Inside, Meets, Visitor, Needs
  <2>2. QED
    BY <2>1, Granted, BrandingCallsAsk
<1>2. CASE b = "saveAssets"
  BY <1>2, <1>1 DEF Served, BrandingButtons, Button, Perhaps, Call
<1>3. CASE b = "saveTheme"
  BY <1>3, <1>1 DEF Served, BrandingButtons, Button, Shown, Call
<1>4. CASE b = "reset"
  BY <1>4, <1>1 DEF Served, BrandingButtons, Button, Shown, Call
<1>5. QED
  BY <1>2, <1>3, <1>4 DEF BrandingButtons

LEMMA TicketButtonsWork ==
  ASSUME NEW U, NEW H, NEW C
  PROVE  Works(U, H, C, "ticket", Free, TicketButtons)
<1>1. \A b \in DOMAIN TicketButtons :
        /\ b \in DOMAIN TicketForms \cup DOMAIN TicketTools
        /\ TicketButtons[b] = IF b \in DOMAIN TicketForms THEN TicketForms[b] ELSE TicketTools[b]
  BY DEF TicketButtons
<1>2. Works(U, H, C, "ticket", Free, TicketForms) /\ Works(U, H, C, "ticket", Free, TicketTools)
  BY TicketFormsWork, TicketToolsWork
<1>3. QED
  BY <1>1, <1>2 DEF Works

(* Every button of every page works. *)
LEMMA ButtonsWork ==
  ASSUME NEW U, NEW H, NEW C, NEW p \in DOMAIN ButtonsOf
  PROVE  Works(U, H, C, p, AllPages[p].gate, ButtonsOf[p])
<1>1. CASE p = "tickets"
  <2>1. ButtonsOf["tickets"] = TicketsButtons /\ AllPages["tickets"] = TicketsPage
    BY DEF ButtonsOf, AllPages
  <2>2. TicketsPage.gate = Free
    BY DEF TicketsPage, Page, PageOf
  <2>3. QED
    BY <1>1, <2>1, <2>2, TicketsButtonsWork
<1>2. CASE p = "ticket"
  <2>1. ButtonsOf["ticket"] = TicketButtons /\ AllPages["ticket"] = TicketPage
    BY DEF ButtonsOf, AllPages
  <2>2. TicketPage.gate = Free
    BY DEF TicketPage, Page, PageOf
  <2>3. QED
    BY <1>2, <2>1, <2>2, TicketButtonsWork
<1>3. CASE p = "queue"
  <2>1. ButtonsOf["queue"] = QueueButtons /\ AllPages["queue"] = QueuePage
    BY DEF ButtonsOf, AllPages
  <2>2. QueuePage.gate = ShowAgentWorkspace
    BY DEF QueuePage, Page, PageOf
  <2>3. QED
    BY <1>3, <2>1, <2>2, QueueButtonsWork
<1>4. CASE p = "major"
  <2>1. ButtonsOf["major"] = MajorButtons /\ AllPages["major"] = MajorPage
    BY DEF ButtonsOf, AllPages
  <2>2. MajorPage.gate = ShowAgentWorkspace
    BY DEF MajorPage, Page, PageOf
  <2>3. QED
    BY <1>4, <2>1, <2>2, MajorButtonsWork
<1>5. CASE p = "problems"
  <2>1. ButtonsOf["problems"] = ProblemsButtons /\ AllPages["problems"] = ProblemsPage
    BY DEF ButtonsOf, AllPages
  <2>2. ProblemsPage.gate = ShowAgentWorkspace
    BY DEF ProblemsPage, Page, PageOf
  <2>3. QED
    BY <1>5, <2>1, <2>2, ProblemsButtonsWork
<1>6. CASE p = "changes"
  <2>1. ButtonsOf["changes"] = ChangesButtons /\ AllPages["changes"] = ChangesPage
    BY DEF ButtonsOf, AllPages
  <2>2. ChangesPage.gate = ShowAgentWorkspace
    BY DEF ChangesPage, Page, PageOf
  <2>3. QED
    BY <1>6, <2>1, <2>2, ChangesButtonsWork
<1>7. CASE p = "im"
  <2>1. ButtonsOf["im"] = ImButtons /\ AllPages["im"] = ImPage
    BY DEF ButtonsOf, AllPages
  <2>2. ImPage.gate = Needs("im:read")
    BY DEF ImPage, Page, PageOf
  <2>3. QED
    BY <1>7, <2>1, <2>2, ImButtonsWork
<1>8. CASE p = "incident"
  <2>1. ButtonsOf["incident"] = IncidentButtons /\ AllPages["incident"] = IncidentPage
    BY DEF ButtonsOf, AllPages
  <2>2. IncidentPage.gate = Needs("im:read")
    BY DEF IncidentPage, Page, PageOf
  <2>3. QED
    BY <1>8, <2>1, <2>2, IncidentButtonsWork
<1>9. CASE p = "approvals"
  <2>1. ButtonsOf["approvals"] = ApprovalsButtons /\ AllPages["approvals"] = ApprovalsPage
    BY DEF ButtonsOf, AllPages
  <2>2. ApprovalsPage.gate = Needs("approvals:read")
    BY DEF ApprovalsPage, Page, PageOf
  <2>3. QED
    BY <1>9, <2>1, <2>2, ApprovalsButtonsWork
<1>10. CASE p = "assets"
  <2>1. ButtonsOf["assets"] = AssetsButtons /\ AllPages["assets"] = AssetsPage
    BY DEF ButtonsOf, AllPages
  <2>2. AssetsPage.gate = Needs("assets:read")
    BY DEF AssetsPage, Page, PageOf
  <2>3. QED
    BY <1>10, <2>1, <2>2, AssetsButtonsWork
<1>11. CASE p = "audit"
  <2>1. ButtonsOf["audit"] = AuditButtons /\ AllPages["audit"] = AuditPage
    BY DEF ButtonsOf, AllPages
  <2>2. AuditPage.gate = Needs("audit:read")
    BY DEF AuditPage, Page, PageOf
  <2>3. QED
    BY <1>11, <2>1, <2>2, AuditButtonsWork
<1>12. CASE p = "catalog"
  <2>1. ButtonsOf["catalog"] = CatalogButtons /\ AllPages["catalog"] = CatalogPage
    BY DEF ButtonsOf, AllPages
  <2>2. CatalogPage.gate = Free
    BY DEF CatalogPage, Page, PageOf
  <2>3. QED
    BY <1>12, <2>1, <2>2, CatalogButtonsWork
<1>13. CASE p = "knowledge"
  <2>1. ButtonsOf["knowledge"] = KnowledgeButtons /\ AllPages["knowledge"] = KnowledgePage
    BY DEF ButtonsOf, AllPages
  <2>2. KnowledgePage.gate = OneOf({"knowledge:read", "knowledge:write"})
    BY DEF KnowledgePage, Page, PageOf
  <2>3. QED
    BY <1>13, <2>1, <2>2, KnowledgeButtonsWork
<1>14. CASE p = "article"
  <2>1. ButtonsOf["article"] = ArticleButtons /\ AllPages["article"] = ArticlePage
    BY DEF ButtonsOf, AllPages
  <2>2. ArticlePage.gate = Free
    BY DEF ArticlePage, Page, PageOf
  <2>3. QED
    BY <1>14, <2>1, <2>2, ArticleButtonsWork
<1>15. CASE p = "new_article"
  <2>1. ButtonsOf["new_article"] = NewArticleButtons /\ AllPages["new_article"] = NewArticlePage
    BY DEF ButtonsOf, AllPages
  <2>2. NewArticlePage.gate = WritesKnowledge
    BY DEF NewArticlePage, Page, PageOf
  <2>3. QED
    BY <1>15, <2>1, <2>2, NewArticleButtonsWork
<1>16. CASE p = "notifications"
  <2>1. ButtonsOf["notifications"] = NotificationsButtons /\ AllPages["notifications"] = NotificationsPage
    BY DEF ButtonsOf, AllPages
  <2>2. NotificationsPage.gate = Free
    BY DEF NotificationsPage, Page, PageOf
  <2>3. QED
    BY <1>16, <2>1, <2>2, NotificationsButtonsWork
<1>17. CASE p = "profile"
  <2>1. ButtonsOf["profile"] = ProfileButtons /\ AllPages["profile"] = ProfilePage
    BY DEF ButtonsOf, AllPages
  <2>2. ProfilePage.gate = Free
    BY DEF ProfilePage, Page, PageOf
  <2>3. QED
    BY <1>17, <2>1, <2>2, ProfileButtonsWork
<1>18. CASE p = "reports"
  <2>1. ButtonsOf["reports"] = ReportsButtons /\ AllPages["reports"] = ReportsPage
    BY DEF ButtonsOf, AllPages
  <2>2. ReportsPage.gate = ReadsReports
    BY DEF ReportsPage, Page, PageOf
  <2>3. QED
    BY <1>18, <2>1, <2>2, ReportsButtonsWork
<1>19. CASE p = "users"
  <2>1. ButtonsOf["users"] = UsersButtons /\ AllPages["users"] = UsersPage
    BY DEF ButtonsOf, AllPages
  <2>2. UsersPage.gate = OneOf({"users:manage", "users:read"})
    BY DEF UsersPage, Page, PageOf
  <2>3. QED
    BY <1>19, <2>1, <2>2, UsersButtonsWork
<1>20. CASE p = "roles"
  <2>1. ButtonsOf["roles"] = RolesButtons /\ AllPages["roles"] = RolesPage
    BY DEF ButtonsOf, AllPages
  <2>2. RolesPage.gate = OneOf({"roles:manage", "users:manage"})
    BY DEF RolesPage, Page, PageOf
  <2>3. QED
    BY <1>20, <2>1, <2>2, RolesButtonsWork
<1>21. CASE p = "teams"
  <2>1. ButtonsOf["teams"] = TeamsButtons /\ AllPages["teams"] = TeamsPage
    BY DEF ButtonsOf, AllPages
  <2>2. TeamsPage.gate = ReadsOrg
    BY DEF TeamsPage, Page, PageOf
  <2>3. QED
    BY <1>21, <2>1, <2>2, TeamsButtonsWork
<1>22. CASE p = "departments"
  <2>1. ButtonsOf["departments"] = DepartmentsButtons /\ AllPages["departments"] = DepartmentsPage
    BY DEF ButtonsOf, AllPages
  <2>2. DepartmentsPage.gate = ReadsOrg
    BY DEF DepartmentsPage, Page, PageOf
  <2>3. QED
    BY <1>22, <2>1, <2>2, DepartmentsButtonsWork
<1>23. CASE p = "locations"
  <2>1. ButtonsOf["locations"] = LocationsButtons /\ AllPages["locations"] = LocationsPage
    BY DEF ButtonsOf, AllPages
  <2>2. LocationsPage.gate = ReadsOrg
    BY DEF LocationsPage, Page, PageOf
  <2>3. QED
    BY <1>23, <2>1, <2>2, LocationsButtonsWork
<1>24. CASE p = "routing"
  <2>1. ButtonsOf["routing"] = RoutingButtons /\ AllPages["routing"] = RoutingPage
    BY DEF ButtonsOf, AllPages
  <2>2. RoutingPage.gate = OneOf({"settings:manage", "org:read", "org:manage"})
    BY DEF RoutingPage, Page, PageOf
  <2>3. QED
    BY <1>24, <2>1, <2>2, RoutingButtonsWork
<1>25. CASE p = "policies"
  <2>1. ButtonsOf["policies"] = PoliciesButtons /\ AllPages["policies"] = PoliciesPage
    BY DEF ButtonsOf, AllPages
  <2>2. PoliciesPage.gate = CanManageApprovalPolicies
    BY DEF PoliciesPage, Page, PageOf
  <2>3. QED
    BY <1>25, <2>1, <2>2, PoliciesButtonsWork
<1>26. CASE p = "automation"
  <2>1. ButtonsOf["automation"] = AutomationButtons /\ AllPages["automation"] = AutomationPage
    BY DEF ButtonsOf, AllPages
  <2>2. AutomationPage.gate = Needs("settings:manage")
    BY DEF AutomationPage, Page, PageOf
  <2>3. QED
    BY <1>26, <2>1, <2>2, AutomationButtonsWork
<1>27. CASE p = "integrations"
  <2>1. ButtonsOf["integrations"] = IntegrationsButtons /\ AllPages["integrations"] = IntegrationsPage
    BY DEF ButtonsOf, AllPages
  <2>2. IntegrationsPage.gate = Needs("sysadmin")
    BY DEF IntegrationsPage, Page, PageOf
  <2>3. QED
    BY <1>27, <2>1, <2>2, IntegrationsButtonsWork
<1>28. CASE p = "branding"
  <2>1. ButtonsOf["branding"] = BrandingButtons /\ AllPages["branding"] = BrandingPage
    BY DEF ButtonsOf, AllPages
  <2>2. BrandingPage.gate = Needs("sysadmin")
    BY DEF BrandingPage, Page, PageOf
  <2>3. QED
    BY <1>28, <2>1, <2>2, BrandingButtonsWork
<1>29. DOMAIN ButtonsOf = {"tickets", "ticket", "queue", "major", "problems", "changes", "im", "incident", "approvals", "assets", "audit", "catalog", "knowledge", "article", "new_article", "notifications", "profile", "reports", "users", "roles", "teams", "departments", "locations", "routing", "policies", "automation", "integrations", "branding"}
  BY DEF ButtonsOf
<1>30. QED
  BY <1>1, <1>2, <1>3, <1>4, <1>5, <1>6, <1>7, <1>8, <1>9, <1>10, <1>11, <1>12, <1>13, <1>14,
     <1>15, <1>16, <1>17, <1>18, <1>19, <1>20, <1>21, <1>22, <1>23, <1>24, <1>25, <1>26, <1>27,
     <1>28, <1>29

(***************************************************************************)
(* The menus and the home page                                             *)
(***************************************************************************)
(* An entry that leads the user to a page that is open to the user; the
   knowledge base is shown to everybody. *)
EntryLeads(U, entry) == entry = "knowledge" \/ (entry \in DOMAIN EntryNeed /\ Meets(U, EntryNeed[entry]))

LEMMA EntriesNamed == DOMAIN EntryNeed \cup {"knowledge"} \subseteq PageNames
  BY DEF EntryNeed, PageNames

LEMMA NavGatesLead ==
  ASSUME NEW U, NEW H, NEW C, Visitor(U, H, C), NEW entry \in Offered(H, NavGates)
  PROVE  EntryLeads(U, entry)
<1>0. DOMAIN NavGates = {"major", "problems", "changes", "im", "approvals", "assets", "reports", "audit", "users",
     "roles", "teams", "departments", "locations", "routing", "policies", "automation",
     "integrations", "branding"}
  BY DEF NavGates
<1>1. CASE entry = "major"
  <2>1. NavGates["major"] = ShowAgentWorkspace /\ EntryNeed["major"] = ShowAgentWorkspace /\ "major" \in DOMAIN EntryNeed
    BY DEF NavGates, EntryNeed
  <2>2. Meets(H, ShowAgentWorkspace)
    BY <1>1, <2>1 DEF Offered
  <2>3. Meets(U, ShowAgentWorkspace)
    BY <2>2 DEF Meets, Visitor, OneOf, ShowAgentWorkspace
  <2>4. QED
    BY <1>1, <2>1, <2>3 DEF EntryLeads
<1>2. CASE entry = "problems"
  <2>1. NavGates["problems"] = ShowAgentWorkspace /\ EntryNeed["problems"] = ShowAgentWorkspace /\ "problems" \in DOMAIN EntryNeed
    BY DEF NavGates, EntryNeed
  <2>2. Meets(H, ShowAgentWorkspace)
    BY <1>2, <2>1 DEF Offered
  <2>3. Meets(U, ShowAgentWorkspace)
    BY <2>2 DEF Meets, Visitor, OneOf, ShowAgentWorkspace
  <2>4. QED
    BY <1>2, <2>1, <2>3 DEF EntryLeads
<1>3. CASE entry = "changes"
  <2>1. NavGates["changes"] = ShowAgentWorkspace /\ EntryNeed["changes"] = ShowAgentWorkspace /\ "changes" \in DOMAIN EntryNeed
    BY DEF NavGates, EntryNeed
  <2>2. Meets(H, ShowAgentWorkspace)
    BY <1>3, <2>1 DEF Offered
  <2>3. Meets(U, ShowAgentWorkspace)
    BY <2>2 DEF Meets, Visitor, OneOf, ShowAgentWorkspace
  <2>4. QED
    BY <1>3, <2>1, <2>3 DEF EntryLeads
<1>4. CASE entry = "im"
  <2>1. NavGates["im"] = Needs("im:read") /\ EntryNeed["im"] = Needs("im:read") /\ "im" \in DOMAIN EntryNeed
    BY DEF NavGates, EntryNeed
  <2>2. Meets(H, Needs("im:read"))
    BY <1>4, <2>1 DEF Offered
  <2>3. Meets(U, Needs("im:read"))
    BY <2>2 DEF Meets, Visitor, Needs
  <2>4. QED
    BY <1>4, <2>1, <2>3 DEF EntryLeads
<1>5. CASE entry = "approvals"
  <2>1. NavGates["approvals"] = Needs("approvals:read") /\ EntryNeed["approvals"] = Needs("approvals:read") /\ "approvals" \in DOMAIN EntryNeed
    BY DEF NavGates, EntryNeed
  <2>2. Meets(H, Needs("approvals:read"))
    BY <1>5, <2>1 DEF Offered
  <2>3. Meets(U, Needs("approvals:read"))
    BY <2>2 DEF Meets, Visitor, Needs
  <2>4. QED
    BY <1>5, <2>1, <2>3 DEF EntryLeads
<1>6. CASE entry = "assets"
  <2>1. NavGates["assets"] = Needs("assets:read") /\ EntryNeed["assets"] = Needs("assets:read") /\ "assets" \in DOMAIN EntryNeed
    BY DEF NavGates, EntryNeed
  <2>2. Meets(H, Needs("assets:read"))
    BY <1>6, <2>1 DEF Offered
  <2>3. Meets(U, Needs("assets:read"))
    BY <2>2 DEF Meets, Visitor, Needs
  <2>4. QED
    BY <1>6, <2>1, <2>3 DEF EntryLeads
<1>7. CASE entry = "reports"
  <2>1. NavGates["reports"] = Needs("reports:read") /\ EntryNeed["reports"] = Needs("reports:read") /\ "reports" \in DOMAIN EntryNeed
    BY DEF NavGates, EntryNeed
  <2>2. Meets(H, Needs("reports:read"))
    BY <1>7, <2>1 DEF Offered
  <2>3. Meets(U, Needs("reports:read"))
    BY <2>2 DEF Meets, Visitor, Needs
  <2>4. QED
    BY <1>7, <2>1, <2>3 DEF EntryLeads
<1>8. CASE entry = "audit"
  <2>1. NavGates["audit"] = Needs("audit:read") /\ EntryNeed["audit"] = Needs("audit:read") /\ "audit" \in DOMAIN EntryNeed
    BY DEF NavGates, EntryNeed
  <2>2. Meets(H, Needs("audit:read"))
    BY <1>8, <2>1 DEF Offered
  <2>3. Meets(U, Needs("audit:read"))
    BY <2>2 DEF Meets, Visitor, Needs
  <2>4. QED
    BY <1>8, <2>1, <2>3 DEF EntryLeads
<1>9. CASE entry = "users"
  <2>1. NavGates["users"] = Needs("users:manage") /\ EntryNeed["users"] = Needs("users:manage") /\ "users" \in DOMAIN EntryNeed
    BY DEF NavGates, EntryNeed
  <2>2. Meets(H, Needs("users:manage"))
    BY <1>9, <2>1 DEF Offered
  <2>3. Meets(U, Needs("users:manage"))
    BY <2>2 DEF Meets, Visitor, Needs
  <2>4. QED
    BY <1>9, <2>1, <2>3 DEF EntryLeads
<1>10. CASE entry = "roles"
  <2>1. NavGates["roles"] = OneOf({"roles:manage", "users:manage"}) /\ EntryNeed["roles"] = OneOf({"roles:manage", "users:manage"}) /\ "roles" \in DOMAIN EntryNeed
    BY DEF NavGates, EntryNeed
  <2>2. Meets(H, OneOf({"roles:manage", "users:manage"}))
    BY <1>10, <2>1 DEF Offered
  <2>3. Meets(U, OneOf({"roles:manage", "users:manage"}))
    BY <2>2 DEF Meets, Visitor, OneOf
  <2>4. QED
    BY <1>10, <2>1, <2>3 DEF EntryLeads
<1>11. CASE entry = "teams"
  <2>1. NavGates["teams"] = Needs("org:manage") /\ EntryNeed["teams"] = Needs("org:manage") /\ "teams" \in DOMAIN EntryNeed
    BY DEF NavGates, EntryNeed
  <2>2. Meets(H, Needs("org:manage"))
    BY <1>11, <2>1 DEF Offered
  <2>3. Meets(U, Needs("org:manage"))
    BY <2>2 DEF Meets, Visitor, Needs
  <2>4. QED
    BY <1>11, <2>1, <2>3 DEF EntryLeads
<1>12. CASE entry = "departments"
  <2>1. NavGates["departments"] = Needs("org:manage") /\ EntryNeed["departments"] = Needs("org:manage") /\ "departments" \in DOMAIN EntryNeed
    BY DEF NavGates, EntryNeed
  <2>2. Meets(H, Needs("org:manage"))
    BY <1>12, <2>1 DEF Offered
  <2>3. Meets(U, Needs("org:manage"))
    BY <2>2 DEF Meets, Visitor, Needs
  <2>4. QED
    BY <1>12, <2>1, <2>3 DEF EntryLeads
<1>13. CASE entry = "locations"
  <2>1. NavGates["locations"] = Needs("org:manage") /\ EntryNeed["locations"] = Needs("org:manage") /\ "locations" \in DOMAIN EntryNeed
    BY DEF NavGates, EntryNeed
  <2>2. Meets(H, Needs("org:manage"))
    BY <1>13, <2>1 DEF Offered
  <2>3. Meets(U, Needs("org:manage"))
    BY <2>2 DEF Meets, Visitor, Needs
  <2>4. QED
    BY <1>13, <2>1, <2>3 DEF EntryLeads
<1>14. CASE entry = "routing"
  <2>1. NavGates["routing"] = OneOf({"settings:manage", "org:manage"}) /\ EntryNeed["routing"] = OneOf({"settings:manage", "org:manage"}) /\ "routing" \in DOMAIN EntryNeed
    BY DEF NavGates, EntryNeed
  <2>2. Meets(H, OneOf({"settings:manage", "org:manage"}))
    BY <1>14, <2>1 DEF Offered
  <2>3. Meets(U, OneOf({"settings:manage", "org:manage"}))
    BY <2>2 DEF Meets, Visitor, OneOf
  <2>4. QED
    BY <1>14, <2>1, <2>3 DEF EntryLeads
<1>15. CASE entry = "policies"
  <2>1. NavGates["policies"] = CanManageApprovalPolicies /\ EntryNeed["policies"] = CanManageApprovalPolicies /\ "policies" \in DOMAIN EntryNeed
    BY DEF NavGates, EntryNeed
  <2>2. Meets(H, CanManageApprovalPolicies)
    BY <1>15, <2>1 DEF Offered
  <2>3. Meets(U, CanManageApprovalPolicies)
    BY <2>2 DEF Meets, Visitor, OneOf, CanManageApprovalPolicies
  <2>4. QED
    BY <1>15, <2>1, <2>3 DEF EntryLeads
<1>16. CASE entry = "automation"
  <2>1. NavGates["automation"] = Needs("settings:manage") /\ EntryNeed["automation"] = Needs("settings:manage") /\ "automation" \in DOMAIN EntryNeed
    BY DEF NavGates, EntryNeed
  <2>2. Meets(H, Needs("settings:manage"))
    BY <1>16, <2>1 DEF Offered
  <2>3. Meets(U, Needs("settings:manage"))
    BY <2>2 DEF Meets, Visitor, Needs
  <2>4. QED
    BY <1>16, <2>1, <2>3 DEF EntryLeads
<1>17. CASE entry = "integrations"
  <2>1. NavGates["integrations"] = Needs("sysadmin") /\ EntryNeed["integrations"] = Needs("sysadmin") /\ "integrations" \in DOMAIN EntryNeed
    BY DEF NavGates, EntryNeed
  <2>2. Meets(H, Needs("sysadmin"))
    BY <1>17, <2>1 DEF Offered
  <2>3. Meets(U, Needs("sysadmin"))
    BY <2>2 DEF Meets, Visitor, Needs
  <2>4. QED
    BY <1>17, <2>1, <2>3 DEF EntryLeads
<1>18. CASE entry = "branding"
  <2>1. NavGates["branding"] = Needs("sysadmin") /\ EntryNeed["branding"] = Needs("sysadmin") /\ "branding" \in DOMAIN EntryNeed
    BY DEF NavGates, EntryNeed
  <2>2. Meets(H, Needs("sysadmin"))
    BY <1>18, <2>1 DEF Offered
  <2>3. Meets(U, Needs("sysadmin"))
    BY <2>2 DEF Meets, Visitor, Needs
  <2>4. QED
    BY <1>18, <2>1, <2>3 DEF EntryLeads
<1>19. QED
  BY <1>0, <1>1, <1>2, <1>3, <1>4, <1>5, <1>6, <1>7, <1>8, <1>9, <1>10, <1>11, <1>12, <1>13,
     <1>14, <1>15, <1>16, <1>17, <1>18 DEF Offered

LEMMA AdminActionsLead ==
  ASSUME NEW U, NEW H, NEW C, Visitor(U, H, C), "sysadmin" \in H, NEW entry \in Offered(H, AdminActions)
  PROVE  EntryLeads(U, entry)
<1>0. DOMAIN AdminActions = {"users", "roles", "teams", "locations", "integrations", "branding", "routing", "policies",
     "automation", "im", "queue", "tickets", "new_article", "catalog", "assets", "audit",
     "reports"}
  BY DEF AdminActions
<1>1. CASE entry = "users"
  <2>1. AdminActions["users"] = Needs("users:manage") /\ EntryNeed["users"] = Needs("users:manage") /\ "users" \in DOMAIN EntryNeed
    BY DEF AdminActions, EntryNeed
  <2>2. Meets(H, Needs("users:manage"))
    BY <1>1, <2>1 DEF Offered
  <2>3. Meets(U, Needs("users:manage"))
    BY <2>2 DEF Meets, Visitor, Needs
  <2>4. QED
    BY <1>1, <2>1, <2>3 DEF EntryLeads
<1>2. CASE entry = "roles"
  <2>1. AdminActions["roles"] = OneOf({"roles:manage", "users:manage"}) /\ EntryNeed["roles"] = OneOf({"roles:manage", "users:manage"}) /\ "roles" \in DOMAIN EntryNeed
    BY DEF AdminActions, EntryNeed
  <2>2. Meets(H, OneOf({"roles:manage", "users:manage"}))
    BY <1>2, <2>1 DEF Offered
  <2>3. Meets(U, OneOf({"roles:manage", "users:manage"}))
    BY <2>2 DEF Meets, Visitor, OneOf
  <2>4. QED
    BY <1>2, <2>1, <2>3 DEF EntryLeads
<1>3. CASE entry = "teams"
  <2>1. AdminActions["teams"] = Needs("org:manage") /\ EntryNeed["teams"] = Needs("org:manage") /\ "teams" \in DOMAIN EntryNeed
    BY DEF AdminActions, EntryNeed
  <2>2. Meets(H, Needs("org:manage"))
    BY <1>3, <2>1 DEF Offered
  <2>3. Meets(U, Needs("org:manage"))
    BY <2>2 DEF Meets, Visitor, Needs
  <2>4. QED
    BY <1>3, <2>1, <2>3 DEF EntryLeads
<1>4. CASE entry = "locations"
  <2>1. AdminActions["locations"] = Needs("org:manage") /\ EntryNeed["locations"] = Needs("org:manage") /\ "locations" \in DOMAIN EntryNeed
    BY DEF AdminActions, EntryNeed
  <2>2. Meets(H, Needs("org:manage"))
    BY <1>4, <2>1 DEF Offered
  <2>3. Meets(U, Needs("org:manage"))
    BY <2>2 DEF Meets, Visitor, Needs
  <2>4. QED
    BY <1>4, <2>1, <2>3 DEF EntryLeads
<1>5. CASE entry = "integrations"
  <2>1. AdminActions["integrations"] = Free /\ EntryNeed["integrations"] = Needs("sysadmin") /\ "integrations" \in DOMAIN EntryNeed
    BY DEF AdminActions, EntryNeed
  <2>2. Meets(H, Free)
    BY <1>5, <2>1 DEF Offered
  <2>3. Meets(U, Needs("sysadmin"))
    BY <2>2 DEF Meets, Visitor, Needs, Free
  <2>4. QED
    BY <1>5, <2>1, <2>3 DEF EntryLeads
<1>6. CASE entry = "branding"
  <2>1. AdminActions["branding"] = Free /\ EntryNeed["branding"] = Needs("sysadmin") /\ "branding" \in DOMAIN EntryNeed
    BY DEF AdminActions, EntryNeed
  <2>2. Meets(H, Free)
    BY <1>6, <2>1 DEF Offered
  <2>3. Meets(U, Needs("sysadmin"))
    BY <2>2 DEF Meets, Visitor, Needs, Free
  <2>4. QED
    BY <1>6, <2>1, <2>3 DEF EntryLeads
<1>7. CASE entry = "routing"
  <2>1. AdminActions["routing"] = OneOf({"settings:manage", "org:manage"}) /\ EntryNeed["routing"] = OneOf({"settings:manage", "org:manage"}) /\ "routing" \in DOMAIN EntryNeed
    BY DEF AdminActions, EntryNeed
  <2>2. Meets(H, OneOf({"settings:manage", "org:manage"}))
    BY <1>7, <2>1 DEF Offered
  <2>3. Meets(U, OneOf({"settings:manage", "org:manage"}))
    BY <2>2 DEF Meets, Visitor, OneOf
  <2>4. QED
    BY <1>7, <2>1, <2>3 DEF EntryLeads
<1>8. CASE entry = "policies"
  <2>1. AdminActions["policies"] = CanManageApprovalPolicies /\ EntryNeed["policies"] = CanManageApprovalPolicies /\ "policies" \in DOMAIN EntryNeed
    BY DEF AdminActions, EntryNeed
  <2>2. Meets(H, CanManageApprovalPolicies)
    BY <1>8, <2>1 DEF Offered
  <2>3. Meets(U, CanManageApprovalPolicies)
    BY <2>2 DEF Meets, Visitor, OneOf, CanManageApprovalPolicies
  <2>4. QED
    BY <1>8, <2>1, <2>3 DEF EntryLeads
<1>9. CASE entry = "automation"
  <2>1. AdminActions["automation"] = Needs("settings:manage") /\ EntryNeed["automation"] = Needs("settings:manage") /\ "automation" \in DOMAIN EntryNeed
    BY DEF AdminActions, EntryNeed
  <2>2. Meets(H, Needs("settings:manage"))
    BY <1>9, <2>1 DEF Offered
  <2>3. Meets(U, Needs("settings:manage"))
    BY <2>2 DEF Meets, Visitor, Needs
  <2>4. QED
    BY <1>9, <2>1, <2>3 DEF EntryLeads
<1>10. CASE entry = "im"
  <2>1. AdminActions["im"] = Needs("im:read") /\ EntryNeed["im"] = Needs("im:read") /\ "im" \in DOMAIN EntryNeed
    BY DEF AdminActions, EntryNeed
  <2>2. Meets(H, Needs("im:read"))
    BY <1>10, <2>1 DEF Offered
  <2>3. Meets(U, Needs("im:read"))
    BY <2>2 DEF Meets, Visitor, Needs
  <2>4. QED
    BY <1>10, <2>1, <2>3 DEF EntryLeads
<1>11. CASE entry = "queue"
  <2>1. AdminActions["queue"] = BrowsesStaff /\ EntryNeed["queue"] = ShowAgentWorkspace /\ "queue" \in DOMAIN EntryNeed
    BY DEF AdminActions, EntryNeed
  <2>2. Meets(H, BrowsesStaff)
    BY <1>11, <2>1 DEF Offered
  <2>3. Meets(U, ShowAgentWorkspace)
    BY <2>2 DEF Meets, Visitor, OneOf, ShowAgentWorkspace, BrowsesStaff
  <2>4. QED
    BY <1>11, <2>1, <2>3 DEF EntryLeads
<1>12. CASE entry = "tickets"
  <2>1. AdminActions["tickets"] = BrowsesStaff /\ EntryNeed["tickets"] = Free /\ "tickets" \in DOMAIN EntryNeed
    BY DEF AdminActions, EntryNeed
  <2>2. Meets(H, BrowsesStaff)
    BY <1>12, <2>1 DEF Offered
  <2>3. Meets(U, Free)
    BY <2>2 DEF Meets, Visitor, OneOf, Free, BrowsesStaff
  <2>4. QED
    BY <1>12, <2>1, <2>3 DEF EntryLeads
<1>13. CASE entry = "new_article"
  <2>1. AdminActions["new_article"] = Needs("knowledge:write") /\ EntryNeed["new_article"] = Needs("knowledge:write") /\ "new_article" \in DOMAIN EntryNeed
    BY DEF AdminActions, EntryNeed
  <2>2. Meets(H, Needs("knowledge:write"))
    BY <1>13, <2>1 DEF Offered
  <2>3. Meets(U, Needs("knowledge:write"))
    BY <2>2 DEF Meets, Visitor, Needs
  <2>4. QED
    BY <1>13, <2>1, <2>3 DEF EntryLeads
<1>14. CASE entry = "catalog"
  <2>1. AdminActions["catalog"] = Needs("settings:manage") /\ EntryNeed["catalog"] = Free /\ "catalog" \in DOMAIN EntryNeed
    BY DEF AdminActions, EntryNeed
  <2>2. Meets(H, Needs("settings:manage"))
    BY <1>14, <2>1 DEF Offered
  <2>3. Meets(U, Free)
    BY <2>2 DEF Meets, Visitor, Needs, Free
  <2>4. QED
    BY <1>14, <2>1, <2>3 DEF EntryLeads
<1>15. CASE entry = "assets"
  <2>1. AdminActions["assets"] = Needs("assets:write") /\ EntryNeed["assets"] = Needs("assets:read") /\ "assets" \in DOMAIN EntryNeed
    BY DEF AdminActions, EntryNeed
  <2>2. Meets(H, Needs("assets:write"))
    BY <1>15, <2>1 DEF Offered
  <2>3. Meets(U, Needs("assets:read"))
    BY <2>2, RolesGrant DEF Meets, Visitor, Needs
  <2>4. QED
    BY <1>15, <2>1, <2>3 DEF EntryLeads
<1>16. CASE entry = "audit"
  <2>1. AdminActions["audit"] = Needs("audit:read") /\ EntryNeed["audit"] = Needs("audit:read") /\ "audit" \in DOMAIN EntryNeed
    BY DEF AdminActions, EntryNeed
  <2>2. Meets(H, Needs("audit:read"))
    BY <1>16, <2>1 DEF Offered
  <2>3. Meets(U, Needs("audit:read"))
    BY <2>2 DEF Meets, Visitor, Needs
  <2>4. QED
    BY <1>16, <2>1, <2>3 DEF EntryLeads
<1>17. CASE entry = "reports"
  <2>1. AdminActions["reports"] = Needs("reports:read") /\ EntryNeed["reports"] = Needs("reports:read") /\ "reports" \in DOMAIN EntryNeed
    BY DEF AdminActions, EntryNeed
  <2>2. Meets(H, Needs("reports:read"))
    BY <1>17, <2>1 DEF Offered
  <2>3. Meets(U, Needs("reports:read"))
    BY <2>2 DEF Meets, Visitor, Needs
  <2>4. QED
    BY <1>17, <2>1, <2>3 DEF EntryLeads
<1>18. QED
  BY <1>0, <1>1, <1>2, <1>3, <1>4, <1>5, <1>6, <1>7, <1>8, <1>9, <1>10, <1>11, <1>12, <1>13,
     <1>14, <1>15, <1>16, <1>17 DEF Offered

LEMMA AuditorActionsLead ==
  ASSUME NEW U, NEW H, NEW C, Visitor(U, H, C), NEW entry \in Offered(H, AuditorActions)
  PROVE  EntryLeads(U, entry)
<1>0. DOMAIN AuditorActions = {"audit", "reports", "tickets"}
  BY DEF AuditorActions
<1>1. CASE entry = "audit"
  <2>1. AuditorActions["audit"] = Needs("audit:read") /\ EntryNeed["audit"] = Needs("audit:read") /\ "audit" \in DOMAIN EntryNeed
    BY DEF AuditorActions, EntryNeed
  <2>2. Meets(H, Needs("audit:read"))
    BY <1>1, <2>1 DEF Offered
  <2>3. Meets(U, Needs("audit:read"))
    BY <2>2 DEF Meets, Visitor, Needs
  <2>4. QED
    BY <1>1, <2>1, <2>3 DEF EntryLeads
<1>2. CASE entry = "reports"
  <2>1. AuditorActions["reports"] = Needs("reports:read") /\ EntryNeed["reports"] = Needs("reports:read") /\ "reports" \in DOMAIN EntryNeed
    BY DEF AuditorActions, EntryNeed
  <2>2. Meets(H, Needs("reports:read"))
    BY <1>2, <2>1 DEF Offered
  <2>3. Meets(U, Needs("reports:read"))
    BY <2>2 DEF Meets, Visitor, Needs
  <2>4. QED
    BY <1>2, <2>1, <2>3 DEF EntryLeads
<1>3. CASE entry = "tickets"
  <2>1. AuditorActions["tickets"] = BrowsesStaff /\ EntryNeed["tickets"] = Free /\ "tickets" \in DOMAIN EntryNeed
    BY DEF AuditorActions, EntryNeed
  <2>2. Meets(H, BrowsesStaff)
    BY <1>3, <2>1 DEF Offered
  <2>3. Meets(U, Free)
    BY <2>2 DEF Meets, Visitor, OneOf, Free, BrowsesStaff
  <2>4. QED
    BY <1>3, <2>1, <2>3 DEF EntryLeads
<1>4. QED
  BY <1>0, <1>1, <1>2, <1>3 DEF Offered

LEMMA ManagerActionsLead ==
  ASSUME NEW U, NEW H, NEW C, Visitor(U, H, C), "it_manager" \in H, NEW entry \in Offered(H, ManagerActions)
  PROVE  EntryLeads(U, entry)
<1>0. DOMAIN ManagerActions = {"reports", "teams", "locations", "queue", "tickets", "approvals", "policies", "im", "assets"}
  BY DEF ManagerActions
<1>1. CASE entry = "reports"
  <2>1. ManagerActions["reports"] = Needs("reports:read") /\ EntryNeed["reports"] = Needs("reports:read") /\ "reports" \in DOMAIN EntryNeed
    BY DEF ManagerActions, EntryNeed
  <2>2. Meets(H, Needs("reports:read"))
    BY <1>1, <2>1 DEF Offered
  <2>3. Meets(U, Needs("reports:read"))
    BY <2>2 DEF Meets, Visitor, Needs
  <2>4. QED
    BY <1>1, <2>1, <2>3 DEF EntryLeads
<1>2. CASE entry = "teams"
  <2>1. ManagerActions["teams"] = Needs("org:manage") /\ EntryNeed["teams"] = Needs("org:manage") /\ "teams" \in DOMAIN EntryNeed
    BY DEF ManagerActions, EntryNeed
  <2>2. Meets(H, Needs("org:manage"))
    BY <1>2, <2>1 DEF Offered
  <2>3. Meets(U, Needs("org:manage"))
    BY <2>2 DEF Meets, Visitor, Needs
  <2>4. QED
    BY <1>2, <2>1, <2>3 DEF EntryLeads
<1>3. CASE entry = "locations"
  <2>1. ManagerActions["locations"] = Needs("org:manage") /\ EntryNeed["locations"] = Needs("org:manage") /\ "locations" \in DOMAIN EntryNeed
    BY DEF ManagerActions, EntryNeed
  <2>2. Meets(H, Needs("org:manage"))
    BY <1>3, <2>1 DEF Offered
  <2>3. Meets(U, Needs("org:manage"))
    BY <2>2 DEF Meets, Visitor, Needs
  <2>4. QED
    BY <1>3, <2>1, <2>3 DEF EntryLeads
<1>4. CASE entry = "queue"
  <2>1. ManagerActions["queue"] = BrowsesTickets /\ EntryNeed["queue"] = ShowAgentWorkspace /\ "queue" \in DOMAIN EntryNeed
    BY DEF ManagerActions, EntryNeed
  <2>2. Meets(H, BrowsesTickets)
    BY <1>4, <2>1 DEF Offered
  <2>3. Meets(U, ShowAgentWorkspace)
    BY <2>2 DEF Meets, Visitor, OneOf, ShowAgentWorkspace, BrowsesTickets
  <2>4. QED
    BY <1>4, <2>1, <2>3 DEF EntryLeads
<1>5. CASE entry = "tickets"
  <2>1. ManagerActions["tickets"] = BrowsesTickets /\ EntryNeed["tickets"] = Free /\ "tickets" \in DOMAIN EntryNeed
    BY DEF ManagerActions, EntryNeed
  <2>2. Meets(H, BrowsesTickets)
    BY <1>5, <2>1 DEF Offered
  <2>3. Meets(U, Free)
    BY <2>2 DEF Meets, Visitor, OneOf, Free, BrowsesTickets
  <2>4. QED
    BY <1>5, <2>1, <2>3 DEF EntryLeads
<1>6. CASE entry = "approvals"
  <2>1. ManagerActions["approvals"] = Needs("approvals:read") /\ EntryNeed["approvals"] = Needs("approvals:read") /\ "approvals" \in DOMAIN EntryNeed
    BY DEF ManagerActions, EntryNeed
  <2>2. Meets(H, Needs("approvals:read"))
    BY <1>6, <2>1 DEF Offered
  <2>3. Meets(U, Needs("approvals:read"))
    BY <2>2 DEF Meets, Visitor, Needs
  <2>4. QED
    BY <1>6, <2>1, <2>3 DEF EntryLeads
<1>7. CASE entry = "policies"
  <2>1. ManagerActions["policies"] = CanManageApprovalPolicies /\ EntryNeed["policies"] = CanManageApprovalPolicies /\ "policies" \in DOMAIN EntryNeed
    BY DEF ManagerActions, EntryNeed
  <2>2. Meets(H, CanManageApprovalPolicies)
    BY <1>7, <2>1 DEF Offered
  <2>3. Meets(U, CanManageApprovalPolicies)
    BY <2>2 DEF Meets, Visitor, OneOf, CanManageApprovalPolicies
  <2>4. QED
    BY <1>7, <2>1, <2>3 DEF EntryLeads
<1>8. CASE entry = "im"
  <2>1. ManagerActions["im"] = Needs("im:read") /\ EntryNeed["im"] = Needs("im:read") /\ "im" \in DOMAIN EntryNeed
    BY DEF ManagerActions, EntryNeed
  <2>2. Meets(H, Needs("im:read"))
    BY <1>8, <2>1 DEF Offered
  <2>3. Meets(U, Needs("im:read"))
    BY <2>2 DEF Meets, Visitor, Needs
  <2>4. QED
    BY <1>8, <2>1, <2>3 DEF EntryLeads
<1>9. CASE entry = "assets"
  <2>1. ManagerActions["assets"] = Needs("assets:read") /\ EntryNeed["assets"] = Needs("assets:read") /\ "assets" \in DOMAIN EntryNeed
    BY DEF ManagerActions, EntryNeed
  <2>2. Meets(H, Needs("assets:read"))
    BY <1>9, <2>1 DEF Offered
  <2>3. Meets(U, Needs("assets:read"))
    BY <2>2 DEF Meets, Visitor, Needs
  <2>4. QED
    BY <1>9, <2>1, <2>3 DEF EntryLeads
<1>10. QED
  BY <1>0, <1>1, <1>2, <1>3, <1>4, <1>5, <1>6, <1>7, <1>8, <1>9 DEF Offered

LEMMA ApproverActionsLead ==
  ASSUME NEW U, NEW H, NEW C, Visitor(U, H, C), NEW entry \in Offered(H, ApproverActions)
  PROVE  EntryLeads(U, entry)
<1>0. DOMAIN ApproverActions = {"approvals", "tickets", "catalog"}
  BY DEF ApproverActions
<1>1. CASE entry = "approvals"
  <2>1. ApproverActions["approvals"] = Needs("approvals:read") /\ EntryNeed["approvals"] = Needs("approvals:read") /\ "approvals" \in DOMAIN EntryNeed
    BY DEF ApproverActions, EntryNeed
  <2>2. Meets(H, Needs("approvals:read"))
    BY <1>1, <2>1 DEF Offered
  <2>3. Meets(U, Needs("approvals:read"))
    BY <2>2 DEF Meets, Visitor, Needs
  <2>4. QED
    BY <1>1, <2>1, <2>3 DEF EntryLeads
<1>2. CASE entry = "tickets"
  <2>1. ApproverActions["tickets"] = OneOf({"tickets:write", "tickets:read_own"}) /\ EntryNeed["tickets"] = Free /\ "tickets" \in DOMAIN EntryNeed
    BY DEF ApproverActions, EntryNeed
  <2>2. Meets(H, OneOf({"tickets:write", "tickets:read_own"}))
    BY <1>2, <2>1 DEF Offered
  <2>3. Meets(U, Free)
    BY <2>2 DEF Meets, Visitor, OneOf, Free
  <2>4. QED
    BY <1>2, <2>1, <2>3 DEF EntryLeads
<1>3. CASE entry = "catalog"
  <2>1. ApproverActions["catalog"] = Free /\ EntryNeed["catalog"] = Free /\ "catalog" \in DOMAIN EntryNeed
    BY DEF ApproverActions, EntryNeed
  <2>2. Meets(H, Free)
    BY <1>3, <2>1 DEF Offered
  <2>3. Meets(U, Free)
    BY <2>2 DEF Meets, Visitor, Free
  <2>4. QED
    BY <1>3, <2>1, <2>3 DEF EntryLeads
<1>4. QED
  BY <1>0, <1>1, <1>2, <1>3 DEF Offered

LEMMA AgentActionsLead ==
  ASSUME NEW U, NEW H, NEW C, Visitor(U, H, C), {"senior_agent", "agent"} \cap H # {}, NEW entry \in Offered(H, AgentActions)
  PROVE  EntryLeads(U, entry)
<1>0. DOMAIN AgentActions = {"queue", "im", "major", "problems", "changes", "tickets", "new_article", "knowledge", "assets"}
  BY DEF AgentActions
<1>1. CASE entry = "queue"
  <2>1. AgentActions["queue"] = Free /\ EntryNeed["queue"] = ShowAgentWorkspace /\ "queue" \in DOMAIN EntryNeed
    BY DEF AgentActions, EntryNeed
  <2>2. Meets(H, Free)
    BY <1>1, <2>1 DEF Offered
  <2>3. Meets(U, ShowAgentWorkspace)
    BY <2>2 DEF Meets, Visitor, OneOf, Free, ShowAgentWorkspace
  <2>4. QED
    BY <1>1, <2>1, <2>3 DEF EntryLeads
<1>2. CASE entry = "im"
  <2>1. AgentActions["im"] = Needs("im:read") /\ EntryNeed["im"] = Needs("im:read") /\ "im" \in DOMAIN EntryNeed
    BY DEF AgentActions, EntryNeed
  <2>2. Meets(H, Needs("im:read"))
    BY <1>2, <2>1 DEF Offered
  <2>3. Meets(U, Needs("im:read"))
    BY <2>2 DEF Meets, Visitor, Needs
  <2>4. QED
    BY <1>2, <2>1, <2>3 DEF EntryLeads
<1>3. CASE entry = "major"
  <2>1. AgentActions["major"] = Free /\ EntryNeed["major"] = ShowAgentWorkspace /\ "major" \in DOMAIN EntryNeed
    BY DEF AgentActions, EntryNeed
  <2>2. Meets(H, Free)
    BY <1>3, <2>1 DEF Offered
  <2>3. Meets(U, ShowAgentWorkspace)
    BY <2>2 DEF Meets, Visitor, OneOf, Free, ShowAgentWorkspace
  <2>4. QED
    BY <1>3, <2>1, <2>3 DEF EntryLeads
<1>4. CASE entry = "problems"
  <2>1. AgentActions["problems"] = Free /\ EntryNeed["problems"] = ShowAgentWorkspace /\ "problems" \in DOMAIN EntryNeed
    BY DEF AgentActions, EntryNeed
  <2>2. Meets(H, Free)
    BY <1>4, <2>1 DEF Offered
  <2>3. Meets(U, ShowAgentWorkspace)
    BY <2>2 DEF Meets, Visitor, OneOf, Free, ShowAgentWorkspace
  <2>4. QED
    BY <1>4, <2>1, <2>3 DEF EntryLeads
<1>5. CASE entry = "changes"
  <2>1. AgentActions["changes"] = Free /\ EntryNeed["changes"] = ShowAgentWorkspace /\ "changes" \in DOMAIN EntryNeed
    BY DEF AgentActions, EntryNeed
  <2>2. Meets(H, Free)
    BY <1>5, <2>1 DEF Offered
  <2>3. Meets(U, ShowAgentWorkspace)
    BY <2>2 DEF Meets, Visitor, OneOf, Free, ShowAgentWorkspace
  <2>4. QED
    BY <1>5, <2>1, <2>3 DEF EntryLeads
<1>6. CASE entry = "tickets"
  <2>1. AgentActions["tickets"] = Free /\ EntryNeed["tickets"] = Free /\ "tickets" \in DOMAIN EntryNeed
    BY DEF AgentActions, EntryNeed
  <2>2. Meets(H, Free)
    BY <1>6, <2>1 DEF Offered
  <2>3. Meets(U, Free)
    BY <2>2 DEF Meets, Visitor, Free
  <2>4. QED
    BY <1>6, <2>1, <2>3 DEF EntryLeads
<1>7. CASE entry = "new_article"
  <2>1. AgentActions["new_article"] = Needs("knowledge:write") /\ EntryNeed["new_article"] = Needs("knowledge:write") /\ "new_article" \in DOMAIN EntryNeed
    BY DEF AgentActions, EntryNeed
  <2>2. Meets(H, Needs("knowledge:write"))
    BY <1>7, <2>1 DEF Offered
  <2>3. Meets(U, Needs("knowledge:write"))
    BY <2>2 DEF Meets, Visitor, Needs
  <2>4. QED
    BY <1>7, <2>1, <2>3 DEF EntryLeads
<1>8. CASE entry = "knowledge"
  BY <1>8 DEF EntryLeads
<1>9. CASE entry = "assets"
  <2>1. AgentActions["assets"] = Needs("assets:read") /\ EntryNeed["assets"] = Needs("assets:read") /\ "assets" \in DOMAIN EntryNeed
    BY DEF AgentActions, EntryNeed
  <2>2. Meets(H, Needs("assets:read"))
    BY <1>9, <2>1 DEF Offered
  <2>3. Meets(U, Needs("assets:read"))
    BY <2>2 DEF Meets, Visitor, Needs
  <2>4. QED
    BY <1>9, <2>1, <2>3 DEF EntryLeads
<1>10. QED
  BY <1>0, <1>1, <1>2, <1>3, <1>4, <1>5, <1>6, <1>7, <1>8, <1>9 DEF Offered

LEMMA EmployeeActionsLead ==
  ASSUME NEW U, NEW H, NEW C, Visitor(U, H, C), NEW entry \in Offered(H, EmployeeActions)
  PROVE  EntryLeads(U, entry)
<1>0. DOMAIN EmployeeActions = {"tickets", "catalog", "knowledge"}
  BY DEF EmployeeActions
<1>1. CASE entry = "tickets"
  <2>1. EmployeeActions["tickets"] = OneOf({"tickets:write", "tickets:read_own", "tickets:read_all", "tickets:read_queue"}) /\ EntryNeed["tickets"] = Free /\ "tickets" \in DOMAIN EntryNeed
    BY DEF EmployeeActions, EntryNeed
  <2>2. Meets(H, OneOf({"tickets:write", "tickets:read_own", "tickets:read_all", "tickets:read_queue"}))
    BY <1>1, <2>1 DEF Offered
  <2>3. Meets(U, Free)
    BY <2>2 DEF Meets, Visitor, OneOf, Free
  <2>4. QED
    BY <1>1, <2>1, <2>3 DEF EntryLeads
<1>2. CASE entry = "catalog"
  <2>1. EmployeeActions["catalog"] = Free /\ EntryNeed["catalog"] = Free /\ "catalog" \in DOMAIN EntryNeed
    BY DEF EmployeeActions, EntryNeed
  <2>2. Meets(H, Free)
    BY <1>2, <2>1 DEF Offered
  <2>3. Meets(U, Free)
    BY <2>2 DEF Meets, Visitor, Free
  <2>4. QED
    BY <1>2, <2>1, <2>3 DEF EntryLeads
<1>3. CASE entry = "knowledge"
  BY <1>3 DEF EntryLeads
<1>4. QED
  BY <1>0, <1>1, <1>2, <1>3 DEF Offered

LEMMA AgentCardsLead ==
  ASSUME NEW U, NEW H, NEW C, Visitor(U, H, C), Meets(U, ShowAgentWorkspace), NEW entry \in Offered(H, AgentCards)
  PROVE  EntryLeads(U, entry)
<1>0. DOMAIN AgentCards = {"tickets", "queue", "im", "major", "approvals", "integrations"}
  BY DEF AgentCards
<1>1. CASE entry = "tickets"
  <2>1. AgentCards["tickets"] = WritesTickets /\ EntryNeed["tickets"] = Free /\ "tickets" \in DOMAIN EntryNeed
    BY DEF AgentCards, EntryNeed
  <2>2. Meets(H, WritesTickets)
    BY <1>1, <2>1 DEF Offered
  <2>3. Meets(U, Free)
    BY <2>2 DEF Meets, Visitor, Needs, OneOf, Free, ShowAgentWorkspace, WritesTickets
  <2>4. QED
    BY <1>1, <2>1, <2>3 DEF EntryLeads
<1>2. CASE entry = "queue"
  <2>1. AgentCards["queue"] = Free /\ EntryNeed["queue"] = ShowAgentWorkspace /\ "queue" \in DOMAIN EntryNeed
    BY DEF AgentCards, EntryNeed
  <2>2. Meets(H, Free)
    BY <1>2, <2>1 DEF Offered
  <2>3. Meets(U, ShowAgentWorkspace)
    BY <2>2 DEF Meets, Visitor, OneOf, Free, ShowAgentWorkspace
  <2>4. QED
    BY <1>2, <2>1, <2>3 DEF EntryLeads
<1>3. CASE entry = "im"
  <2>1. AgentCards["im"] = Needs("im:read") /\ EntryNeed["im"] = Needs("im:read") /\ "im" \in DOMAIN EntryNeed
    BY DEF AgentCards, EntryNeed
  <2>2. Meets(H, Needs("im:read"))
    BY <1>3, <2>1 DEF Offered
  <2>3. Meets(U, Needs("im:read"))
    BY <2>2 DEF Meets, Visitor, Needs, OneOf, ShowAgentWorkspace
  <2>4. QED
    BY <1>3, <2>1, <2>3 DEF EntryLeads
<1>4. CASE entry = "major"
  <2>1. AgentCards["major"] = Free /\ EntryNeed["major"] = ShowAgentWorkspace /\ "major" \in DOMAIN EntryNeed
    BY DEF AgentCards, EntryNeed
  <2>2. Meets(H, Free)
    BY <1>4, <2>1 DEF Offered
  <2>3. Meets(U, ShowAgentWorkspace)
    BY <2>2 DEF Meets, Visitor, OneOf, Free, ShowAgentWorkspace
  <2>4. QED
    BY <1>4, <2>1, <2>3 DEF EntryLeads
<1>5. CASE entry = "approvals"
  <2>1. AgentCards["approvals"] = Needs("approvals:read") /\ EntryNeed["approvals"] = Needs("approvals:read") /\ "approvals" \in DOMAIN EntryNeed
    BY DEF AgentCards, EntryNeed
  <2>2. Meets(H, Needs("approvals:read"))
    BY <1>5, <2>1 DEF Offered
  <2>3. Meets(U, Needs("approvals:read"))
    BY <2>2 DEF Meets, Visitor, Needs, OneOf, ShowAgentWorkspace
  <2>4. QED
    BY <1>5, <2>1, <2>3 DEF EntryLeads
<1>6. CASE entry = "integrations"
  <2>1. AgentCards["integrations"] = Needs("sysadmin") /\ EntryNeed["integrations"] = Needs("sysadmin") /\ "integrations" \in DOMAIN EntryNeed
    BY DEF AgentCards, EntryNeed
  <2>2. Meets(H, Needs("sysadmin"))
    BY <1>6, <2>1 DEF Offered
  <2>3. Meets(U, Needs("sysadmin"))
    BY <2>2 DEF Meets, Visitor, Needs, OneOf, ShowAgentWorkspace
  <2>4. QED
    BY <1>6, <2>1, <2>3 DEF EntryLeads
<1>7. QED
  BY <1>0, <1>1, <1>2, <1>3, <1>4, <1>5, <1>6 DEF Offered

LEMMA SuggestionsLead ==
  ASSUME NEW U, NEW H, NEW C, Visitor(U, H, C), NEW entry \in WorkspaceNextActions(H)
  PROVE  EntryLeads(U, entry)
<1>0. Visitor(U, H, C)
  OBVIOUS
<1>1. CASE "sysadmin" \in H
  <2>1. entry \in Offered(H, AdminActions)
    BY <1>1 DEF WorkspaceNextActions
  <2>2. QED
    BY <1>0, <1>1, <2>1, AdminActionsLead
<1>2. CASE "sysadmin" \notin H /\ "auditor" \in H
  <2>1. entry \in Offered(H, AuditorActions)
    BY <1>2 DEF WorkspaceNextActions
  <2>2. QED
    BY <1>0, <1>2, <2>1, AuditorActionsLead
<1>3. CASE "sysadmin" \notin H /\ "auditor" \notin H /\ "it_manager" \in H
  <2>1. entry \in Offered(H, ManagerActions)
    BY <1>3 DEF WorkspaceNextActions
  <2>2. QED
    BY <1>0, <1>3, <2>1, ManagerActionsLead
<1>4. ASSUME "sysadmin" \notin H, "auditor" \notin H, "it_manager" \notin H PROVE EntryLeads(U, entry)
  <2>1. CASE {"approver", "approvals:decide"} \cap H # {}
    <3>1. entry \in Offered(H, ApproverActions)
      BY <1>4, <2>1 DEF WorkspaceNextActions
    <3>2. QED
      BY <1>0, <2>1, <3>1, ApproverActionsLead
  <2>2. CASE {"approver", "approvals:decide"} \cap H = {} /\ {"senior_agent", "agent"} \cap H # {}
    <3>1. entry \in Offered(H, AgentActions)
      BY <1>4, <2>2 DEF WorkspaceNextActions
    <3>2. QED
      BY <1>0, <2>2, <3>1, AgentActionsLead
  <2>3. CASE {"approver", "approvals:decide"} \cap H = {} /\ {"senior_agent", "agent"} \cap H = {}
    <3>1. entry \in Offered(H, EmployeeActions)
      BY <1>4, <2>3 DEF WorkspaceNextActions
    <3>2. QED
      BY <1>0, <2>3, <3>1, EmployeeActionsLead
  <2>4. QED
    BY <2>1, <2>2, <2>3
<1>5. QED
  BY <1>1, <1>2, <1>3, <1>4

(***************************************************************************)
(* The states of the tab                                                   *)
(***************************************************************************)
LEMMA Visits ==
  ASSUME NEW account \in Accounts, NEW t \in Ties
  PROVE  Visitor(AuthUser(account), AuthUser(account) \cup Plain(AuthUser(account)) \cup t,
                 AuthUser(account) \cup t)
<1>1. \A code \in t : code \in {"requester", "assignee"}
  BY DEF Ties
<1>2. \A code \in Plain(AuthUser(account)) : code = "plain"
  BY DEF Plain
<1>3. QED
  BY <1>1, <1>2 DEF Visitor

LEMMA HolderVisits ==
  ASSUME held \in Accounts, tie \in Ties
  PROVE  Visitor(AuthUser(held), Holder, AuthUser(held) \cup tie)
  BY Visits DEF Holder

LEMMA MenusLead ==
  ASSUME held \in Accounts, tie \in Ties, NEW entry \in MenuEntries
  PROVE  EntryLeads(AuthUser(held), entry)
<1> DEFINE U == AuthUser(held)
<1>1. Visitor(U, Holder, U \cup tie)
  BY HolderVisits
<1>2. CASE entry \in PrimaryNav \cup {"notifications", "profile"}
  <2>1. entry \in {"home", "tickets", "knowledge", "catalog", "notifications", "profile"}
    BY <1>2 DEF PrimaryNav
  <2>2. \A p \in {"home", "tickets", "catalog", "notifications", "profile"} :
          p \in DOMAIN EntryNeed /\ EntryNeed[p] = Free
    BY DEF EntryNeed
  <2>3. QED
    BY <2>1, <2>2, MeetsFree DEF EntryLeads
<1>3. CASE entry \in Offered(Holder, NavGates)
  BY <1>1, <1>3, NavGatesLead
<1>4. CASE page = "home" /\ entry \in HomeEntries
  <2>1. CASE entry \in WorkspaceNextActions(Holder)
    BY <1>1, <2>1, SuggestionsLead
  <2>2. CASE "plain" \notin Holder /\ entry \in Offered(Holder, AgentCards)
    <3>1. Meets(U, ShowAgentWorkspace)
      BY <2>2 DEF Holder, Plain
    <3>2. QED
      BY <1>1, <2>2, <3>1, AgentCardsLead
  <2>3. QED
    BY <1>4, <2>1, <2>2 DEF HomeEntries
<1>5. QED
  BY <1>2, <1>3, <1>4 DEF MenuEntries, NavForUser

(***************************************************************************)
(* The invariant of the tab                                                *)
(***************************************************************************)
Bound == IF phase = "loading" THEN Len(AllPages[page].load)
         ELSE IF phase = "acting" THEN Len(ButtonsOf[page][button].sends) ELSE 0

(* What a phase says of the rest of the tab. *)
PhaseOK ==
  /\ phase \in {"opening", "loading"} => button = "none"
  /\ phase = "loading" => page # "login"
  /\ button # "none" \/ phase = "acting" => page \in DOMAIN ButtonsOf /\ button \in DOMAIN ButtonsOf[page]
  /\ phase = "acting" => ~refused

(* The page has the access of the account until somebody changes it, and it
   shows itself only to those who met its gate. *)
HeldOK ==
  /\ fresh => held = access
  /\ page # "login" /\ phase # "opening" => Meets(AuthUser(held), AllPages[page].gate)

(* The page of a ticket and the board come with tickets that the user sees. *)
TicketOK ==
  live /\ fresh /\ page \in {"ticket", "queue"}
  /\ (phase \in {"shown", "acting"} \/ (phase = "loading" /\ next > 1))
  => Meets(Caller, {Visible})

(* A promise of the menus. *)
MenuOK ==
  promise # "none" /\ button = "none" =>
    /\ live /\ fresh /\ promise \in DOMAIN EntryNeed /\ Meets(AuthUser(access), EntryNeed[promise])
    /\ Respects(Caller, PresumedByMenus) => page = promise /\ ~refused

(* A promise of a button. *)
ButtonOK ==
  promise # "none" /\ button # "none" =>
    /\ page = promise /\ fresh /\ phase \in {"acting", "shown"}
    /\ phase = "acting" =>
         /\ Meets(Holder, ButtonsOf[page][button].offer)
         /\ live \/ next > Len(ButtonsOf[page][button].sends)
         /\ page = "tickets" /\ button = "create" /\ next > 1 => tie = {"requester"}
    /\ phase = "shown" /\ refused => ~Agree(Caller, page, button)

PortalInv == PortalTypeOK /\ PhaseOK /\ HeldOK /\ TicketOK /\ MenuOK /\ ButtonOK

TypeTab ==
  /\ page \in PageNames \cup {"login"} /\ phase \in {"opening", "loading", "shown", "acting"}
  /\ button = "none" \/ (page \in DOMAIN ButtonsOf /\ button \in DOMAIN ButtonsOf[page])
  /\ next \in 1..(1 + Bound)
  /\ refused \in BOOLEAN

TypeRest ==
  /\ access \in Accounts /\ held \in Accounts /\ live \in BOOLEAN /\ tie \in Ties
  /\ fresh \in BOOLEAN /\ promise \in PageNames \cup {"none"} /\ grants \in 0..MaxGrants
  /\ access.extras \cap RolePermissions[access.role] = {}

LEMMA TypeSplit == PortalTypeOK <=> TypeTab /\ TypeRest
<1>1. (CASE phase = "loading" -> Len(AllPages[page].load)
         [] phase = "acting" -> Len(ButtonsOf[page][button].sends) [] OTHER -> 0) = Bound
  <2>1. CASE phase = "loading"
    BY <2>1 DEF Bound
  <2>2. CASE phase = "acting"
    BY <2>2 DEF Bound
  <2>3. CASE phase # "loading" /\ phase # "acting"
    BY <2>3 DEF Bound
  <2>4. QED
    BY <2>1, <2>2, <2>3
<1>2. QED
  BY <1>1, PagesNamed DEF PortalTypeOK, TypeTab, TypeRest

LEMMA TypeSplitNext == PortalTypeOK' <=> TypeTab' /\ TypeRest'
  BY TypeSplit, PTL

LEMMA FirstStep ==
  ASSUME NEW n \in Nat
  PROVE  1 \in 1..(1 + n)
  OBVIOUS

LEMMA NoLogin ==
  /\ "login" \notin PageNames /\ "none" \notin PageNames /\ "login" \notin DOMAIN ButtonsOf
  /\ "login" \notin DOMAIN EntryNeed /\ DOMAIN EntryNeed \subseteq PageNames
  /\ DOMAIN ButtonsOf \subseteq PageNames
<1>1. "login" \notin PageNames /\ "none" \notin PageNames
  BY DEF PageNames
<1>2. DOMAIN EntryNeed \subseteq PageNames
  BY EntriesNamed
<1>3. DOMAIN ButtonsOf \subseteq PageNames
  BY ButtonForms
<1>4. QED
  BY <1>1, <1>2, <1>3

(* What is known in a state of the tab. *)
LEMMA StateFacts ==
  ASSUME PortalInv
  PROVE  /\ TypeTab /\ TypeRest
         /\ page # "login" => page \in PageNames /\ PageForm(page, AllPages[page])
         /\ next \in Nat /\ next >= 1
         /\ phase = "loading" => page # "login" /\ next <= 1 + Len(AllPages[page].load)
         /\ phase = "acting" => /\ page \in DOMAIN ButtonsOf /\ button \in DOMAIN ButtonsOf[page]
                                /\ next <= 1 + Len(ButtonsOf[page][button].sends)
         /\ button # "none" => /\ page \in DOMAIN ButtonsOf /\ button \in DOMAIN ButtonsOf[page]
                               /\ ButtonForm(page, button, ButtonsOf[page][button])
         /\ phase = "acting" => button # "none"
         /\ phase \notin {"loading", "acting"} => next = 1
         /\ Visitor(AuthUser(held), Holder, AuthUser(held) \cup tie)
         /\ fresh => held = access /\ Visitor(AuthUser(access), Holder, Caller)
<1>1. TypeTab /\ TypeRest
  BY TypeSplit DEF PortalInv
<1>2. page # "login" => page \in PageNames /\ PageForm(page, AllPages[page])
  BY <1>1, PageForms DEF TypeTab
<1>3. phase = "acting" => page \in DOMAIN ButtonsOf /\ button \in DOMAIN ButtonsOf[page]
  BY DEF PortalInv, PhaseOK
<1>4. page \in DOMAIN ButtonsOf /\ button \in DOMAIN ButtonsOf[page]
        => ButtonForm(page, button, ButtonsOf[page][button])
  BY ButtonForms DEF FormOf
<1>5. button # "none" => page \in DOMAIN ButtonsOf /\ button \in DOMAIN ButtonsOf[page]
  BY <1>1 DEF TypeTab
<1>6. phase = "loading" => page # "login"
  BY DEF PortalInv, PhaseOK
<1>7. Bound \in Nat
  BY <1>2, <1>3, <1>4, <1>6 DEF Bound, PageForm, ButtonForm
<1>8. next \in Nat /\ next >= 1 /\ next <= 1 + Bound
  BY <1>1, <1>7 DEF TypeTab
<1>9. Visitor(AuthUser(held), Holder, AuthUser(held) \cup tie)
  BY <1>1, HolderVisits DEF TypeRest
<1>10. fresh => held = access
  BY DEF PortalInv, HeldOK
<1>11. fresh => Visitor(AuthUser(access), Holder, Caller)
  BY <1>9, <1>10 DEF Caller
<1>12. phase = "acting" => button # "none"
  BY <1>3, <1>4 DEF ButtonForm
<1>13. /\ phase = "loading" => next <= 1 + Len(AllPages[page].load)
       /\ phase = "acting" => next <= 1 + Len(ButtonsOf[page][button].sends)
       /\ phase \notin {"loading", "acting"} => next = 1
  BY <1>8 DEF Bound
<1>14. QED
  BY <1>1, <1>2, <1>3, <1>4, <1>5, <1>6, <1>8, <1>9, <1>10, <1>11, <1>12, <1>13

(* A tab that has just been sent to a page. *)
LEMMA Entering ==
  ASSUME NEW p \in PageNames \cup {"login"}, Enter(p)
  PROVE  /\ TypeTab' /\ PhaseOK' /\ TicketOK' /\ ButtonOK'
         /\ page' = p /\ phase' = "opening" /\ button' = "none" /\ refused' = FALSE
<1>1. page' = p /\ phase' = "opening" /\ button' = "none" /\ next' = 1 /\ refused' = FALSE
  BY DEF Enter
<1>2. next' \in 1..(1 + Bound')
  <2>1. Bound' = 0
    BY <1>1 DEF Bound
  <2>2. QED
    BY <1>1, <2>1
<1>3. TypeTab'
  BY <1>1, <1>2 DEF TypeTab
<1>4. PhaseOK'
  BY <1>1 DEF PhaseOK
<1>5. TicketOK' /\ ButtonOK'
  BY <1>1 DEF TicketOK, ButtonOK
<1>6. QED
  BY <1>1, <1>3, <1>4, <1>5

(* The tie to a ticket tells the menus nothing. *)
LEMMA MenusIgnoreTies ==
  ASSUME NEW user, NEW t \in Ties
  PROVE  Respects(user \cup t, PresumedByMenus) <=> Respects(user, PresumedByMenus)
<1>1. \A code \in t : code \in {"requester", "assignee"}
  BY DEF Ties
<1>2. \A rule \in PresumedByMenus :
        rule[1] \notin {"requester", "assignee"} /\ \A code \in rule[2] : code \notin {"requester", "assignee"}
  BY DEF PresumedByMenus
<1>3. QED
  BY <1>1, <1>2 DEF Respects

(* A page can always ask who the user is. *)
LEMMA WhoAnswered ==
  ASSUME NEW user, NEW p, NEW content, PageForm(p, content)
  PROVE  Guard(user, Reached[content.who.call], content.who.fields)
<1>1. Asks("me", Free) /\ Asks("getProfile", Free)
  BY AuthCallsAsk
<1>2. Asks(content.who.call, Free) /\ content.who.fields = {}
  BY <1>1 DEF PageForm
<1>3. QED
  BY <1>2, Granted, MeetsFree

(* A page that was promised by the menus opens. *)
LEMMA PromisedOpens ==
  ASSUME PortalInv, promise # "none", button = "none", Respects(Caller, PresumedByMenus)
  PROVE  page = promise /\ Opens(AuthUser(access), Holder, Caller, AllPages[page])
<1>1. page = promise /\ fresh /\ page \in DOMAIN EntryNeed /\ Meets(AuthUser(access), EntryNeed[page])
  BY DEF PortalInv, MenuOK
<1>2. Visitor(AuthUser(access), Holder, Caller)
  BY <1>1, StateFacts
<1>3. QED
  BY <1>1, <1>2, EntryOpens

(***************************************************************************)
(* Every step keeps the invariant                                          *)
(***************************************************************************)
LEMMA OpenLoginKeeps ==
  ASSUME PortalInv, OpenLogin
  PROVE  PortalInv'
<1> USE DEF OpenLogin
<1>1. page = "login" /\ button = "none" /\ next = 1
  BY StateFacts DEF PortalInv, PhaseOK
<1>2. TypeRest'
  BY StateFacts DEF TypeRest
<1>3. CASE live
  <2>1. "home" \in PageNames
    BY DEF PageNames
  <2>2. Enter("home")
    BY <1>3
  <2>3. TypeTab' /\ PhaseOK' /\ TicketOK' /\ ButtonOK' /\ page' = "home" /\ phase' = "opening"
    BY <2>1, <2>2, Entering
  <2>4. HeldOK'
    BY <2>3 DEF PortalInv, HeldOK
  <2>5. MenuOK'
    BY <1>1, NoLogin DEF PortalInv, MenuOK, Caller
  <2>6. QED
    BY <1>2, <2>3, <2>4, <2>5, TypeSplitNext DEF PortalInv
<1>4. CASE ~live
  <2>1. phase' = "shown" /\ UNCHANGED <<page, button, next, refused>>
    BY <1>4
  <2>2. TypeTab'
    <3>1. Bound' = 0
      BY <2>1 DEF Bound
    <3>2. next' \in 1..(1 + Bound')
      BY <1>1, <2>1, <3>1
    <3>3. QED
      BY <1>1, <2>1, <3>2, StateFacts DEF TypeTab
  <2>3. PhaseOK' /\ HeldOK' /\ TicketOK' /\ ButtonOK'
    BY <1>1, <2>1 DEF PortalInv, PhaseOK, HeldOK, TicketOK, ButtonOK
  <2>4. MenuOK'
    BY <1>1, <1>4, <2>1 DEF PortalInv, MenuOK
  <2>5. QED
    BY <1>2, <2>2, <2>3, <2>4, TypeSplitNext DEF PortalInv
<1>5. QED
  BY <1>3, <1>4

LEMMA OpenPageKeeps ==
  ASSUME PortalInv, OpenPage
  PROVE  PortalInv'
<1> DEFINE content == AllPages[page]
<1>1. /\ page \in PageNames /\ PageForm(page, content) /\ button = "none" /\ next = 1
      /\ page # "login" /\ phase = "opening"
  BY StateFacts DEF OpenPage, PortalInv, PhaseOK
<1>2. content.who.fails \in PageNames \cup {"login"} /\ content.other \in PageNames
  BY <1>1 DEF PageForm
<1>3. Succeeds(live, Caller, content.who.call, content.who.fields) <=> live
  BY <1>1, WhoAnswered DEF Succeeds
<1> HIDE DEF content
<1>4. UNCHANGED <<access, live, tie, promise, grants>>
  BY DEF OpenPage
<1>5. Caller' = Caller
  BY <1>4 DEF Caller
<1>6. CASE ~live
  <2>1. Enter(content.who.fails) /\ UNCHANGED <<held, fresh>>
    BY <1>3, <1>6 DEF OpenPage, content
  <2>2. TypeTab' /\ PhaseOK' /\ TicketOK' /\ ButtonOK' /\ phase' = "opening"
    BY <1>2, <2>1, Entering
  <2>3. TypeRest' /\ HeldOK'
    BY <1>4, <2>1, <2>2, StateFacts DEF TypeRest, PortalInv, HeldOK
  <2>4. MenuOK'
    BY <1>1, <1>4, <1>6 DEF PortalInv, MenuOK
  <2>5. QED
    BY <2>2, <2>3, <2>4, TypeSplitNext DEF PortalInv
<1>7. CASE live /\ Meets(AuthUser(access), content.gate)
  <2>1. /\ held' = access /\ fresh' = TRUE /\ phase' = "loading"
        /\ UNCHANGED <<page, button, next, refused>>
    BY <1>3, <1>7 DEF OpenPage, content
  <2>2. TypeRest'
    BY <1>4, <2>1, StateFacts DEF TypeRest
  <2>3. TypeTab'
    <3>1. Bound' \in Nat
      BY <1>1, <2>1 DEF Bound, PageForm, content
    <3>2. next' = 1
      BY <1>1, <2>1
    <3>3. next' \in 1..(1 + Bound')
      BY <3>1, <3>2, FirstStep
    <3>4. QED
      BY <1>1, <2>1, <3>3, StateFacts DEF TypeTab
  <2>4. PhaseOK' /\ TicketOK' /\ ButtonOK'
    BY <1>1, <2>1 DEF PhaseOK, TicketOK, ButtonOK
  <2>5. HeldOK'
    BY <1>4, <1>7, <2>1 DEF HeldOK, content
  <2>6. MenuOK'
    BY <1>4, <1>5, <2>1 DEF PortalInv, MenuOK
  <2>7. QED
    BY <2>2, <2>3, <2>4, <2>5, <2>6, TypeSplitNext DEF PortalInv
<1>8. CASE live /\ ~Meets(AuthUser(access), content.gate)
  <2>1. held' = access /\ fresh' = TRUE /\ Enter(content.other)
    BY <1>3, <1>8 DEF OpenPage, content
  <2>2. TypeTab' /\ PhaseOK' /\ TicketOK' /\ ButtonOK' /\ phase' = "opening"
    BY <1>2, <2>1, Entering
  <2>3. TypeRest' /\ HeldOK'
    BY <1>4, <2>1, <2>2, StateFacts DEF TypeRest, HeldOK
  <2>4. promise # "none" => ~Respects(Caller, PresumedByMenus)
    BY <1>1, <1>8, PromisedOpens DEF Opens, content
  <2>5. MenuOK'
    BY <1>1, <1>4, <1>5, <2>1, <2>4 DEF PortalInv, MenuOK
  <2>6. QED
    BY <2>2, <2>3, <2>5, TypeSplitNext DEF PortalInv
<1>9. QED
  BY <1>6, <1>7, <1>8

LEMMA LoadStepKeeps ==
  ASSUME PortalInv, LoadStep
  PROVE  PortalInv'
<1> DEFINE content == AllPages[page]
           step == content.load[next]
<1>1. /\ page \in PageNames /\ PageForm(page, content) /\ page # "login" /\ phase = "loading"
      /\ button = "none" /\ next \in Nat /\ next >= 1 /\ tie \in Ties
  BY StateFacts DEF LoadStep, PortalInv, PhaseOK, TypeRest
<1>2. UNCHANGED <<access, live, held, fresh, promise, grants>>
  BY DEF LoadStep
<1>3. content.load = AllPages[page].load /\ Len(content.load) \in Nat
      /\ DOMAIN content.load = 1..Len(content.load)
  BY <1>1 DEF PageForm
<1>4. next <= Len(content.load) =>
        /\ step.fails \in PageNames \cup {"login", "error", "ignored"}
        /\ page = "ticket" => step.call \notin {"createTicket", "ticketBoard"}
        /\ page = "ticket" /\ next = 1 => step = Must("getTicket")
        /\ page = "queue" => step = Shown("ticketBoard")
  BY <1>1, <1>3 DEF PageForm
<1>5. \A fails \in {"error", "ignored"} : fails \notin PageNames \cup {"login"}
  BY DEF PageNames
<1> DEFINE served == Meets(Holder, step.when) => Succeeds(live, Caller, step.call, step.fields)
<1>6. page = "ticket" /\ next = 1 /\ next <= Len(content.load) =>
        step.call = "getTicket" /\ step.fails = "login" /\ (served => Meets(Caller, {Visible}))
  <2>1. /\ Must("getTicket").call = "getTicket" /\ Must("getTicket").fails = "login"
        /\ Must("getTicket").when = Free /\ Must("getTicket").fields = {}
    BY DEF Must, Call
  <2>2. Asks("getTicket", {Visible})
    BY TicketListCallsAsk
  <2>3. QED
    BY <1>4, <2>1, <2>2, MeetsFree, GuardMeets DEF Succeeds
<1>7. page = "queue" /\ next <= Len(content.load) =>
        step.call = "ticketBoard" /\ step.fails = "error" /\ (live /\ fresh => served)
  <2>1. /\ Shown("ticketBoard").call = "ticketBoard" /\ Shown("ticketBoard").fails = "error"
        /\ Shown("ticketBoard").fields = {}
    BY DEF Shown, Call
  <2>2. Asks("ticketBoard", OneOf(StaffTickets))
    BY TicketListCallsAsk
  <2>3. ASSUME page = "queue", fresh PROVE Meets(Caller, OneOf(StaffTickets))
    <3>1. Meets(AuthUser(access), QueuePage.gate)
      BY <1>1, <2>3 DEF PortalInv, HeldOK, AllPages
    <3>2. QueuePage.gate = ShowAgentWorkspace
      BY DEF QueuePage, Page, PageOf
    <3>3. Visitor(AuthUser(access), Holder, Caller)
      BY <2>3, StateFacts
    <3>4. Meets(AuthUser(access), ShowAgentWorkspace)
      BY <3>1, <3>2
    <3>5. QED
      BY <3>3, <3>4, RolesGrant DEF Meets, ShowAgentWorkspace, OneOf, StaffTickets, Visitor
  <2>4. QED
    BY <1>4, <2>1, <2>2, <2>3, Granted DEF Succeeds
<1>8. promise # "none" /\ Respects(Caller, PresumedByMenus) /\ next <= Len(content.load) =>
        step.fails = "ignored" \/ served
  <2>1. ASSUME promise # "none", Respects(Caller, PresumedByMenus), next <= Len(content.load)
        PROVE  step.fails = "ignored" \/ served
    <3>1. Kept(Holder, Caller, content.load) /\ live
      BY <1>1, <2>1, PromisedOpens DEF Opens, PortalInv, MenuOK
    <3>2. Served(Holder, Caller, step)
      BY <1>1, <1>3, <2>1, <3>1 DEF Kept
    <3>3. QED
      BY <3>1, <3>2 DEF Served, Succeeds
  <2>2. QED
    BY <2>1
<1> HIDE DEF content
<1>9. \A t \in Ties : Respects(AuthUser(access) \cup t, PresumedByMenus)
                       <=> Respects(Caller, PresumedByMenus)
  BY <1>1, MenusIgnoreTies DEF Caller
<1>10. CASE next > Len(content.load)
  <2>1. phase' = "shown" /\ next' = 1 /\ UNCHANGED <<page, button, refused, tie>>
    BY <1>10 DEF LoadStep, content
  <2>2. TypeRest'
    BY <1>2, <2>1, StateFacts DEF TypeRest
  <2>3. TypeTab'
    <3>1. Bound' = 0
      BY <2>1 DEF Bound
    <3>2. next' \in 1..(1 + Bound')
      BY <2>1, <3>1
    <3>3. QED
      BY <1>1, <2>1, <3>2, StateFacts DEF TypeTab
  <2>4. PhaseOK' /\ HeldOK' /\ ButtonOK'
    BY <1>1, <1>2, <2>1 DEF PortalInv, PhaseOK, HeldOK, ButtonOK
  <2>5. TicketOK'
    <3>1. page \in {"ticket", "queue"} => next > 1
      BY <1>1, <1>10 DEF PageForm
    <3>2. Caller' = Caller
      BY <1>2, <2>1 DEF Caller
    <3>3. QED
      BY <1>1, <1>2, <2>1, <3>1, <3>2 DEF PortalInv, TicketOK
  <2>6. MenuOK'
    BY <1>1, <1>2, <2>1 DEF PortalInv, MenuOK, Caller
  <2>7. QED
    BY <2>2, <2>3, <2>4, <2>5, <2>6, TypeSplitNext DEF PortalInv
<1>11. CASE next <= Len(content.load) /\ served
  <2>1. next' = next + 1 /\ tie' \in TieAfter(step.call) /\ UNCHANGED <<page, phase, button, refused>>
    BY <1>1, <1>3, <1>11 DEF LoadStep, content
  <2>2. tie' \in Ties /\ (step.call \notin {"createTicket", "ticketBoard"} => tie' = tie)
    BY <1>1, <2>1 DEF TieAfter, Ties
  <2>3. TypeRest'
    BY <1>2, <2>2, StateFacts DEF TypeRest
  <2>4. TypeTab'
    <3>1. Bound' = Len(content.load)
      BY <1>1, <2>1 DEF Bound, content
    <3>2. next' \in 1..(1 + Bound')
      BY <1>1, <1>3, <1>11, <2>1, <3>1
    <3>3. QED
      BY <1>1, <2>1, <3>2, StateFacts DEF TypeTab
  <2>5. PhaseOK' /\ HeldOK' /\ ButtonOK'
    BY <1>1, <1>2, <2>1 DEF PortalInv, PhaseOK, HeldOK, ButtonOK
  <2>6. TicketOK'
    <3>1. ASSUME live, fresh, page = "ticket" PROVE Meets(Caller', {Visible})
      <4>1. Caller' = Caller
        BY <1>2, <1>4, <1>11, <2>2, <3>1 DEF Caller
      <4>2. CASE next = 1
        BY <1>6, <1>11, <3>1, <4>1, <4>2
      <4>3. CASE next > 1
        BY <1>1, <3>1, <4>1, <4>3 DEF PortalInv, TicketOK
      <4>4. QED
        BY <1>1, <4>2, <4>3
    <3>2. ASSUME live, fresh, page = "queue" PROVE Meets(Caller', {Visible})
      <4>1. tie' \in {t \in Ties : Meets(AuthUser(access) \cup t, {Visible})}
        BY <1>7, <1>11, <2>1, <3>2 DEF TieAfter
      <4>2. QED
        BY <1>2, <4>1 DEF Caller
    <3>3. QED
      BY <1>2, <2>1, <3>1, <3>2 DEF TicketOK
  <2>7. MenuOK'
    <3>1. Respects(Caller', PresumedByMenus) <=> Respects(Caller, PresumedByMenus)
      BY <1>2, <1>9, <2>2 DEF Caller
    <3>2. QED
      BY <1>1, <1>2, <2>1, <3>1 DEF PortalInv, MenuOK
  <2>8. QED
    BY <2>3, <2>4, <2>5, <2>6, <2>7, TypeSplitNext DEF PortalInv
<1>12. CASE next <= Len(content.load) /\ ~served
  <2>1. Fails(step, next + 1) /\ UNCHANGED tie
    BY <1>1, <1>3, <1>12 DEF LoadStep, content
  <2>2. TypeRest' /\ Caller' = Caller
    BY <1>2, <2>1, StateFacts DEF TypeRest, Caller
  <2>3. CASE step.fails = "ignored"
    <3>1. next' = next + 1 /\ UNCHANGED <<page, phase, button, refused>>
      BY <2>1, <2>3 DEF Fails
    <3>2. TypeTab'
      <4>1. Bound' = Len(content.load)
        BY <1>1, <3>1 DEF Bound, content
      <4>2. next' \in 1..(1 + Bound')
        BY <1>1, <1>3, <1>12, <3>1, <4>1
      <4>3. QED
        BY <1>1, <3>1, <4>2, StateFacts DEF TypeTab
    <3>3. PhaseOK' /\ HeldOK' /\ ButtonOK' /\ MenuOK'
      BY <1>1, <1>2, <2>2, <3>1 DEF PortalInv, PhaseOK, HeldOK, ButtonOK, MenuOK
    <3>4. TicketOK'
      <4>1. page = "ticket" => next # 1
        BY <1>6, <1>12, <2>3
      <4>2. page # "queue"
        BY <1>7, <1>12, <2>3
      <4>3. QED
        BY <1>1, <1>2, <2>2, <3>1, <4>1, <4>2 DEF PortalInv, TicketOK
    <3>5. QED
      BY <2>2, <3>2, <3>3, <3>4, TypeSplitNext DEF PortalInv
  <2>4. CASE step.fails = "error"
    <3>1. phase' = "shown" /\ refused' = TRUE /\ next' = 1 /\ UNCHANGED <<page, button>>
      BY <2>1, <2>4 DEF Fails
    <3>2. TypeTab'
      <4>1. Bound' = 0
        BY <3>1 DEF Bound
      <4>2. next' \in 1..(1 + Bound')
        BY <3>1, <4>1
      <4>3. QED
        BY <1>1, <3>1, <4>2, StateFacts DEF TypeTab
    <3>3. PhaseOK' /\ HeldOK' /\ ButtonOK'
      BY <1>1, <1>2, <3>1 DEF PortalInv, PhaseOK, HeldOK, ButtonOK
    <3>4. TicketOK'
      <4>1. page = "ticket" => next # 1
        BY <1>6, <1>12, <2>4
      <4>2. live /\ fresh => page # "queue"
        BY <1>7, <1>12
      <4>3. QED
        BY <1>1, <1>2, <2>2, <3>1, <4>1, <4>2 DEF PortalInv, TicketOK
    <3>5. MenuOK'
      <4>1. promise # "none" => ~Respects(Caller, PresumedByMenus)
        BY <1>8, <1>12, <2>4
      <4>2. QED
        BY <1>1, <1>2, <2>2, <3>1, <4>1 DEF PortalInv, MenuOK
    <3>6. QED
      BY <2>2, <3>2, <3>3, <3>4, <3>5, TypeSplitNext DEF PortalInv
  <2>5. CASE step.fails \notin {"ignored", "error"}
    <3>1. Enter(step.fails) /\ step.fails \in PageNames \cup {"login"}
      BY <1>4, <1>12, <2>1, <2>5 DEF Fails
    <3>2. TypeTab' /\ PhaseOK' /\ TicketOK' /\ ButtonOK' /\ phase' = "opening" /\ button' = "none"
      BY <3>1, Entering
    <3>3. HeldOK'
      BY <1>2, <3>2 DEF PortalInv, HeldOK
    <3>4. MenuOK'
      <4>1. promise # "none" => ~Respects(Caller, PresumedByMenus)
        BY <1>8, <1>12, <2>5
      <4>2. QED
        BY <1>1, <1>2, <2>2, <4>1 DEF PortalInv, MenuOK
    <3>5. QED
      BY <2>2, <3>2, <3>3, <3>4, TypeSplitNext DEF PortalInv
  <2>6. QED
    BY <2>3, <2>4, <2>5
<1>13. QED
  BY <1>1, <1>3, <1>10, <1>11, <1>12

LEMMA RowsNamed == \A p : RowsLeadTo(p) \subseteq PageNames
  BY DEF RowsLeadTo, PageNames

LEMMA GoToKeeps ==
  ASSUME PortalInv, NEW p \in Entries, GoTo(p)
  PROVE  PortalInv'
<1>1. /\ p \in MenuEntries \cup RowsLeadTo(page) /\ phase = "shown" /\ page # "login"
      /\ held \in Accounts /\ tie \in Ties
  BY StateFacts DEF Entries, TypeRest
<1>2. p \in MenuEntries => EntryLeads(AuthUser(held), p)
  BY <1>1, MenusLead
<1>3. p \in PageNames
  BY <1>1, <1>2, RowsNamed, EntriesNamed DEF EntryLeads
<1>4. /\ Enter(p) /\ tie' \in Ties /\ promise' = (IF Promises(p) THEN p ELSE "none")
      /\ UNCHANGED <<access, live, held, fresh, grants>>
  BY DEF GoTo, TiesOn, Ties
<1>5. /\ TypeTab' /\ PhaseOK' /\ TicketOK' /\ ButtonOK'
      /\ page' = p /\ phase' = "opening" /\ refused' = FALSE
  BY <1>3, <1>4, Entering
<1>6. TypeRest' /\ HeldOK'
  BY <1>3, <1>4, <1>5, StateFacts DEF TypeRest, PortalInv, HeldOK
<1>7. MenuOK'
  <2>1. ASSUME Promises(p)
        PROVE  live /\ fresh /\ p \in DOMAIN EntryNeed /\ Meets(AuthUser(access), EntryNeed[p])
    <3>1. live /\ fresh /\ p \in MenuEntries /\ p # "knowledge"
      BY <1>1, <2>1 DEF Promises, Current
    <3>2. held = access
      BY <3>1, StateFacts
    <3>3. QED
      BY <1>2, <3>1, <3>2 DEF EntryLeads
  <2>2. CASE Promises(p)
    BY <1>4, <1>5, <2>1, <2>2 DEF MenuOK
  <2>3. CASE ~Promises(p)
    BY <1>4, <2>3 DEF MenuOK
  <2>4. QED
    BY <2>2, <2>3
<1>8. QED
  BY <1>5, <1>6, <1>7, TypeSplitNext DEF PortalInv

LEMMA PressKeeps ==
  ASSUME PortalInv, NEW b \in Buttons, Press(b)
  PROVE  PortalInv'
<1>1. /\ phase = "shown" /\ page \in DOMAIN ButtonsOf /\ b \in DOMAIN ButtonsOf[page]
      /\ Meets(Holder, ButtonsOf[page][b].offer)
  BY DEF Buttons
<1>2. ButtonForm(page, b, ButtonsOf[page][b]) /\ page \in PageNames
  BY <1>1, ButtonForms DEF FormOf
<1>3. b # "none" /\ page # "none" /\ page # "login"
  BY <1>1, <1>2, NoLogin DEF ButtonForm
<1>4. /\ phase' = "acting" /\ button' = b /\ next' = 1 /\ refused' = FALSE
      /\ promise' = (IF Current THEN page ELSE "none")
      /\ UNCHANGED <<access, live, held, tie, page, fresh, grants>>
  BY DEF Press
<1>5. TypeRest'
  BY <1>2, <1>4, StateFacts DEF TypeRest
<1>6. TypeTab'
  <2>1. Bound' \in Nat
    BY <1>2, <1>4 DEF Bound, ButtonForm
  <2>2. next' \in 1..(1 + Bound')
    BY <1>4, <2>1, FirstStep
  <2>3. QED
    BY <1>1, <1>2, <1>4, <2>2 DEF TypeTab
<1>7. PhaseOK' /\ HeldOK'
  BY <1>1, <1>4 DEF PortalInv, PhaseOK, HeldOK
<1>8. TicketOK'
  BY <1>1, <1>4 DEF PortalInv, TicketOK, Caller
<1>9. MenuOK'
  BY <1>3, <1>4 DEF MenuOK
<1>10. ButtonOK'
  BY <1>1, <1>4 DEF ButtonOK, Current, Holder
<1>11. QED
  BY <1>5, <1>6, <1>7, <1>8, <1>9, <1>10, TypeSplitNext DEF PortalInv

LEMMA SendStepKeeps ==
  ASSUME PortalInv, SendStep
  PROVE  PortalInv'
<1> DEFINE content == ButtonsOf[page][button]
           step == content.sends[next]
<1>1. /\ page \in DOMAIN ButtonsOf /\ button \in DOMAIN ButtonsOf[page] /\ ButtonForm(page, button, content)
      /\ phase = "acting" /\ next <= Len(content.sends) /\ next \in Nat /\ next >= 1
      /\ ~refused /\ tie \in Ties
  BY StateFacts DEF SendStep, PortalInv, PhaseOK, TypeRest
<1>2. UNCHANGED <<access, held, fresh, promise, grants>>
  BY DEF SendStep
<1>3. /\ Len(content.sends) \in Nat /\ next \in DOMAIN content.sends
      /\ step.fails \in {"error", "ignored"}
      /\ step.call = "changePassword" => Len(content.sends) = 1
      /\ step.call \in {"createTicket", "ticketBoard"} => page # "ticket" /\ content.offer \in {Free, WritesTickets}
      /\ step.call = "createTicket" => page # "queue"
      /\ step.call = "ticketBoard" => page = "queue"
      /\ page = "tickets" /\ button = "create" /\ next = 1 => step = Shown("createTicket")
  BY <1>1 DEF ButtonForm
<1>4. Shown("createTicket").call = "createTicket" /\ Shown("createTicket").fails = "error"
      /\ Shown("createTicket").when = Free /\ Shown("createTicket").sure = TRUE
  BY DEF Shown, Call
<1>5. page \in PageNames /\ page # "login" /\ button # "none"
  BY <1>1, ButtonForms, NoLogin DEF ButtonForm
<1>6. Meets(Holder, Free)
  BY MeetsFree
<1>7. ASSUME promise # "none" PROVE live /\ fresh /\ page = promise /\ Meets(Holder, content.offer)
  BY <1>1, <1>5, <1>7 DEF PortalInv, ButtonOK
<1> DEFINE served == Meets(Holder, step.when) => Succeeds(live, Caller, step.call, step.fields)
<1>8. ASSUME promise # "none", Agree(Caller, page, button), ~served PROVE step.fails = "ignored"
  <2>1. Visitor(AuthUser(held), Holder, Caller)
    BY <1>7, <1>8, StateFacts
  <2>2. Meets(AuthUser(held), AllPages[page].gate)
    BY <1>1, <1>5 DEF PortalInv, HeldOK
  <2>3. page \in {"ticket", "queue"} => Meets(Caller, {Visible})
    BY <1>1, <1>7, <1>8 DEF PortalInv, TicketOK
  <2>4. Inside(AuthUser(held), Holder, Caller, page, AllPages[page].gate)
    BY <2>1, <2>2, <2>3 DEF Inside
  <2>5. Besides(Caller, page, button, next)
    <3>1. page = "tickets" /\ button = "create" /\ next = 2 => "requester" \in Caller
      BY <1>1, <1>5, <1>8 DEF PortalInv, ButtonOK, Caller
    <3>2. QED
      BY <1>8, <3>1 DEF Besides
  <2>6. Works(AuthUser(held), Holder, Caller, page, AllPages[page].gate, ButtonsOf[page])
    BY <1>1, ButtonsWork
  <2>7. Served(Holder, Caller, step)
    BY <1>1, <1>3, <1>7, <1>8, <2>4, <2>5, <2>6 DEF Works
  <2>8. QED
    BY <1>7, <1>8, <2>7 DEF Served, Succeeds
<1> HIDE DEF content
(* Where the button goes on: the promise of the menus is not concerned. *)
<1>9. ASSUME next' = next + 1, UNCHANGED <<page, phase, button, refused>>
      PROVE  TypeTab' /\ PhaseOK' /\ MenuOK' /\ HeldOK'
  <2>1. Bound' = Len(content.sends)
    BY <1>1, <1>9 DEF Bound, content
  <2>2. next' \in 1..(1 + Bound')
    BY <1>1, <1>3, <1>9, <2>1
  <2>3. TypeTab'
    BY <1>9, <2>2, StateFacts DEF TypeTab
  <2>4. PhaseOK' /\ MenuOK' /\ HeldOK'
    BY <1>2, <1>5, <1>9 DEF PortalInv, PhaseOK, MenuOK, HeldOK
  <2>5. QED
    BY <2>3, <2>4
<1>10. CASE /\ Meets(Holder, step.when) /\ Succeeds(live, Caller, step.call, step.fields)
            /\ next' = next + 1 /\ live' = (step.call # "changePassword")
            /\ tie' \in TieAfter(step.call) /\ UNCHANGED <<page, phase, button, refused>>
  <2>1. live
    BY <1>10 DEF Succeeds
  <2>2. tie' \in Ties /\ (step.call \notin {"createTicket", "ticketBoard"} => tie' = tie)
    BY <1>1, <1>10 DEF TieAfter, Ties
  <2>3. TypeRest'
    BY <1>2, <1>10, <2>2, StateFacts DEF TypeRest
  <2>4. TicketOK'
    <3>1. ASSUME fresh, page = "ticket" PROVE Meets(Caller', {Visible})
      BY <1>1, <1>2, <1>3, <2>1, <2>2, <3>1 DEF PortalInv, TicketOK, Caller
    <3>2. ASSUME fresh, page = "queue" PROVE Meets(Caller', {Visible})
      <4>1. CASE step.call = "ticketBoard"
        <5>1. tie' \in {t \in Ties : Meets(AuthUser(access) \cup t, {Visible})}
          BY <1>10, <4>1 DEF TieAfter
        <5>2. QED
          BY <1>2, <5>1 DEF Caller
      <4>2. CASE step.call # "ticketBoard"
        BY <1>1, <1>2, <1>3, <2>1, <2>2, <3>2, <4>2 DEF PortalInv, TicketOK, Caller
      <4>3. QED
        BY <4>1, <4>2
    <3>3. QED
      BY <1>2, <1>10, <3>1, <3>2 DEF TicketOK
  <2>5. ButtonOK'
    <3>1. ASSUME promise # "none" PROVE Meets(Holder', content.offer)
      <4>1. CASE step.call \in {"createTicket", "ticketBoard"}
        <5>1. content.offer \in {Free, WritesTickets}
          BY <1>3, <4>1
        <5>2. CASE content.offer = Free
          BY <5>2, MeetsFree
        <5>3. CASE content.offer = WritesTickets
          <6>1. "tickets:write" \in Holder
            BY <1>7, <3>1, <5>3 DEF Meets, WritesTickets, Needs
          <6>2. "tickets:write" \in Holder'
            BY <1>1, <1>2, <6>1 DEF Holder, Ties
          <6>3. QED
            BY <5>3, <6>2 DEF Meets, WritesTickets, Needs
        <5>4. QED
          BY <5>1, <5>2, <5>3
      <4>2. CASE step.call \notin {"createTicket", "ticketBoard"}
        BY <1>2, <1>7, <2>2, <3>1, <4>2 DEF Holder
      <4>3. QED
        BY <4>1, <4>2
    <3>2. live' \/ next' > Len(content.sends)
      <4>1. CASE step.call = "changePassword"
        <5>1. Len(content.sends) = 1 /\ next' = next + 1
          BY <1>3, <1>10, <4>1
        <5>2. QED
          BY <1>1, <5>1
      <4>2. CASE step.call # "changePassword"
        BY <1>10, <4>2
      <4>3. QED
        BY <4>1, <4>2
    <3>3. ASSUME promise # "none", page = "tickets", button = "create" PROVE tie' = {"requester"}
      <4>1. CASE next = 1
        BY <1>3, <1>4, <1>10, <3>3, <4>1 DEF TieAfter
      <4>2. CASE next > 1
        <5>1. tie = {"requester"}
          BY <1>1, <1>5, <3>3, <4>2 DEF PortalInv, ButtonOK
        <5>2. QED
          BY <1>3, <1>10, <3>3, <5>1 DEF TieAfter
      <4>3. QED
        BY <1>1, <4>1, <4>2
    <3>4. content' = content
      BY <1>10 DEF content
    <3>5. QED
      BY <1>1, <1>2, <1>7, <1>10, <3>1, <3>2, <3>3, <3>4 DEF ButtonOK, content
  <2>6. QED
    BY <1>9, <1>10, <2>3, <2>4, <2>5, TypeSplitNext DEF PortalInv
<1>11. CASE ~served /\ Fails(step, next + 1) /\ UNCHANGED <<live, tie>>
  <2>1. TypeRest' /\ Caller' = Caller /\ Holder' = Holder
    BY <1>2, <1>11, StateFacts DEF TypeRest, Caller, Holder
  <2>2. CASE step.fails = "ignored"
    <3>1. next' = next + 1 /\ UNCHANGED <<page, phase, button, refused>>
      BY <1>11, <2>2 DEF Fails
    <3>2. TicketOK'
      BY <1>1, <1>2, <1>11, <2>1, <3>1 DEF PortalInv, TicketOK
    <3>3. ButtonOK'
      <4>1. ASSUME promise # "none", page = "tickets", button = "create" PROVE tie = {"requester"}
        <5>1. next # 1
          BY <1>3, <1>4, <2>2, <4>1
        <5>2. QED
          BY <1>1, <1>5, <4>1, <5>1 DEF PortalInv, ButtonOK
      <4>2. QED
        BY <1>1, <1>2, <1>7, <1>11, <2>1, <3>1, <4>1 DEF ButtonOK, content
    <3>4. QED
      BY <1>9, <2>1, <3>1, <3>2, <3>3, TypeSplitNext DEF PortalInv
  <2>3. CASE step.fails = "error"
    <3>1. phase' = "shown" /\ refused' = TRUE /\ next' = 1 /\ UNCHANGED <<page, button>>
      BY <1>11, <2>3 DEF Fails
    <3>2. TypeTab'
      <4>1. Bound' = 0
        BY <3>1 DEF Bound
      <4>2. next' \in 1..(1 + Bound')
        BY <3>1, <4>1
      <4>3. QED
        BY <3>1, <4>2, StateFacts DEF TypeTab
    <3>3. PhaseOK' /\ HeldOK' /\ MenuOK'
      BY <1>1, <1>2, <1>5, <3>1 DEF PortalInv, PhaseOK, HeldOK, MenuOK
    <3>4. TicketOK'
      BY <1>1, <1>2, <1>11, <2>1, <3>1 DEF PortalInv, TicketOK
    <3>5. ButtonOK'
      <4>1. promise # "none" => ~Agree(Caller, page, button)
        BY <1>8, <1>11, <2>3
      <4>2. Agree(Caller, page, button)' <=> Agree(Caller, page, button)
        BY <2>1, <3>1
      <4>3. QED
        BY <1>2, <1>7, <3>1, <4>1, <4>2 DEF ButtonOK
    <3>6. QED
      BY <2>1, <3>2, <3>3, <3>4, <3>5, TypeSplitNext DEF PortalInv
  <2>4. QED
    BY <1>3, <2>2, <2>3
<1>12. CASE /\ ~step.sure \/ ~Meets(Holder, step.when)
            /\ next' = next + 1 /\ UNCHANGED <<page, phase, button, refused, live, tie>>
  <2>1. TypeRest' /\ Caller' = Caller /\ Holder' = Holder
    BY <1>2, <1>12, StateFacts DEF TypeRest, Caller, Holder
  <2>2. TicketOK'
    BY <1>1, <1>2, <1>12, <2>1 DEF PortalInv, TicketOK
  <2>3. ButtonOK'
    <3>1. ASSUME promise # "none", page = "tickets", button = "create" PROVE tie = {"requester"}
      <4>1. next # 1
        BY <1>3, <1>4, <1>6, <1>12, <3>1
      <4>2. QED
        BY <1>1, <1>5, <3>1, <4>1 DEF PortalInv, ButtonOK
    <3>2. QED
      BY <1>1, <1>2, <1>7, <1>12, <2>1, <3>1 DEF ButtonOK, content
  <2>4. QED
    BY <1>9, <1>12, <2>1, <2>2, <2>3, TypeSplitNext DEF PortalInv
<1>13. QED
  BY <1>10, <1>11, <1>12 DEF SendStep, content

LEMMA FinishButtonKeeps ==
  ASSUME PortalInv, FinishButton
  PROVE  PortalInv'
<1> DEFINE to == ButtonsOf[page][button].next
<1>1. /\ page \in DOMAIN ButtonsOf /\ button \in DOMAIN ButtonsOf[page] /\ phase = "acting" /\ ~refused
      /\ ButtonForm(page, button, ButtonsOf[page][button])
  BY StateFacts DEF FinishButton, PortalInv, PhaseOK
<1>2. to \in PageNames \cup {"stay", "login"} /\ button # "none"
  BY <1>1 DEF ButtonForm
<1>3. UNCHANGED <<access, live, held, fresh, grants>>
  BY DEF FinishButton
<1>4. CASE to = "stay"
  <2>1. phase' = "shown" /\ next' = 1 /\ UNCHANGED <<page, button, refused, promise, tie>>
    BY <1>4 DEF FinishButton
  <2>2. TypeRest' /\ Caller' = Caller
    BY <1>3, <2>1, StateFacts DEF TypeRest, Caller
  <2>3. TypeTab'
    <3>1. Bound' = 0
      BY <2>1 DEF Bound
    <3>2. next' \in 1..(1 + Bound')
      BY <2>1, <3>1
    <3>3. QED
      BY <2>1, <3>2, StateFacts DEF TypeTab
  <2>4. PhaseOK' /\ HeldOK' /\ MenuOK'
    BY <1>1, <1>2, <1>3, <2>1 DEF PortalInv, PhaseOK, HeldOK, MenuOK
  <2>5. TicketOK'
    BY <1>1, <1>3, <2>1, <2>2 DEF PortalInv, TicketOK
  <2>6. ButtonOK'
    BY <1>1, <1>2, <1>3, <2>1 DEF PortalInv, ButtonOK
  <2>7. QED
    BY <2>2, <2>3, <2>4, <2>5, <2>6, TypeSplitNext DEF PortalInv
<1>5. CASE to # "stay"
  <2>1. Enter(to) /\ promise' = "none" /\ tie' \in TiesOn(to)
    BY <1>5 DEF FinishButton
  <2>2. to \in PageNames \cup {"login"} /\ tie' \in Ties
    BY <1>2, <1>5, <2>1 DEF TiesOn, Ties
  <2> HIDE DEF to
  <2>3. TypeTab' /\ PhaseOK' /\ TicketOK' /\ ButtonOK' /\ phase' = "opening"
    BY <2>1, <2>2, Entering
  <2>4. TypeRest' /\ HeldOK' /\ MenuOK'
    BY <1>3, <2>1, <2>2, <2>3, StateFacts DEF TypeRest, PortalInv, HeldOK, MenuOK
  <2>5. QED
    BY <2>3, <2>4, TypeSplitNext DEF PortalInv
<1>6. QED
  BY <1>4, <1>5

(* A promise that brought the tab to the login page was made to a user whose
   access does not respect what the menus presume. *)
LEMMA SignInKeeps ==
  ASSUME PortalInv, SignIn
  PROVE  PortalInv'
<1>1. page = "login" /\ phase = "shown" /\ button = "none"
  BY StateFacts, NoLogin DEF SignIn, TypeTab
<1>2. live' = TRUE /\ Enter("home") /\ UNCHANGED <<access, held, tie, fresh, promise, grants>>
  BY DEF SignIn
<1>3. "home" \in PageNames
  BY DEF PageNames
<1>4. TypeTab' /\ PhaseOK' /\ TicketOK' /\ ButtonOK' /\ phase' = "opening"
  BY <1>2, <1>3, Entering
<1>5. TypeRest' /\ HeldOK'
  BY <1>2, <1>4, StateFacts DEF TypeRest, PortalInv, HeldOK
<1>6. MenuOK'
  BY <1>1, <1>2, NoLogin DEF PortalInv, MenuOK, Caller
<1>7. QED
  BY <1>4, <1>5, <1>6, TypeSplitNext DEF PortalInv

LEMMA SignOutKeeps ==
  ASSUME PortalInv, SignOut
  PROVE  PortalInv'
<1>1. /\ live' \in {live, FALSE} /\ Enter("login") /\ tie' = {} /\ promise' = "none"
      /\ UNCHANGED <<access, held, fresh, grants>>
  BY DEF SignOut
<1>2. TypeTab' /\ PhaseOK' /\ TicketOK' /\ ButtonOK' /\ phase' = "opening"
  BY <1>1, Entering
<1>3. {} \in Ties
  BY DEF Ties
<1>4. TypeRest' /\ HeldOK' /\ MenuOK'
  BY <1>1, <1>2, <1>3, StateFacts DEF TypeRest, PortalInv, HeldOK, MenuOK
<1>5. QED
  BY <1>2, <1>4, TypeSplitNext DEF PortalInv

LEMMA SessionEndsKeeps ==
  ASSUME PortalInv, SessionEnds
  PROVE  PortalInv'
<1>1. /\ live' = FALSE /\ promise' = "none"
      /\ UNCHANGED <<access, held, tie, page, phase, button, next, refused, fresh, grants>>
  BY DEF SessionEnds
<1>2. TypeTab'
  BY <1>1, StateFacts DEF TypeTab, Bound
<1>3. TypeRest'
  BY <1>1, StateFacts DEF TypeRest
<1>4. PhaseOK' /\ HeldOK' /\ TicketOK' /\ MenuOK' /\ ButtonOK'
  BY <1>1 DEF PortalInv, PhaseOK, HeldOK, TicketOK, MenuOK, ButtonOK
<1>5. QED
  BY <1>2, <1>3, <1>4, TypeSplitNext DEF PortalInv

(* What the new role grants is not stored a second time. *)
LEMMA SetAccessKeeps ==
  ASSUME PortalInv, NEW grant \in Grants, SetAccess(grant)
  PROVE  PortalInv'
<1>1. /\ grants < MaxGrants /\ grants' = grants + 1 /\ fresh' = FALSE /\ promise' = "none"
      /\ access' = AccessAfter(access, grant.role, grant.payload)
      /\ UNCHANGED <<live, held, tie, page, phase, button, next, refused>>
  BY DEF SetAccess
<1>2. grant.role \in RoleCodes /\ grant.payload \in SUBSET (SUBSET PermissionCodes) /\ MaxGrants \in Nat
  BY PortalAssumption
<1>3. access \in Accounts /\ grants \in 0..MaxGrants
  BY StateFacts DEF TypeRest
<1>4. access.extras \in SUBSET PermissionCodes
  BY <1>3 DEF Accounts
<1>5. access' \in Accounts /\ access'.extras \cap RolePermissions[access'.role] = {}
  BY <1>1, <1>2, <1>4 DEF AccessAfter, Accounts
<1>6. grants' \in 0..MaxGrants
  BY <1>1, <1>2, <1>3
<1>7. TypeRest'
  BY <1>1, <1>5, <1>6, StateFacts DEF TypeRest
<1>8. TypeTab'
  BY <1>1, StateFacts DEF TypeTab, Bound
<1>9. PhaseOK' /\ HeldOK' /\ TicketOK' /\ MenuOK' /\ ButtonOK'
  BY <1>1 DEF PortalInv, PhaseOK, HeldOK, TicketOK, MenuOK, ButtonOK
<1>10. QED
  BY <1>7, <1>8, <1>9, TypeSplitNext DEF PortalInv

LEMMA PortalStarts == PortalInit => PortalInv
<1> SUFFICES ASSUME PortalInit PROVE PortalInv
  OBVIOUS
<1>1. access \in FirstAccounts
  BY DEF PortalInit
<1>2. access \in Accounts /\ access.extras \cap RolePermissions[access.role] = {} /\ MaxGrants \in Nat
  BY <1>1, PortalAssumption
<1>3. {} \in Ties
  BY DEF Ties
<1>4. TypeRest
  <2>1. 0 \in 0..MaxGrants
    BY <1>2
  <2>2. /\ held = access /\ live = FALSE /\ tie = {} /\ fresh = TRUE /\ promise = "none" /\ grants = 0
    BY DEF PortalInit
  <2>3. QED
    BY <1>2, <1>3, <2>1, <2>2 DEF TypeRest
<1>5. TypeTab
  <2>1. /\ page = "login" /\ phase = "shown" /\ button = "none" /\ next = 1 /\ refused = FALSE
    BY DEF PortalInit
  <2>2. Bound = 0
    BY <2>1 DEF Bound
  <2>3. next \in 1..(1 + Bound)
    BY <2>1, <2>2
  <2>4. QED
    BY <2>1, <2>3 DEF TypeTab
<1>6. PhaseOK /\ HeldOK /\ TicketOK /\ MenuOK /\ ButtonOK
  BY DEF PortalInit, PhaseOK, HeldOK, TicketOK, MenuOK, ButtonOK
<1>7. QED
  BY <1>4, <1>5, <1>6, TypeSplit DEF PortalInv

LEMMA PortalStepKeeps ==
  ASSUME PortalInv, [PortalNext]_portalVars
  PROVE  PortalInv'
<1>1. CASE TabWorks
  BY <1>1, OpenLoginKeeps, OpenPageKeeps, LoadStepKeeps, SendStepKeeps, FinishButtonKeeps DEF TabWorks
<1>2. CASE \E p \in Entries : GoTo(p)
  BY <1>2, GoToKeeps
<1>3. CASE \E b \in Buttons : Press(b)
  BY <1>3, PressKeeps
<1>4. CASE SignIn \/ SignOut \/ SessionEnds
  BY <1>4, SignInKeeps, SignOutKeeps, SessionEndsKeeps
<1>5. CASE \E grant \in Grants : SetAccess(grant)
  BY <1>5, SetAccessKeeps
<1>6. CASE UNCHANGED portalVars
  <2>1. UNCHANGED <<access, live, grants, held, tie, page, phase, button, next, refused, fresh, promise>>
    BY <1>6 DEF portalVars, tabVars
  <2>2. TypeTab' /\ TypeRest'
    BY <2>1, StateFacts DEF TypeTab, TypeRest, Bound
  <2>3. PhaseOK' /\ HeldOK' /\ TicketOK' /\ MenuOK'
    BY <2>1 DEF PortalInv, PhaseOK, HeldOK, TicketOK, MenuOK, Caller
  <2>4. ButtonOK'
    BY <2>1 DEF PortalInv, ButtonOK, Agree, Caller, Holder
  <2>5. QED
    BY <2>2, <2>3, <2>4, TypeSplitNext DEF PortalInv
<1>7. QED
  BY <1>1, <1>2, <1>3, <1>4, <1>5, <1>6 DEF PortalNext

(***************************************************************************)
(* The theorems                                                            *)
(***************************************************************************)
(* The inductive invariant of a tab: for every first account, whatever an
   administrator grants and however often. *)
THEOREM TabInvariant == PortalSpec => []PortalInv
<1>1. PortalInv /\ [PortalNext]_portalVars => PortalInv'
  BY PortalStepKeeps
<1>2. QED
  BY <1>1, PortalStarts, PTL DEF PortalSpec

(* The state of a tab has its type; what setAccess stores beside a role is
   never granted by the role itself. *)
THEOREM PortalTypeCorrect == PortalSpec => []PortalTypeOK
<1>1. PortalInv => PortalTypeOK
  BY DEF PortalInv
<1>2. QED
  BY <1>1, TabInvariant, PTL

(* An entry of the menus or of the home page opens its page and nothing of it
   is refused, for every account that respects what the menus presume: menus,
   gates, loads and the decorators of the routes agree. *)
THEOREM PagesOpen == PortalSpec => []OfferedPagesOpen
<1>1. PortalInv => OfferedPagesOpen
  BY DEF PortalInv, MenuOK, OfferedPagesOpen
<1>2. QED
  BY <1>1, TabInvariant, PTL

(* A button that a page offers is refused, while the access is that of the
   page, only where AsksMore names what the user lacks: for every role with
   every set of extra permissions, the auditor of the seed among them, the
   table has all disagreements between the buttons and the API. *)
THEOREM ButtonsAllowed == PortalSpec => []OfferedIsAllowed
<1>1. PortalInv => OfferedIsAllowed
  BY DEF PortalInv, PhaseOK, ButtonOK, OfferedIsAllowed
<1>2. QED
  BY <1>1, TabInvariant, PTL
===============================================================================

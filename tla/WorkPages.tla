------------------------------ MODULE WorkPages ------------------------------
(***************************************************************************)
(* The pages of web/src/app/app outside admin, in the form of module       *)
(* Pages, and the table of all pages.  Besides its roles and permissions   *)
(* the user that a page holds has the code "plain" when the home page is   *)
(* not the agents' one, and on the page of a ticket the tie to it.         *)
(***************************************************************************)
EXTENDS Pages

WritesTickets == Needs("tickets:write")
ReadsReports == Needs("reports:read")

HomePageForStaff ==   \* wrong variant: those without tickets are sent to sign in
  Page(ShowAgentWorkspace, "login", <<Optional("reportWorkspace"), Optional("notifications")>>)

HomePage ==
  Page(Free, "home",
       <<OptionalIf(ShowAgentWorkspace, "reportWorkspace"), OptionalIf(Needs("plain"), "listTickets"),
         OptionalIf(Needs("plain") \cup ReadsReports, "reportSummary"),
         OptionalIf(Needs("approvals:read"), "approvals"), Optional("notifications")>>)

ApprovalsPage == Page(Needs("approvals:read"), "home", <<Shown("approvals")>>)
ApprovalsButtons ==
  [decide |-> Button(Needs("approvals:decide"), <<Shown("decideApproval"), Shown("approvals")>>)]

WritesAssets == Needs("assets:write")

AssetsPage ==
  Page(Needs("assets:read"), "home",
       <<Shown("assetTypes"), Shown("assetStatuses"), Shown("assets"), Shown("assetRelationTypes"),
         ShownIf(Needs("org:read"), "listLocations"), ShownIf(WritesAssets, "assetAssignees")>>)
AssetsButtonsForReaders ==   \* wrong variant: the import is offered to readers
  [select |-> Button(Free, <<Optional("assetRelations"), Optional("assetImpact")>>),
   import |-> Button(Free, <<Shown("discoveryImportAssets"), Shown("assets")>>)]

AssetsButtons ==
  [select |-> Button(Free, <<Optional("assetRelations"), Optional("assetImpact")>>),
   filter |-> Button(Free, <<Shown("assets")>>), export |-> Button(Free, <<Shown("downloadAssetsCsv")>>),
   create |-> Button(WritesAssets, <<Shown("createAsset"), Shown("assets")>>),
   save |-> Button(WritesAssets, <<Shown("updateAsset"), Shown("assets")>>),
   retire |-> Button(WritesAssets, <<Shown("deleteAsset"), Shown("assets")>>),
   addRelation |-> Button(WritesAssets, <<Shown("createAssetRelation"), Shown("assetRelations"),
                                          Shown("assetImpact")>>),
   deleteRelation |-> Button(WritesAssets, <<Shown("deleteAssetRelation"), Shown("assetRelations"),
                                             Shown("assetImpact")>>),
   import |-> Button(WritesAssets, <<Shown("discoveryImportAssets"), Shown("assets")>>)]

ThenExports(call) == <<Shown(call), Shown("listAuditExportSchedules"), Shown("listAuditExportRuns")>>

AuditPage ==
  Page(Needs("audit:read"), "home",
       <<Must("auditFacets"), Must("audit"), Must("listAuditExportSchedules"),
         Must("listAuditExportRuns")>>)
AuditButtons ==
  [filter |-> Button(Free, <<Shown("audit")>>), export |-> Button(Free, <<Shown("downloadAuditCsv")>>),
   create |-> Button(Free, ThenExports("createAuditExportSchedule")),
   run |-> Button(Free, ThenExports("runAuditExportSchedule")),
   toggle |-> Button(Free, ThenExports("updateAuditExportSchedule")),
   delete |-> Button(Free, ThenExports("deleteAuditExportSchedule"))]

CatalogPage == Page(Free, "home", <<Shown("catalog"), Optional("ticketMeta")>>)
CatalogButtons ==
  [create |-> Button(Needs("settings:manage"), <<Shown("createCatalogItem"), Shown("catalog")>>),
   save |-> Button(Needs("settings:manage"), <<Shown("updateCatalogItem"), Shown("catalog")>>),
   request |-> LeadingTo(WritesTickets, <<Shown("requestCatalogItem")>>, "ticket")]

ChangesPage == Page(ShowAgentWorkspace, "tickets", <<Shown("listTickets")>>)
ChangesButtons == [create |-> LeadingTo(WritesTickets, <<Shown("createTicket")>>, "ticket")]

ProblemsPage == Page(ShowAgentWorkspace, "tickets", <<Shown("listTickets")>>)
ProblemsButtons == [create |-> LeadingTo(WritesTickets, <<Shown("createTicket")>>, "ticket")]

ImPage == Page(Needs("im:read"), "home", <<Shown("listImIncidents"), Shown("getImDashboard")>>)
ImButtons ==
  [refresh |-> Button(Free, <<Shown("listImIncidents"), Shown("getImDashboard")>>),
   create |-> LeadingTo(Needs("im:write"), <<Shown("createImIncident")>>, "incident")]

IncidentPage ==
  Page(Needs("im:read"), "home",
       <<Shown("getImIncident"),
         OptionalIf(OneOf({"im:write", "im:command", "users:read"}), "listUsers")>>)
IncidentButtons ==
  [update |-> Button(Needs("im:write"), <<Shown("addImUpdate"), Shown("getImIncident")>>),
   status |-> Button(Needs("im:write"), <<Shown("updateImStatus"), Shown("getImIncident")>>),
   role |-> Button(OneOf({"im:write", "im:command"}), <<Shown("assignImRole"), Shown("getImIncident")>>),
   pir |-> Button(Free, <<Shown("getImPir")>>)]

WritesKnowledge == Needs("knowledge:write")

KnowledgePage == Page(OneOf({"knowledge:read", "knowledge:write"}), "home", <<Shown("knowledge")>>)
KnowledgeButtons ==
  [publish |-> Button(WritesKnowledge, <<Shown("publishKnowledge"), Shown("knowledge")>>)]

ArticlePage ==
  PageOf(Call("me", Free, "knowledge"), Free, "home", <<Call("getKnowledge", Free, "knowledge")>>)
ArticleButtons ==
  [save |-> Button(WritesKnowledge, <<Shown("updateKnowledge")>>),
   publish |-> Button(WritesKnowledge, <<Shown("publishKnowledge")>>),
   media |-> Button(WritesKnowledge, <<Shown("uploadKnowledgeMedia")>>),
   feedback |-> Button(Free, <<Shown("knowledgeFeedback")>>)]

NewArticlePage == Page(WritesKnowledge, "knowledge", <<>>)
NewArticleButtons ==
  [submit |->
     LeadingTo(Free, <<Shown("createKnowledge"), Perhaps("uploadKnowledgeAttachment")>>, "article"),
   media |-> Button(Free, <<Shown("uploadKnowledgeMedia")>>)]

MajorPage == Page(ShowAgentWorkspace, "tickets", <<Shown("majorIncidentsOps")>>)
MajorButtons == [refresh |-> Button(Free, <<Shown("majorIncidentsOps")>>)]

NotificationsPage == Page(Free, "home", <<Must("notifications")>>)
NotificationsButtons ==
  [read |-> Button(Free, <<Optional("markNotificationRead")>>),
   open |-> LeadingTo(Free, <<Optional("markNotificationRead")>>, "ticket"),
   readAll |-> Button(Free, <<Shown("markAllNotificationsRead"), Shown("notifications")>>)]

ProfilePage ==
  PageOf(Call("getProfile", Free, "login"), Free, "home",
         <<Optional("notificationPreferences"), Optional("notificationDigestSettings")>>)
ProfileButtons ==
  [save |-> Button(Free, <<Shown("updateProfile")>>),
   changePassword |-> LeadingTo(Free, <<Shown("changePassword")>>, "login"),
   setupMfa |-> Button(Free, <<Shown("mfaSetup")>>), confirmMfa |-> Button(Free, <<Shown("mfaConfirm")>>),
   cancelMfa |-> Button(Free, <<Optional("mfaCancelSetup")>>),
   disableMfa |-> Button(Free, <<Shown("mfaDisable")>>),
   preference |-> Button(Free, <<Shown("setNotificationPreference")>>),
   digest |-> Button(Free, <<Shown("setNotificationDigestSettings")>>)]

QueuePage == Page(ShowAgentWorkspace, "tickets", <<Shown("ticketBoard")>>)
QueueButtons ==
  [refresh |-> Button(Free, <<Shown("ticketBoard")>>),
   move |-> Button(WritesTickets, <<Change({"status"}), Shown("ticketBoard")>>)]

ReportsPage ==
  Page(ReadsReports, "home",
       <<Shown("reportSummary"), Shown("reportStages"), Shown("reportHeatmap"),
         Optional("knowledgeDeflectionAnalytics"), Optional("reportImsKpis"),
         Shown("listReportSchedules")>>)
ReportsButtons ==
  [apply |-> Button(Free, <<Shown("reportSummary"), Shown("reportStages"), Shown("reportHeatmap")>>),
   csv |-> Button(Free, <<Shown("downloadReportCsv")>>),
   pdf |-> Button(Free, <<Shown("downloadReportPdf")>>),
   create |-> Button(Free, <<Shown("createReportSchedule"), Shown("listReportSchedules")>>),
   run |-> Button(Free, <<Shown("runReportSchedule"), Shown("listReportSchedules")>>),
   toggle |-> Button(Free, <<Shown("updateReportSchedule"), Shown("listReportSchedules")>>),
   delete |-> Button(Free, <<Shown("deleteReportSchedule"), Shown("listReportSchedules")>>)]

TicketsPage ==
  Page(Free, "home",
       <<Shown("listTickets"), Shown("ticketMeta"), Optional("listSavedViews"),
         OptionalIf(Needs("org:read"), "listLocations")>>)
TicketsButtons ==
  [create |-> LeadingTo(WritesTickets, <<Shown("createTicket"), Perhaps("uploadAttachment")>>, "ticket"),
   assist |-> Button(WritesTickets, <<Shown("aiClassify"), Shown("aiDuplicates"),
                                      Shown("aiSuggestKnowledge")>>),
   search |-> Button(Free, <<Shown("listTickets")>>),
   export |-> Button(Free, <<Shown("downloadTicketsCsv")>>),
   saveView |-> Button(Free, <<Shown("createSavedView"), Shown("listSavedViews")>>)]

QueueReader == {"tickets:read_all", "tickets:read_queue"}
QueueWriter == OneOf(QueueReader) \cup WritesTickets
Participant == OneOf({"requester", "tickets:write"})
Merger == {QueueReader, {"tickets:write", "tickets:assign"}}

TicketPage ==
  Page(Free, "home",
       <<Must("getTicket"), Optional("listAttachments"), Optional("listWorkLogs"),
         Optional("ticketMeta"), OptionalIf(OneOf({"org:read", "tickets:assign"}), "listTeams"),
         OptionalIf(Needs("org:read"), "assignmentRules"),
         OptionalIf(Needs("org:read"), "listLocations"), Optional("heartbeatPresence")>>)

(* The forms that send an update. *)
TicketForms ==
  [status |-> Button(OneOf(StaffTickets \cup {"requester"}), <<Change({"status"})>>),
   impact |-> Button(ShowAgentWorkspace, <<Change({"impact"})>>),
   assignment |-> Button(Needs("tickets:assign"), <<Change({"assignment", "location"})>>),
   location |-> Button(OneOf(StaffTickets), <<Change({"location"})>>),
   assignToMe |-> Button(Needs("tickets:assign"), <<Change({"assignment", "status"})>>),
   analysis |-> Button(WritesTickets, <<Change({"analysis"})>>),
   plan |-> Button(WritesTickets, <<Change({"plan"})>>),
   major |-> Button(OneOf(QueueReader), <<Change({"major"})>>),
   restricted |-> Button(WritesTickets, <<Change({"restricted"})>>)]

(* The rest of the buttons. *)
TicketTools ==
  [cab |-> Button(WritesTickets, <<Shown("requestCab")>>),
   problem |-> LeadingTo(QueueWriter, <<Shown("promoteToProblem")>>, "ticket"),
   comment |-> Button(Participant, <<Shown("addComment"), Shown("getTicket")>>),
   delete |-> LeadingTo(DeletesTickets, <<Shown("deleteTicket")>>, "tickets"),
   link |-> Button(QueueWriter, <<Shown("linkChildTicket")>>),
   unlink |-> Button(OneOf(QueueReader), <<Shown("unlinkChildTicket")>>),
   merge |-> Button(Merger, <<Shown("mergeTickets"), Optional("listAttachments")>>),
   watch |-> Button(Free, <<Shown("watchTicket")>>), unwatch |-> Button(Free, <<Shown("unwatchTicket")>>),
   assist |-> Button(WritesTickets, <<Shown("aiSummarize"), Shown("aiDuplicates"),
                                      ShownIf(Needs("tickets:read_queue"), "aiSlaRisk")>>),
   workLog |-> Button(ShowAgentWorkspace \cup WritesTickets, <<Shown("addWorkLog"),
                                                               Shown("listWorkLogs")>>),
   attach |-> Button(Participant, <<Shown("uploadAttachment"), Shown("getTicket")>>)]

TicketButtons ==
  [b \in DOMAIN TicketForms \cup DOMAIN TicketTools |->
     IF b \in DOMAIN TicketForms THEN TicketForms[b] ELSE TicketTools[b]]

AllPages ==
  [home |-> HomePage, tickets |-> TicketsPage, ticket |-> TicketPage, queue |-> QueuePage,
   major |-> MajorPage, problems |-> ProblemsPage, changes |-> ChangesPage, im |-> ImPage,
   incident |-> IncidentPage, approvals |-> ApprovalsPage, assets |-> AssetsPage, audit |-> AuditPage,
   catalog |-> CatalogPage, knowledge |-> KnowledgePage, article |-> ArticlePage,
   new_article |-> NewArticlePage, notifications |-> NotificationsPage, profile |-> ProfilePage,
   reports |-> ReportsPage, users |-> UsersPage, roles |-> RolesPage, teams |-> TeamsPage,
   departments |-> DepartmentsPage, locations |-> LocationsPage, routing |-> RoutingPage,
   policies |-> PoliciesPage, automation |-> AutomationPage, integrations |-> IntegrationsPage,
   branding |-> BrandingPage]

ButtonsOf ==
  [tickets |-> TicketsButtons, ticket |-> TicketButtons, queue |-> QueueButtons,
   major |-> MajorButtons, problems |-> ProblemsButtons, changes |-> ChangesButtons, im |-> ImButtons,
   incident |-> IncidentButtons, approvals |-> ApprovalsButtons, assets |-> AssetsButtons,
   audit |-> AuditButtons, catalog |-> CatalogButtons, knowledge |-> KnowledgeButtons,
   article |-> ArticleButtons, new_article |-> NewArticleButtons, notifications |-> NotificationsButtons,
   profile |-> ProfileButtons, reports |-> ReportsButtons, users |-> UsersButtons, roles |-> RolesButtons,
   teams |-> TeamsButtons, departments |-> DepartmentsButtons, locations |-> LocationsButtons,
   routing |-> RoutingButtons, policies |-> PoliciesButtons, automation |-> AutomationButtons,
   integrations |-> IntegrationsButtons, branding |-> BrandingButtons]
=============================================================================

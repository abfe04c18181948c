------------------------------ MODULE ApiClient ------------------------------
(***************************************************************************)
(* The functions of web/src/lib/api.ts: the request that each of them      *)
(* sends.  "x" is the identifier of a row, encoded into the path; queries  *)
(* and bodies are left out.                                                *)
(***************************************************************************)
EXTENDS ApiRoutes

Fetches(path) == [verb |-> "GET", path |-> path]
Posts(path) == [verb |-> "POST", path |-> path]
Patches(path) == [verb |-> "PATCH", path |-> path]
Puts(path) == [verb |-> "PUT", path |-> path]
Deletes(path) == [verb |-> "DELETE", path |-> path]

AuthCalls ==
  [login |-> Posts(<<"auth", "login">>), verifyMfaLogin |-> Posts(<<"auth", "mfa", "verify-login">>),
   mfaSetup |-> Posts(<<"auth", "mfa", "setup">>), mfaConfirm |-> Posts(<<"auth", "mfa", "confirm">>),
   mfaCancelSetup |-> Posts(<<"auth", "mfa", "cancel-setup">>),
   mfaDisable |-> Posts(<<"auth", "mfa", "disable">>), ssoProviders |-> Fetches(<<"auth", "sso", "providers">>),
   logout |-> Posts(<<"auth", "logout">>), me |-> Fetches(<<"auth", "me">>),
   getProfile |-> Fetches(<<"auth", "profile">>), updateProfile |-> Patches(<<"auth", "me">>),
   changePassword |-> Posts(<<"auth", "change-password">>)]

TicketListCalls ==
  [listTickets |-> Fetches(<<"tickets">>), ticketBoard |-> Fetches(<<"tickets", "board">>),
   majorIncidentsOps |-> Fetches(<<"tickets", "major-incidents">>), getTicket |-> Fetches(<<"tickets", "x">>),
   createTicket |-> Posts(<<"tickets">>)]

TicketRowCalls ==
  [linkChildTicket |-> Posts(<<"tickets", "x", "children">>),
   unlinkChildTicket |-> Deletes(<<"tickets", "x", "children", "x">>),
   mergeTickets |-> Posts(<<"tickets", "x", "merge">>), updateTicket |-> Patches(<<"tickets", "x">>),
   promoteToProblem |-> Posts(<<"tickets", "x", "promote-problem">>),
   requestCab |-> Posts(<<"tickets", "x", "request-cab">>), watchTicket |-> Posts(<<"tickets", "x", "watch">>),
   unwatchTicket |-> Deletes(<<"tickets", "x", "watch">>),
   heartbeatPresence |-> Posts(<<"tickets", "x", "presence">>),
   leavePresence |-> Deletes(<<"tickets", "x", "presence">>),
   listWorkLogs |-> Fetches(<<"tickets", "x", "work-logs">>), addWorkLog |-> Posts(<<"tickets", "x", "work-logs">>),
   deleteTicket |-> Deletes(<<"tickets", "x">>), addComment |-> Posts(<<"tickets", "x", "comments">>)]

TicketViewCalls ==
  [ticketMeta |-> Fetches(<<"tickets", "meta">>), listSavedViews |-> Fetches(<<"tickets", "views">>),
   createSavedView |-> Posts(<<"tickets", "views">>), deleteSavedView |-> Deletes(<<"tickets", "views", "x">>)]

ImCalls ==
  [listImIncidents |-> Fetches(<<"im">>), getImDashboard |-> Fetches(<<"im", "dashboard">>),
   getImIncident |-> Fetches(<<"im", "x">>), createImIncident |-> Posts(<<"im">>),
   addImUpdate |-> Posts(<<"im", "x", "updates">>), updateImStatus |-> Patches(<<"im", "x", "status">>),
   getImPir |-> Fetches(<<"im", "x", "pir">>), assignImRole |-> Posts(<<"im", "x", "roles">>)]

AutomationCalls ==
  [listAutomationRules |-> Fetches(<<"automation", "rules">>),
   createAutomationRule |-> Posts(<<"automation", "rules">>),
   updateAutomationRule |-> Patches(<<"automation", "rules", "x">>)]

OrgCalls ==
  [listTeams |-> Fetches(<<"org", "teams">>), listLocations |-> Fetches(<<"org", "locations">>),
   createLocation |-> Posts(<<"org", "locations">>), updateLocation |-> Patches(<<"org", "locations", "x">>),
   deactivateLocation |-> Deletes(<<"org", "locations", "x">>),
   listDepartments |-> Fetches(<<"org", "departments">>), createDepartment |-> Posts(<<"org", "departments">>),
   updateDepartment |-> Patches(<<"org", "departments", "x">>),
   deactivateDepartment |-> Deletes(<<"org", "departments", "x">>), createTeam |-> Posts(<<"org", "teams">>),
   updateTeam |-> Patches(<<"org", "teams", "x">>), addTeamMember |-> Posts(<<"org", "teams", "x", "members">>),
   removeTeamMember |-> Deletes(<<"org", "teams", "x", "members", "x">>)]

RoutingCalls ==
  [assignmentRules |-> Fetches(<<"assignment-rules">>), createAssignmentRule |-> Posts(<<"assignment-rules">>),
   listSkills |-> Fetches(<<"skills">>), createSkill |-> Posts(<<"skills">>),
   getUserSkills |-> Fetches(<<"skills", "users", "x">>),
   setUserSkills |-> Puts(<<"skills", "users", "x">>),
   slaPolicies |-> Fetches(<<"sla", "policies">>), createSlaPolicy |-> Posts(<<"sla", "policies">>)]

ReportCalls ==
  [reportSummary |-> Fetches(<<"reports", "summary">>), reportStages |-> Fetches(<<"reports", "stages">>),
   reportHeatmap |-> Fetches(<<"reports", "heatmap">>), listReportSchedules |-> Fetches(<<"reports", "schedules">>),
   createReportSchedule |-> Posts(<<"reports", "schedules">>),
   updateReportSchedule |-> Patches(<<"reports", "schedules", "x">>),
   deleteReportSchedule |-> Deletes(<<"reports", "schedules", "x">>),
   runReportSchedule |-> Posts(<<"reports", "schedules", "x", "run">>)]

KpiCalls == [reportImsKpis |-> Fetches(<<"reports", "ims-kpis">>)]

DownloadCalls ==
  [downloadReportCsv |-> Fetches(<<"reports", "export.csv">>), downloadReportPdf |-> Fetches(<<"reports", "export.pdf">>),
   downloadTicketsCsv |-> Fetches(<<"tickets", "export.csv">>), downloadAuditCsv |-> Fetches(<<"audit", "export.csv">>),
   reportWorkspace |-> Fetches(<<"reports", "workspace">>)]

NotificationCalls ==
  [notifications |-> Fetches(<<"notifications">>),
   notificationUnreadCount |-> Fetches(<<"notifications", "unread-count">>),
   markNotificationRead |-> Posts(<<"notifications", "x", "read">>),
   markAllNotificationsRead |-> Posts(<<"notifications", "read-all">>),
   notificationPreferences |-> Fetches(<<"notifications", "preferences">>),
   setNotificationPreference |-> Patches(<<"notifications", "preferences">>),
   notificationDigestSettings |-> Fetches(<<"notifications", "digest">>),
   setNotificationDigestSettings |-> Patches(<<"notifications", "digest">>)]

KnowledgeCalls ==
  [knowledge |-> Fetches(<<"knowledge">>), getKnowledge |-> Fetches(<<"knowledge", "x">>),
   knowledgeFeedback |-> Posts(<<"knowledge", "x", "feedback">>),
   knowledgeDeflectionAnalytics |-> Fetches(<<"knowledge", "analytics", "deflection">>)]

AiCalls ==
  [aiClassify |-> Posts(<<"ai", "assist", "classify">>), aiSummarize |-> Posts(<<"ai", "assist", "summarize">>),
   aiDuplicates |-> Posts(<<"ai", "assist", "duplicates">>),
   aiSlaRisk |-> Fetches(<<"ai", "assist", "sla-risk", "x">>),
   aiSuggestKnowledge |-> Posts(<<"ai", "assist", "knowledge">>)]

ArticleCalls ==
  [createKnowledge |-> Posts(<<"knowledge">>), updateKnowledge |-> Patches(<<"knowledge", "x">>),
   publishKnowledge |-> Posts(<<"knowledge", "x", "publish">>),
   listKnowledgeAttachments |-> Fetches(<<"knowledge", "x", "attachments">>),
   uploadKnowledgeMedia |-> Posts(<<"knowledge", "media">>),
   uploadKnowledgeAttachment |-> Posts(<<"knowledge", "x", "attachments">>),
   downloadKnowledgeAttachment |-> Fetches(<<"knowledge", "attachments", "x", "download">>)]

CatalogCalls ==
  [catalog |-> Fetches(<<"catalog">>), createCatalogItem |-> Posts(<<"catalog">>),
   updateCatalogItem |-> Patches(<<"catalog", "x">>), requestCatalogItem |-> Posts(<<"catalog", "x", "request">>)]

AssetCalls ==
  [assets |-> Fetches(<<"assets">>), asset |-> Fetches(<<"assets", "x">>), assetTypes |-> Fetches(<<"assets", "types">>),
   assetStatuses |-> Fetches(<<"assets", "statuses">>), assetAssignees |-> Fetches(<<"assets", "assignees">>),
   createAsset |-> Posts(<<"assets">>), updateAsset |-> Patches(<<"assets", "x">>),
   deleteAsset |-> Deletes(<<"assets", "x">>), downloadAssetsCsv |-> Fetches(<<"assets", "export.csv">>),
   linkAssetToTicket |-> Posts(<<"assets", "tickets", "x", "link">>),
   assetRelationTypes |-> Fetches(<<"assets", "relation-types">>),
   assetRelations |-> Fetches(<<"assets", "x", "relations">>),
   createAssetRelation |-> Posts(<<"assets", "x", "relations">>),
   deleteAssetRelation |-> Deletes(<<"assets", "x", "relations", "x">>),
   assetImpact |-> Fetches(<<"assets", "x", "impact">>),
   discoveryImportAssets |-> Posts(<<"assets", "discovery", "import">>)]

ApprovalCalls ==
  [approvals |-> Fetches(<<"approvals">>), decideApproval |-> Posts(<<"approvals", "x", "decide">>),
   approvalPolicies |-> Fetches(<<"approvals", "policies">>),
   createApprovalPolicy |-> Posts(<<"approvals", "policies">>),
   updateApprovalPolicy |-> Patches(<<"approvals", "policies", "x">>)]

UserCalls ==
  [listUsers |-> Fetches(<<"users">>), createUser |-> Posts(<<"users">>), updateUser |-> Patches(<<"users", "x">>),
   resetUserPassword |-> Posts(<<"users", "x", "reset-password">>), deleteUser |-> Deletes(<<"users", "x">>),
   rolesMatrix |-> Fetches(<<"users", "roles", "matrix">>), setUserAccess |-> Patches(<<"users", "x", "roles">>)]

AttachmentCalls ==
  [listAttachments |-> Fetches(<<"tickets", "x", "attachments">>),
   uploadAttachment |-> Posts(<<"tickets", "x", "attachments">>),
   downloadAttachment |-> Fetches(<<"attachments", "x", "download">>),
   attachmentLimits |-> Fetches(<<"attachments", "limits">>)]

BrandingCalls ==
  [branding |-> Fetches(<<"branding">>), updateBrandingTheme |-> Patches(<<"branding", "theme">>),
   uploadBrandingLogo |-> Posts(<<"branding", "logo">>), uploadBrandingBanner |-> Posts(<<"branding", "banner">>),
   resetBranding |-> Posts(<<"branding", "reset">>)]

IntegrationCalls ==
  [integrationsStatus |-> Fetches(<<"integrations", "status">>),
   simulateChatTicket |-> Posts(<<"integrations", "chat", "simulate">>),
   pollImap |-> Posts(<<"integrations", "email", "imap", "poll">>), webhookEvents |-> Fetches(<<"webhooks", "events">>),
   webhookEndpoints |-> Fetches(<<"webhooks", "endpoints">>),
   createWebhookEndpoint |-> Posts(<<"webhooks", "endpoints">>),
   updateWebhookEndpoint |-> Patches(<<"webhooks", "endpoints", "x">>),
   deleteWebhookEndpoint |-> Deletes(<<"webhooks", "endpoints", "x">>),
   testWebhookEndpoint |-> Posts(<<"webhooks", "endpoints", "x", "test">>),
   webhookDeliveries |-> Fetches(<<"webhooks", "endpoints", "x", "deliveries">>)]

AuditCalls ==
  [audit |-> Fetches(<<"audit">>), auditFacets |-> Fetches(<<"audit", "facets">>),
   listAuditExportSchedules |-> Fetches(<<"audit", "export-schedules">>),
   createAuditExportSchedule |-> Posts(<<"audit", "export-schedules">>),
   updateAuditExportSchedule |-> Patches(<<"audit", "export-schedules", "x">>),
   deleteAuditExportSchedule |-> Deletes(<<"audit", "export-schedules", "x">>),
   runAuditExportSchedule |-> Posts(<<"audit", "export-schedules", "x", "run">>),
   listAuditExportRuns |-> Fetches(<<"audit", "export-runs">>)]

Api ==
  {AuthCalls, TicketListCalls, TicketRowCalls, TicketViewCalls, ImCalls, AutomationCalls, OrgCalls,
   RoutingCalls, ReportCalls, KpiCalls, DownloadCalls, NotificationCalls, KnowledgeCalls, AiCalls,
   ArticleCalls, CatalogCalls, AssetCalls, ApprovalCalls, UserCalls, AttachmentCalls, BrandingCalls,
   IntegrationCalls, AuditCalls}

(* The route that answers each function. *)
Reached ==
  [call \in UNION {DOMAIN calls : calls \in Api} |->
     UNION {RouteOf(calls[call].verb, calls[call].path) : calls \in {c \in Api : call \in DOMAIN c}}]

(* request() throws unless the answer is a success: without a session the
   guard refuses, and so it does for a user who lacks what the route needs. *)
Succeeds(signedIn, user, call, fields) == signedIn /\ Guard(user, Reached[call], fields)
=============================================================================

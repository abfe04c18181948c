\* Handlers, pollers and workers that overlap with each other and with restarts.
CONSTANTS
  Parts = {"tree", "digest", "mail", "hooks", "presence", "schedules", "incidents", "login", "passwords", "factors", "routing", "portal", "hours"}
  \* Tickets
  Tickets = {t1}
  Requests = {r1}
  NoTicket = NoTicket
  TypeOf <- BothIncidents
  RequesterOf <- FromAnn
  CloseAfter = 1
  PageSize = 1
  Targets = {"open"}
  Features = {}
  MaxInFlight = 1
  MaxVersion = 1
  MaxTime = 1
  \* TicketTree
  TreeTickets = {t1, t2, t3}
  NoParent = NoParent
  NewKinds = {"incident", "task"}
  Linkers = {"linker"}
  \* Digest
  Readers = {"ann"}
  Notes = {1, 2}
  MaxItems = 1
  DayHours = 3
  WeekDays = 2
  SendHour = 1
  LetterDay = 1
  Settings <- OffOrOn
  DigestFeatures = {"crash", "smtp_down", "slow", "settings"}
  \* InboundMail
  Mails = {"ask", "answer", "follow"}
  Outgoing = {"letter"}
  Headers <- AskAnswerFollow
  Tokened = {"answer"}
  Sender <- TwoSenders
  MailTickets = {1, 2}
  NoMail = NoMail
  Couriers = {"imap"}
  MaxFilings = 2
  MailFeatures = {"crash", "delete", "unrecorded"}
  \* Webhooks
  Endpoints = {"e1", "e2"}
  Events = {"ticket.created"}
  Deliveries = {t1, t2, t3}
  KeepRows = 1
  HookFeatures = {"overlap", "crash", "database"}
  \* Presence
  Viewers = {"ann", "bob"}
  PageModes = {"viewing"}
  Calls = {1}
  KeyLife = 1
  StaleAge = 1
  PresenceFeatures = {"list", "redis_down", "restart"}
  \* ExportSchedules
  Schedules = {"daily", "rejected"}
  Undeliverable = {"rejected"}
  DayPolls = 2
  WeekLength = 2
  Hands = {"hand"}
  MaxOdd = 2
  ScheduleFeatures = {"edit", "restart", "smtp_down", "db_down"}
  \* Incidents
  Bridges = {b1, b2}
  Responders = {"ann", "bob"}
  Nobody = Nobody
  BridgeRoles = {"commander"}
  Consoles = {"c1", "c2"}
  MaxNumber = 2
  BridgeTargets = {"resolved"}
  IncidentFeatures = {"crash", "bad_ticket"}
  \* Login
  MaxFailed = 2
  Challenges = {"c1"}
  ResetTokens = {"k1"}
  Sessions = {"s1"}
  NoChallenge = NoChallenge
  MaxSecrets = 2
  Handlers = {"h1", "h2"}
  LoginFeatures = {"mfa", "sso", "reset", "admin", "crash"}
  \* Routing
  Cases = {t1, t2}
  CaseKinds = {"vpn", "desk"}
  Agents = {"ann", "bob"}
  Leads = {"bob"}
  AgentOrder <- ById
  Crews = {"net", "help"}
  NoCrew = NoCrew
  NoAgent = NoAgent
  RoutingRules <- ByPriority
  AutomationRules <- BySortOrder
  Clerks = {"clerk"}
  RoutingFeatures = {"edit", "rules"}
  \* Portal
  FirstAccounts <- AnyRoleWithBundle
  Grants <- PromoteOrDemote
  MaxGrants = 1
  \* BusinessHours
  DayMinutes = 4
  DaysOfWeek = 3
  Calendars <- SeveralCalendars
  Starts <- SomeStarts
  Durations = {0, 1, 2, 3, 4, 5, 6}
  MaxDays = 6
SPECIFICATION ServicesSpec
INVARIANTS
  ServicesTypeOK
  NothingSkipped
  LogBounded
  OncePerDay
  CommanderHasRole NumbersUnique
  OfferedPagesOpen OfferedIsAllowed
  DueInOpenTime
  LocksInTime PasswordEndsSessions MfaIsUsable
PROPERTIES
  CyclesComeFromMerging
  RowEndsFiling
  LastRuleWins
CHECK_DEADLOCK FALSE

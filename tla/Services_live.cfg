\* Timers, what they start and the requests under way go on, mostly one after the other.
CONSTANTS
  Parts = {"tickets", "digest", "mail", "presence", "schedules", "portal"}
  \* Tickets
  Tickets = {t1, t2}
  Requests = {r1}
  NoTicket = NoTicket
  TypeOf <- BothIncidents
  RequesterOf <- FromAnn
  CloseAfter = 1
  PageSize = 2
  Targets = {"open", "in_progress", "resolved"}
  Features = {"update", "comment", "poll"}
  MaxInFlight = 2
  MaxVersion = 4
  MaxTime = 2
  \* TicketTree
  TreeTickets = {t1, t2, t3}
  NoParent = NoParent
  NewKinds = {"incident", "task"}
  Linkers = {"linker"}
  \* Digest
  Readers = {"ann"}
  Notes = {1, 2}
  MaxItems = 1
  DayHours = 3
  WeekDays = 2
  SendHour = 1
  LetterDay = 1
  Settings <- OffOrOn
  DigestFeatures = {"settings"}
  \* InboundMail
  Mails = {"ask", "answer", "follow"}
  Outgoing = {"letter"}
  Headers <- AskAnswerFollow
  Tokened = {"answer"}
  Sender <- TwoSenders
  MailTickets = {1, 2, 3}
  NoMail = NoMail
  Couriers = {"imap"}
  MaxFilings = 2
  MailFeatures = {"delete", "unrecorded"}
  \* Webhooks
  Endpoints = {"e1"}
  Events = {"ticket.created"}
  Deliveries = {1, 2, 3, 4}
  KeepRows = 2
  HookFeatures = {}
  \* Presence
  Viewers = {"ann", "bob"}
  PageModes = {"viewing"}
  Calls = {1, 2}
  KeyLife = 1
  StaleAge = 1
  PresenceFeatures = {"redis_down"}
  \* ExportSchedules
  Schedules = {"daily", "rejected"}
  Undeliverable = {"rejected"}
  DayPolls = 2
  WeekLength = 2
  Hands = {}
  MaxOdd = 2
  ScheduleFeatures = {"edit", "slow"}
  \* Incidents
  Bridges = {b1, b2}
  Responders = {"ann"}
  Nobody = Nobody
  BridgeRoles = {"commander"}
  Consoles = {"c1"}
  MaxNumber = 2
  BridgeTargets = {"declared", "active", "mitigated", "resolved", "closed"}
  IncidentFeatures = {"bad_ticket"}
  \* Login
  MaxFailed = 3
  Challenges = {"c1"}
  ResetTokens = {}
  Sessions = {"s1"}
  NoChallenge = NoChallenge
  MaxSecrets = 2
  Handlers = {"h1", "h2"}
  LoginFeatures = {"crash"}
  \* Routing
  Cases = {t1}
  CaseKinds = {"vpn", "desk"}
  Agents = {"ann", "bob"}
  Leads = {"bob"}
  AgentOrder <- ById
  Crews = {"net", "help"}
  NoCrew = NoCrew
  NoAgent = NoAgent
  RoutingRules <- ByPriority
  AutomationRules <- BySortOrder
  Clerks = {"clerk"}
  RoutingFeatures = {"rules"}
  \* Portal
  FirstAccounts <- Seeded
  Grants <- PromoteOrDemote
  MaxGrants = 1
  \* BusinessHours
  DayMinutes = 4
  DaysOfWeek = 3
  Calendars <- SeveralCalendars
  Starts <- SomeStarts
  Durations = {0, 1, 2, 3, 4, 5, 6}
  MaxDays = 6
SPECIFICATION ServicesFairSpec
PROPERTIES
  SilenceCloses
  UnreadIsMailed
  MailIsFiled
  PeersMeet
  ExportsRecur
  RedirectsEnd
CHECK_DEADLOCK FALSE

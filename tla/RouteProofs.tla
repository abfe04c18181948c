------------------------------ MODULE RouteProofs ------------------------------
(***************************************************************************)
(* Which route of the API answers each function of the client, and what it *)
(* asks of the user.  The routes are tried in the order of their           *)
(* declaration, so that "tickets/board" must not be taken by a parameter.  *)
(*                                                                         *)
(* Two things keep the argument short.  A path starts with a word that     *)
(* only one or two controllers have (Base), so that the others need not    *)
(* be looked at; and a function of the client stands in one of its tables, *)
(* so that its route is the one of its entry there.                        *)
(***************************************************************************)
EXTENDS ApiClient, TLAPS

(***************************************************************************)
(* The route that answers a call                                           *)
(***************************************************************************)
(* What it takes to serve a path of one, two, ... parts. *)
LEMMA ServesPath1 ==
  ASSUME NEW route, NEW verb, NEW a
  PROVE  Serves(route, verb, <<a>>) <=>
           /\ route.verb = verb /\ Len(route.path) = 1
           /\ route.path[1] \in {"*", a}
  BY DEF Serves

LEMMA ServesPath2 ==
  ASSUME NEW route, NEW verb, NEW a, NEW b
  PROVE  Serves(route, verb, <<a, b>>) <=>
           /\ route.verb = verb /\ Len(route.path) = 2
           /\ route.path[1] \in {"*", a}
           /\ route.path[2] \in {"*", b}
  BY DEF Serves

LEMMA ServesPath3 ==
  ASSUME NEW route, NEW verb, NEW a, NEW b, NEW c
  PROVE  Serves(route, verb, <<a, b, c>>) <=>
           /\ route.verb = verb /\ Len(route.path) = 3
           /\ route.path[1] \in {"*", a}
           /\ route.path[2] \in {"*", b}
           /\ route.path[3] \in {"*", c}
  BY DEF Serves

LEMMA ServesPath4 ==
  ASSUME NEW route, NEW verb, NEW a, NEW b, NEW c, NEW d
  PROVE  Serves(route, verb, <<a, b, c, d>>) <=>
           /\ route.verb = verb /\ Len(route.path) = 4
           /\ route.path[1] \in {"*", a}
           /\ route.path[2] \in {"*", b}
           /\ route.path[3] \in {"*", c}
           /\ route.path[4] \in {"*", d}
  BY DEF Serves

LEMMA ServesPath5 ==
  ASSUME NEW route, NEW verb, NEW a, NEW b, NEW c, NEW d, NEW e
  PROVE  Serves(route, verb, <<a, b, c, d, e>>) <=>
           /\ route.verb = verb /\ Len(route.path) = 5
           /\ route.path[1] \in {"*", a}
           /\ route.path[2] \in {"*", b}
           /\ route.path[3] \in {"*", c}
           /\ route.path[4] \in {"*", d}
           /\ route.path[5] \in {"*", e}
  BY DEF Serves

(* The first parts of the paths of each controller. *)
Base ==
  <<{"auth"}, {"users"}, {"org"}, {"tickets"}, {"tickets"}, {"audit"}, {"attachments", "tickets"},
    {"notifications"}, {"sla"}, {"assignment-rules"}, {"skills"}, {"knowledge"}, {"catalog"},
    {"assets"}, {"reports"}, {"approvals"}, {"integrations"}, {"branding"}, {"webhooks"}, {"ai"},
    {"automation"}, {"im"}>>

(* The routes of every controller have such paths. *)
LEMMA Bases ==
  /\ DOMAIN Controllers = 1..22
  /\ \A d \in 1..22 : /\ DOMAIN Controllers[d] \subseteq Nat
                     /\ \A j \in DOMAIN Controllers[d] :
                          Controllers[d][j].path[1] \in Base[d] /\ Controllers[d][j].path[1] # "*"
<1> DEFINE Based(d) == /\ DOMAIN Controllers[d] \subseteq Nat
                       /\ \A j \in DOMAIN Controllers[d] :
                            Controllers[d][j].path[1] \in Base[d] /\ Controllers[d][j].path[1] # "*"
<1>1. Based(1)
  <2>1. Controllers[1] = AuthRoutes /\ Base[1] = {"auth"}
    BY DEF Controllers, Base
  <2>2. DOMAIN AuthRoutes = 1..16
    BY DEF AuthRoutes
  <2>3. \A j \in DOMAIN AuthRoutes : AuthRoutes[j].path[1] \in {"auth"}
    BY SMTT(60) DEF AuthRoutes, GET, PATCH, POST
  <2>4. QED
    BY <2>1, <2>2, <2>3
<1>2. Based(2)
  <2>1. Controllers[2] = UserRoutes /\ Base[2] = {"users"}
    BY DEF Controllers, Base
  <2>2. DOMAIN UserRoutes = 1..8
    BY DEF UserRoutes
  <2>3. \A j \in DOMAIN UserRoutes : UserRoutes[j].path[1] \in {"users"}
    BY SMTT(60) DEF UserRoutes, DELETE, GET, PATCH, POST
  <2>4. QED
    BY <2>1, <2>2, <2>3
<1>3. Based(3)
  <2>1. Controllers[3] = OrgRoutes /\ Base[3] = {"org"}
    BY DEF Controllers, Base
  <2>2. DOMAIN OrgRoutes = 1..13
    BY DEF OrgRoutes
  <2>3. \A j \in DOMAIN OrgRoutes : OrgRoutes[j].path[1] \in {"org"}
    BY SMTT(60) DEF OrgRoutes, DELETE, GET, PATCH, POST
  <2>4. QED
    BY <2>1, <2>2, <2>3
<1>4. Based(4)
  <2>1. Controllers[4] = TicketListRoutes /\ Base[4] = {"tickets"}
    BY DEF Controllers, Base
  <2>2. DOMAIN TicketListRoutes = 1..10
    BY DEF TicketListRoutes
  <2>3. \A j \in DOMAIN TicketListRoutes : TicketListRoutes[j].path[1] \in {"tickets"}
    BY SMTT(60) DEF TicketListRoutes, DELETE, GET, PATCH, POST
  <2>4. QED
    BY <2>1, <2>2, <2>3
<1>5. Based(5)
  <2>1. Controllers[5] = TicketRowRoutes /\ Base[5] = {"tickets"}
    BY DEF Controllers, Base
  <2>2. DOMAIN TicketRowRoutes = 1..16
    BY DEF TicketRowRoutes
  <2>3. \A j \in DOMAIN TicketRowRoutes : TicketRowRoutes[j].path[1] \in {"tickets"}
    BY SMTT(60) DEF TicketRowRoutes, DELETE, GET, PATCH, POST
  <2>4. QED
    BY <2>1, <2>2, <2>3
<1>6. Based(6)
  <2>1. Controllers[6] = AuditRoutes /\ Base[6] = {"audit"}
    BY DEF Controllers, Base
  <2>2. DOMAIN AuditRoutes = 1..9
    BY DEF AuditRoutes
  <2>3. \A j \in DOMAIN AuditRoutes : AuditRoutes[j].path[1] \in {"audit"}
    BY SMTT(60) DEF AuditRoutes, DELETE, GET, PATCH, POST
  <2>4. QED
    BY <2>1, <2>2, <2>3
<1>7. Based(7)
  <2>1. Controllers[7] = AttachmentRoutes /\ Base[7] = {"attachments", "tickets"}
    BY DEF Controllers, Base
  <2>2. DOMAIN AttachmentRoutes = 1..4
    BY DEF AttachmentRoutes
  <2>3. \A j \in DOMAIN AttachmentRoutes : AttachmentRoutes[j].path[1] \in {"attachments", "tickets"}
    BY SMTT(60) DEF AttachmentRoutes, GET, POST
  <2>4. QED
    BY <2>1, <2>2, <2>3
<1>8. Based(8)
  <2>1. Controllers[8] = NotificationRoutes /\ Base[8] = {"notifications"}
    BY DEF Controllers, Base
  <2>2. DOMAIN NotificationRoutes = 1..10
    BY DEF NotificationRoutes
  <2>3. \A j \in DOMAIN NotificationRoutes : NotificationRoutes[j].path[1] \in {"notifications"}
    BY SMTT(60) DEF NotificationRoutes, GET, PATCH, POST
  <2>4. QED
    BY <2>1, <2>2, <2>3
<1>9. Based(9)
  <2>1. Controllers[9] = SlaRoutes /\ Base[9] = {"sla"}
    BY DEF Controllers, Base
  <2>2. DOMAIN SlaRoutes = 1..3
    BY DEF SlaRoutes
  <2>3. \A j \in DOMAIN SlaRoutes : SlaRoutes[j].path[1] \in {"sla"}
    BY SMTT(60) DEF SlaRoutes, GET, POST
  <2>4. QED
    BY <2>1, <2>2, <2>3
<1>10. Based(10)
  <2>1. Controllers[10] = AssignmentRoutes /\ Base[10] = {"assignment-rules"}
    BY DEF Controllers, Base
  <2>2. DOMAIN AssignmentRoutes = 1..2
    BY DEF AssignmentRoutes
  <2>3. \A j \in DOMAIN AssignmentRoutes : AssignmentRoutes[j].path[1] \in {"assignment-rules"}
    BY SMTT(60) DEF AssignmentRoutes, GET, POST
  <2>4. QED
    BY <2>1, <2>2, <2>3
<1>11. Based(11)
  <2>1. Controllers[11] = SkillRoutes /\ Base[11] = {"skills"}
    BY DEF Controllers, Base
  <2>2. DOMAIN SkillRoutes = 1..4
    BY DEF SkillRoutes
  <2>3. \A j \in DOMAIN SkillRoutes : SkillRoutes[j].path[1] \in {"skills"}
    BY SMTT(60) DEF SkillRoutes, GET, POST, PUT
  <2>4. QED
    BY <2>1, <2>2, <2>3
<1>12. Based(12)
  <2>1. Controllers[12] = KnowledgeRoutes /\ Base[12] = {"knowledge"}
    BY DEF Controllers, Base
  <2>2. DOMAIN KnowledgeRoutes = 1..12
    BY DEF KnowledgeRoutes
  <2>3. \A j \in DOMAIN KnowledgeRoutes : KnowledgeRoutes[j].path[1] \in {"knowledge"}
    BY SMTT(60) DEF KnowledgeRoutes, GET, PATCH, POST
  <2>4. QED
    BY <2>1, <2>2, <2>3
<1>13. Based(13)
  <2>1. Controllers[13] = CatalogRoutes /\ Base[13] = {"catalog"}
    BY DEF Controllers, Base
  <2>2. DOMAIN CatalogRoutes = 1..4
    BY DEF CatalogRoutes
  <2>3. \A j \in DOMAIN CatalogRoutes : CatalogRoutes[j].path[1] \in {"catalog"}
    BY SMTT(60) DEF CatalogRoutes, GET, PATCH, POST
  <2>4. QED
    BY <2>1, <2>2, <2>3
<1>14. Based(14)
  <2>1. Controllers[14] = AssetRoutes /\ Base[14] = {"assets"}
    BY DEF Controllers, Base
  <2>2. DOMAIN AssetRoutes = 1..16
    BY DEF AssetRoutes
  <2>3. \A j \in DOMAIN AssetRoutes : AssetRoutes[j].path[1] \in {"assets"}
    BY SMTT(60) DEF AssetRoutes, DELETE, GET, PATCH, POST
  <2>4. QED
    BY <2>1, <2>2, <2>3
<1>15. Based(15)
  <2>1. Controllers[15] = ReportRoutes /\ Base[15] = {"reports"}
    BY DEF Controllers, Base
  <2>2. DOMAIN ReportRoutes = 1..12
    BY DEF ReportRoutes
  <2>3. \A j \in DOMAIN ReportRoutes : ReportRoutes[j].path[1] \in {"reports"}
    BY SMTT(60) DEF ReportRoutes, DELETE, GET, PATCH, POST
  <2>4. QED
    BY <2>1, <2>2, <2>3
<1>16. Based(16)
  <2>1. Controllers[16] = ApprovalRoutes /\ Base[16] = {"approvals"}
    BY DEF Controllers, Base
  <2>2. DOMAIN ApprovalRoutes = 1..5
    BY DEF ApprovalRoutes
  <2>3. \A j \in DOMAIN ApprovalRoutes : ApprovalRoutes[j].path[1] \in {"approvals"}
    BY SMTT(60) DEF ApprovalRoutes, GET, PATCH, POST
  <2>4. QED
    BY <2>1, <2>2, <2>3
<1>17. Based(17)
  <2>1. Controllers[17] = IntegrationRoutes /\ Base[17] = {"integrations"}
    BY DEF Controllers, Base
  <2>2. DOMAIN IntegrationRoutes = 1..8
    BY DEF IntegrationRoutes
  <2>3. \A j \in DOMAIN IntegrationRoutes : IntegrationRoutes[j].path[1] \in {"integrations"}
    BY SMTT(60) DEF IntegrationRoutes, GET, POST
  <2>4. QED
    BY <2>1, <2>2, <2>3
<1>18. Based(18)
  <2>1. Controllers[18] = BrandingRoutes /\ Base[18] = {"branding"}
    BY DEF Controllers, Base
  <2>2. DOMAIN BrandingRoutes = 1..6
    BY DEF BrandingRoutes
  <2>3. \A j \in DOMAIN BrandingRoutes : BrandingRoutes[j].path[1] \in {"branding"}
    BY SMTT(60) DEF BrandingRoutes, GET, PATCH, POST
  <2>4. QED
    BY <2>1, <2>2, <2>3
<1>19. Based(19)
  <2>1. Controllers[19] = WebhookRoutes /\ Base[19] = {"webhooks"}
    BY DEF Controllers, Base
  <2>2. DOMAIN WebhookRoutes = 1..7
    BY DEF WebhookRoutes
  <2>3. \A j \in DOMAIN WebhookRoutes : WebhookRoutes[j].path[1] \in {"webhooks"}
    BY SMTT(60) DEF WebhookRoutes, DELETE, GET, PATCH, POST
  <2>4. QED
    BY <2>1, <2>2, <2>3
<1>20. Based(20)
  <2>1. Controllers[20] = AiRoutes /\ Base[20] = {"ai"}
    BY DEF Controllers, Base
  <2>2. DOMAIN AiRoutes = 1..6
    BY DEF AiRoutes
  <2>3. \A j \in DOMAIN AiRoutes : AiRoutes[j].path[1] \in {"ai"}
    BY SMTT(60) DEF AiRoutes, GET, POST
  <2>4. QED
    BY <2>1, <2>2, <2>3
<1>21. Based(21)
  <2>1. Controllers[21] = AutomationRoutes /\ Base[21] = {"automation"}
    BY DEF Controllers, Base
  <2>2. DOMAIN AutomationRoutes = 1..3
    BY DEF AutomationRoutes
  <2>3. \A j \in DOMAIN AutomationRoutes : AutomationRoutes[j].path[1] \in {"automation"}
    BY SMTT(60) DEF AutomationRoutes, GET, PATCH, POST
  <2>4. QED
    BY <2>1, <2>2, <2>3
<1>22. Based(22)
  <2>1. Controllers[22] = ImRoutes /\ Base[22] = {"im"}
    BY DEF Controllers, Base
  <2>2. DOMAIN ImRoutes = 1..8
    BY DEF ImRoutes
  <2>3. \A j \in DOMAIN ImRoutes : ImRoutes[j].path[1] \in {"im"}
    BY SMTT(60) DEF ImRoutes, GET, PATCH, POST
  <2>4. QED
    BY <2>1, <2>2, <2>3
<1> HIDE DEF Based
<1>23. \A d \in 1..22 : Based(d)
  BY <1>1, <1>2, <1>3, <1>4, <1>5, <1>6, <1>7, <1>8, <1>9, <1>10, <1>11, <1>12, <1>13, <1>14, <1>15,
     <1>16, <1>17, <1>18, <1>19, <1>20, <1>21, <1>22
<1>24. DOMAIN Controllers = 1..22
  BY DEF Controllers
<1>25. QED
  BY <1>23, <1>24 DEF Based

(* The place of the route that answers a request. *)
LEMMA FirstOfAll ==
  ASSUME NEW verb, NEW path, 1 \in DOMAIN path,
         NEW c \in DOMAIN Controllers, NEW i \in DOMAIN Controllers[c],
         Serves(Controllers[c][i], verb, path),
         \A j \in DOMAIN Controllers[c] : Serves(Controllers[c][j], verb, path) => i <= j,
         \A d \in 1..(c - 1) : path[1] \in Base[d] => Fits(d, verb, path) = {}
  PROVE  RouteOf(verb, path) = {Controllers[c][i]}
<1> DEFINE Rs(d) == {Controllers[d][k] : k \in First(Fits(d, verb, path))}
           Fitting == {d \in DOMAIN Controllers : Fits(d, verb, path) # {}}
<1>1. ASSUME NEW S, S \subseteq Nat, NEW k \in S, \A j \in S : k <= j
      PROVE  First(S) = {k}
  <2>1. \A j \in First(S) : j \in Nat /\ j <= k /\ k <= j
    BY <1>1 DEF First
  <2>2. k \in First(S) /\ k \in Nat
    BY <1>1 DEF First
  <2>3. \A j \in First(S) : j = k
    BY <2>1, <2>2
  <2>4. QED
    BY <2>2, <2>3
<1>2. \A d \in DOMAIN Controllers : Fits(d, verb, path) # {} => path[1] \in Base[d]
  <2> SUFFICES ASSUME NEW d \in DOMAIN Controllers, NEW j \in Fits(d, verb, path)
               PROVE  path[1] \in Base[d]
    OBVIOUS
  <2>1. j \in DOMAIN Controllers[d] /\ Controllers[d][j].path[1] \in {"*", path[1]}
    BY DEF Fits, Serves
  <2>2. QED
    BY <2>1, Bases
<1>3. \A d \in Fitting : d \in Nat /\ c <= d
  BY <1>2, Bases
<1>4. i \in Fits(c, verb, path) /\ Fits(c, verb, path) \subseteq Nat /\ c \in Fitting
  BY Bases DEF Fits
<1>5. \A j \in Fits(c, verb, path) : i <= j
  BY DEF Fits
<1>6. First(Fits(c, verb, path)) = {i}
  BY <1>1, <1>4, <1>5
<1>7. First(Fitting) = {c}
  <2> HIDE DEF Fitting
  <2>1. Fitting \subseteq Nat
    BY <1>3
  <2>2. QED
    BY <2>1, <1>1, <1>3, <1>4
<1>8. RouteOf(verb, path) = UNION {Rs(d) : d \in First(Fitting)}
  BY DEF RouteOf
<1>9. Rs(c) = {Controllers[c][i]}
  BY <1>6
<1> HIDE DEF Fitting, Rs
<1>10. QED
  BY <1>7, <1>8, <1>9

(* What the routes of AuthRoutes serve. *)
LEMMA AuthServes ==
  ASSUME NEW j \in DOMAIN AuthRoutes
  PROVE
    /\ Serves(AuthRoutes[j], "POST", <<"auth", "login">>) <=> j = 1
    /\ Serves(AuthRoutes[j], "POST", <<"auth", "mfa", "verify-login">>) <=> j = 2
    /\ Serves(AuthRoutes[j], "POST", <<"auth", "mfa", "setup">>) <=> j = 3
    /\ Serves(AuthRoutes[j], "POST", <<"auth", "mfa", "confirm">>) <=> j = 4
    /\ Serves(AuthRoutes[j], "POST", <<"auth", "mfa", "cancel-setup">>) <=> j = 5
    /\ Serves(AuthRoutes[j], "POST", <<"auth", "mfa", "disable">>) <=> j = 6
    /\ Serves(AuthRoutes[j], "GET", <<"auth", "sso", "providers">>) <=> j = 7
    /\ Serves(AuthRoutes[j], "POST", <<"auth", "logout">>) <=> j = 10
    /\ Serves(AuthRoutes[j], "GET", <<"auth", "me">>) <=> j = 11
    /\ Serves(AuthRoutes[j], "GET", <<"auth", "profile">>) <=> j = 12
    /\ Serves(AuthRoutes[j], "PATCH", <<"auth", "me">>) <=> j = 13
    /\ Serves(AuthRoutes[j], "POST", <<"auth", "change-password">>) <=> j = 14
<1>1. /\ Serves(AuthRoutes[j], "POST", <<"auth", "login">>) <=> j = 1
      /\ Serves(AuthRoutes[j], "POST", <<"auth", "logout">>) <=> j = 10
      /\ Serves(AuthRoutes[j], "GET", <<"auth", "me">>) <=> j = 11
  BY ServesPath2, SMTT(60)
    DEF AuthRoutes, GET, PATCH, POST
<1>2. /\ Serves(AuthRoutes[j], "GET", <<"auth", "profile">>) <=> j = 12
      /\ Serves(AuthRoutes[j], "PATCH", <<"auth", "me">>) <=> j = 13
      /\ Serves(AuthRoutes[j], "POST", <<"auth", "change-password">>) <=> j = 14
  BY ServesPath2, SMTT(60)
    DEF AuthRoutes, GET, PATCH, POST
<1>3. /\ Serves(AuthRoutes[j], "POST", <<"auth", "mfa", "verify-login">>) <=> j = 2
      /\ Serves(AuthRoutes[j], "POST", <<"auth", "mfa", "setup">>) <=> j = 3
      /\ Serves(AuthRoutes[j], "POST", <<"auth", "mfa", "confirm">>) <=> j = 4
  BY ServesPath3, SMTT(60)
    DEF AuthRoutes, GET, PATCH, POST
<1>4. /\ Serves(AuthRoutes[j], "POST", <<"auth", "mfa", "cancel-setup">>) <=> j = 5
      /\ Serves(AuthRoutes[j], "POST", <<"auth", "mfa", "disable">>) <=> j = 6
      /\ Serves(AuthRoutes[j], "GET", <<"auth", "sso", "providers">>) <=> j = 7
  BY ServesPath3, SMTT(60)
    DEF AuthRoutes, GET, PATCH, POST
<1>5. QED
  BY <1>1, <1>2, <1>3, <1>4

(* What the routes of UserRoutes serve. *)
LEMMA UserServes ==
  ASSUME NEW j \in DOMAIN UserRoutes
  PROVE
    /\ Serves(UserRoutes[j], "GET", <<"users">>) <=> j = 1
    /\ Serves(UserRoutes[j], "POST", <<"users">>) <=> j = 4
    /\ Serves(UserRoutes[j], "PATCH", <<"users", "x">>) <=> j = 5
    /\ Serves(UserRoutes[j], "POST", <<"users", "x", "reset-password">>) <=> j = 6
    /\ Serves(UserRoutes[j], "DELETE", <<"users", "x">>) <=> j = 7
    /\ Serves(UserRoutes[j], "GET", <<"users", "roles", "matrix">>) <=> j = 2
    /\ Serves(UserRoutes[j], "PATCH", <<"users", "x", "roles">>) <=> j = 8
  BY ServesPath1, ServesPath2, ServesPath3
    DEF UserRoutes, DELETE, GET, PATCH, POST

(* What the routes of OrgRoutes serve. *)
LEMMA OrgServes ==
  ASSUME NEW j \in DOMAIN OrgRoutes
  PROVE
    /\ Serves(OrgRoutes[j], "GET", <<"org", "teams">>) <=> j = 9
    /\ Serves(OrgRoutes[j], "GET", <<"org", "locations">>) <=> j = 1
    /\ Serves(OrgRoutes[j], "POST", <<"org", "locations">>) <=> j = 2
    /\ Serves(OrgRoutes[j], "PATCH", <<"org", "locations", "x">>) <=> j = 3
    /\ Serves(OrgRoutes[j], "DELETE", <<"org", "locations", "x">>) <=> j = 4
    /\ Serves(OrgRoutes[j], "GET", <<"org", "departments">>) <=> j = 5
    /\ Serves(OrgRoutes[j], "POST", <<"org", "departments">>) <=> j = 6
    /\ Serves(OrgRoutes[j], "PATCH", <<"org", "departments", "x">>) <=> j = 7
    /\ Serves(OrgRoutes[j], "DELETE", <<"org", "departments", "x">>) <=> j = 8
    /\ Serves(OrgRoutes[j], "POST", <<"org", "teams">>) <=> j = 10
    /\ Serves(OrgRoutes[j], "PATCH", <<"org", "teams", "x">>) <=> j = 11
    /\ Serves(OrgRoutes[j], "POST", <<"org", "teams", "x", "members">>) <=> j = 12
    /\ Serves(OrgRoutes[j], "DELETE", <<"org", "teams", "x", "members", "x">>) <=> j = 13
<1>1. /\ Serves(OrgRoutes[j], "GET", <<"org", "teams">>) <=> j = 9
      /\ Serves(OrgRoutes[j], "GET", <<"org", "locations">>) <=> j = 1
      /\ Serves(OrgRoutes[j], "POST", <<"org", "locations">>) <=> j = 2
  BY ServesPath2, SMTT(60)
    DEF OrgRoutes, DELETE, GET, PATCH, POST
<1>2. /\ Serves(OrgRoutes[j], "GET", <<"org", "departments">>) <=> j = 5
      /\ Serves(OrgRoutes[j], "POST", <<"org", "departments">>) <=> j = 6
      /\ Serves(OrgRoutes[j], "POST", <<"org", "teams">>) <=> j = 10
  BY ServesPath2, SMTT(60)
    DEF OrgRoutes, DELETE, GET, PATCH, POST
<1>3. /\ Serves(OrgRoutes[j], "PATCH", <<"org", "locations", "x">>) <=> j = 3
      /\ Serves(OrgRoutes[j], "DELETE", <<"org", "locations", "x">>) <=> j = 4
      /\ Serves(OrgRoutes[j], "PATCH", <<"org", "departments", "x">>) <=> j = 7
  BY ServesPath3, SMTT(60)
    DEF OrgRoutes, DELETE, GET, PATCH, POST
<1>4. /\ Serves(OrgRoutes[j], "DELETE", <<"org", "departments", "x">>) <=> j = 8
      /\ Serves(OrgRoutes[j], "PATCH", <<"org", "teams", "x">>) <=> j = 11
  BY ServesPath3, SMTT(60)
    DEF OrgRoutes, DELETE, GET, PATCH, POST
<1>5. Serves(OrgRoutes[j], "POST", <<"org", "teams", "x", "members">>) <=> j = 12
  BY ServesPath4, SMTT(60)
    DEF OrgRoutes, DELETE, GET, PATCH, POST
<1>6. Serves(OrgRoutes[j], "DELETE", <<"org", "teams", "x", "members", "x">>) <=> j = 13
  BY ServesPath5, SMTT(60)
    DEF OrgRoutes, DELETE, GET, PATCH, POST
<1>7. QED
  BY <1>1, <1>2, <1>3, <1>4, <1>5, <1>6

(* What the routes of TicketListRoutes serve. *)
LEMMA TicketListServes ==
  ASSUME NEW j \in DOMAIN TicketListRoutes
  PROVE
    /\ Serves(TicketListRoutes[j], "GET", <<"tickets">>) <=> j = 9
    /\ Serves(TicketListRoutes[j], "GET", <<"tickets", "board">>) <=> j = 6
    /\ Serves(TicketListRoutes[j], "GET", <<"tickets", "major-incidents">>) <=> j = 7
    /\ Serves(TicketListRoutes[j], "POST", <<"tickets">>) <=> j = 10
    /\ Serves(TicketListRoutes[j], "GET", <<"tickets", "meta">>) <=> j = 1
    /\ Serves(TicketListRoutes[j], "GET", <<"tickets", "views">>) <=> j = 2
    /\ Serves(TicketListRoutes[j], "POST", <<"tickets", "views">>) <=> j = 3
    /\ Serves(TicketListRoutes[j], "DELETE", <<"tickets", "views", "x">>) <=> j = 5
    /\ Serves(TicketListRoutes[j], "GET", <<"tickets", "export.csv">>) <=> j = 8
    /\ ~Serves(TicketListRoutes[j], "GET", <<"tickets", "x">>)
    /\ ~Serves(TicketListRoutes[j], "POST", <<"tickets", "x", "children">>)
    /\ ~Serves(TicketListRoutes[j], "DELETE", <<"tickets", "x", "children", "x">>)
    /\ ~Serves(TicketListRoutes[j], "POST", <<"tickets", "x", "merge">>)
    /\ ~Serves(TicketListRoutes[j], "PATCH", <<"tickets", "x">>)
    /\ ~Serves(TicketListRoutes[j], "POST", <<"tickets", "x", "promote-problem">>)
    /\ ~Serves(TicketListRoutes[j], "POST", <<"tickets", "x", "request-cab">>)
    /\ ~Serves(TicketListRoutes[j], "POST", <<"tickets", "x", "watch">>)
    /\ ~Serves(TicketListRoutes[j], "DELETE", <<"tickets", "x", "watch">>)
    /\ ~Serves(TicketListRoutes[j], "POST", <<"tickets", "x", "presence">>)
    /\ ~Serves(TicketListRoutes[j], "DELETE", <<"tickets", "x", "presence">>)
    /\ ~Serves(TicketListRoutes[j], "GET", <<"tickets", "x", "work-logs">>)
    /\ ~Serves(TicketListRoutes[j], "POST", <<"tickets", "x", "work-logs">>)
    /\ ~Serves(TicketListRoutes[j], "DELETE", <<"tickets", "x">>)
    /\ ~Serves(TicketListRoutes[j], "POST", <<"tickets", "x", "comments">>)
    /\ ~Serves(TicketListRoutes[j], "GET", <<"tickets", "x", "attachments">>)
    /\ ~Serves(TicketListRoutes[j], "POST", <<"tickets", "x", "attachments">>)
    /\ ~Serves(TicketListRoutes[j], "GET", <<"attachments", "x", "download">>)
    /\ ~Serves(TicketListRoutes[j], "GET", <<"attachments", "limits">>)
<1>1. /\ Serves(TicketListRoutes[j], "GET", <<"tickets">>) <=> j = 9
      /\ Serves(TicketListRoutes[j], "POST", <<"tickets">>) <=> j = 10
  BY ServesPath1, SMTT(60)
    DEF TicketListRoutes, DELETE, GET, PATCH, POST
<1>2. /\ Serves(TicketListRoutes[j], "GET", <<"tickets", "board">>) <=> j = 6
      /\ Serves(TicketListRoutes[j], "GET", <<"tickets", "major-incidents">>) <=> j = 7
      /\ Serves(TicketListRoutes[j], "GET", <<"tickets", "meta">>) <=> j = 1
  BY ServesPath2, SMTT(60)
    DEF TicketListRoutes, DELETE, GET, PATCH, POST
<1>3. /\ Serves(TicketListRoutes[j], "GET", <<"tickets", "views">>) <=> j = 2
      /\ Serves(TicketListRoutes[j], "POST", <<"tickets", "views">>) <=> j = 3
      /\ Serves(TicketListRoutes[j], "GET", <<"tickets", "export.csv">>) <=> j = 8
  BY ServesPath2, SMTT(60)
    DEF TicketListRoutes, DELETE, GET, PATCH, POST
<1>4. /\ ~Serves(TicketListRoutes[j], "GET", <<"tickets", "x">>)
      /\ ~Serves(TicketListRoutes[j], "PATCH", <<"tickets", "x">>)
      /\ ~Serves(TicketListRoutes[j], "DELETE", <<"tickets", "x">>)
  BY ServesPath2, SMTT(60)
    DEF TicketListRoutes, DELETE, GET, PATCH, POST
<1>5. ~Serves(TicketListRoutes[j], "GET", <<"attachments", "limits">>)
  BY ServesPath2, SMTT(60)
    DEF TicketListRoutes, DELETE, GET, PATCH, POST
<1>6. /\ Serves(TicketListRoutes[j], "DELETE", <<"tickets", "views", "x">>) <=> j = 5
      /\ ~Serves(TicketListRoutes[j], "POST", <<"tickets", "x", "children">>)
      /\ ~Serves(TicketListRoutes[j], "POST", <<"tickets", "x", "merge">>)
  BY ServesPath3, SMTT(60)
    DEF TicketListRoutes, DELETE, GET, PATCH, POST
<1>7. /\ ~Serves(TicketListRoutes[j], "POST", <<"tickets", "x", "promote-problem">>)
      /\ ~Serves(TicketListRoutes[j], "POST", <<"tickets", "x", "request-cab">>)
      /\ ~Serves(TicketListRoutes[j], "POST", <<"tickets", "x", "watch">>)
  BY ServesPath3, SMTT(60)
    DEF TicketListRoutes, DELETE, GET, PATCH, POST
<1>8. /\ ~Serves(TicketListRoutes[j], "DELETE", <<"tickets", "x", "watch">>)
      /\ ~Serves(TicketListRoutes[j], "POST", <<"tickets", "x", "presence">>)
      /\ ~Serves(TicketListRoutes[j], "DELETE", <<"tickets", "x", "presence">>)
  BY ServesPath3, SMTT(60)
    DEF TicketListRoutes, DELETE, GET, PATCH, POST
<1>9. /\ ~Serves(TicketListRoutes[j], "GET", <<"tickets", "x", "work-logs">>)
      /\ ~Serves(TicketListRoutes[j], "POST", <<"tickets", "x", "work-logs">>)
      /\ ~Serves(TicketListRoutes[j], "POST", <<"tickets", "x", "comments">>)
  BY ServesPath3, SMTT(60)
    DEF TicketListRoutes, DELETE, GET, PATCH, POST
<1>10. /\ ~Serves(TicketListRoutes[j], "GET", <<"tickets", "x", "attachments">>)
      /\ ~Serves(TicketListRoutes[j], "POST", <<"tickets", "x", "attachments">>)
      /\ ~Serves(TicketListRoutes[j], "GET", <<"attachments", "x", "download">>)
  BY ServesPath3, SMTT(60)
    DEF TicketListRoutes, DELETE, GET, PATCH, POST
<1>11. ~Serves(TicketListRoutes[j], "DELETE", <<"tickets", "x", "children", "x">>)
  BY ServesPath4, SMTT(60)
    DEF TicketListRoutes, DELETE, GET, PATCH, POST
<1>12. QED
  BY <1>1, <1>2, <1>3, <1>4, <1>5, <1>6, <1>7, <1>8, <1>9, <1>10, <1>11

(* What the routes of TicketRowRoutes serve. *)
LEMMA TicketRowServes ==
  ASSUME NEW j \in DOMAIN TicketRowRoutes
  PROVE
    /\ Serves(TicketRowRoutes[j], "GET", <<"tickets", "x">>) <=> j = 1
    /\ Serves(TicketRowRoutes[j], "POST", <<"tickets", "x", "children">>) <=> j = 15
    /\ Serves(TicketRowRoutes[j], "DELETE", <<"tickets", "x", "children", "x">>) <=> j = 16
    /\ Serves(TicketRowRoutes[j], "POST", <<"tickets", "x", "merge">>) <=> j = 14
    /\ Serves(TicketRowRoutes[j], "PATCH", <<"tickets", "x">>) <=> j = 2
    /\ Serves(TicketRowRoutes[j], "POST", <<"tickets", "x", "promote-problem">>) <=> j = 13
    /\ Serves(TicketRowRoutes[j], "POST", <<"tickets", "x", "request-cab">>) <=> j = 12
    /\ Serves(TicketRowRoutes[j], "POST", <<"tickets", "x", "watch">>) <=> j = 5
    /\ Serves(TicketRowRoutes[j], "DELETE", <<"tickets", "x", "watch">>) <=> j = 6
    /\ Serves(TicketRowRoutes[j], "POST", <<"tickets", "x", "presence">>) <=> j = 7
    /\ Serves(TicketRowRoutes[j], "DELETE", <<"tickets", "x", "presence">>) <=> j = 9
    /\ Serves(TicketRowRoutes[j], "GET", <<"tickets", "x", "work-logs">>) <=> j = 11
    /\ Serves(TicketRowRoutes[j], "POST", <<"tickets", "x", "work-logs">>) <=> j = 10
    /\ Serves(TicketRowRoutes[j], "DELETE", <<"tickets", "x">>) <=> j = 3
    /\ Serves(TicketRowRoutes[j], "POST", <<"tickets", "x", "comments">>) <=> j = 4
    /\ ~Serves(TicketRowRoutes[j], "GET", <<"tickets", "x", "attachments">>)
    /\ ~Serves(TicketRowRoutes[j], "POST", <<"tickets", "x", "attachments">>)
    /\ ~Serves(TicketRowRoutes[j], "GET", <<"attachments", "x", "download">>)
    /\ ~Serves(TicketRowRoutes[j], "GET", <<"attachments", "limits">>)
<1>1. /\ Serves(TicketRowRoutes[j], "GET", <<"tickets", "x">>) <=> j = 1
      /\ Serves(TicketRowRoutes[j], "PATCH", <<"tickets", "x">>) <=> j = 2
      /\ Serves(TicketRowRoutes[j], "DELETE", <<"tickets", "x">>) <=> j = 3
  BY ServesPath2, SMTT(60)
    DEF TicketRowRoutes, DELETE, GET, PATCH, POST
<1>2. ~Serves(TicketRowRoutes[j], "GET", <<"attachments", "limits">>)
  BY ServesPath2, SMTT(60)
    DEF TicketRowRoutes, DELETE, GET, PATCH, POST
<1>3. /\ Serves(TicketRowRoutes[j], "POST", <<"tickets", "x", "children">>) <=> j = 15
      /\ Serves(TicketRowRoutes[j], "POST", <<"tickets", "x", "merge">>) <=> j = 14
      /\ Serves(TicketRowRoutes[j], "POST", <<"tickets", "x", "promote-problem">>) <=> j = 13
  BY ServesPath3, SMTT(60)
    DEF TicketRowRoutes, DELETE, GET, PATCH, POST
<1>4. /\ Serves(TicketRowRoutes[j], "POST", <<"tickets", "x", "request-cab">>) <=> j = 12
      /\ Serves(TicketRowRoutes[j], "POST", <<"tickets", "x", "watch">>) <=> j = 5
      /\ Serves(TicketRowRoutes[j], "DELETE", <<"tickets", "x", "watch">>) <=> j = 6
  BY ServesPath3, SMTT(60)
    DEF TicketRowRoutes, DELETE, GET, PATCH, POST
<1>5. /\ Serves(TicketRowRoutes[j], "POST", <<"tickets", "x", "presence">>) <=> j = 7
      /\ Serves(TicketRowRoutes[j], "DELETE", <<"tickets", "x", "presence">>) <=> j = 9
      /\ Serves(TicketRowRoutes[j], "GET", <<"tickets", "x", "work-logs">>) <=> j = 11
  BY ServesPath3, SMTT(60)
    DEF TicketRowRoutes, DELETE, GET, PATCH, POST
<1>6. /\ Serves(TicketRowRoutes[j], "POST", <<"tickets", "x", "work-logs">>) <=> j = 10
      /\ Serves(TicketRowRoutes[j], "POST", <<"tickets", "x", "comments">>) <=> j = 4
      /\ ~Serves(TicketRowRoutes[j], "GET", <<"tickets", "x", "attachments">>)
  BY ServesPath3, SMTT(60)
    DEF TicketRowRoutes, DELETE, GET, PATCH, POST
<1>7. /\ ~Serves(TicketRowRoutes[j], "POST", <<"tickets", "x", "attachments">>)
      /\ ~Serves(TicketRowRoutes[j], "GET", <<"attachments", "x", "download">>)
  BY ServesPath3, SMTT(60)
    DEF TicketRowRoutes, DELETE, GET, PATCH, POST
<1>8. Serves(TicketRowRoutes[j], "DELETE", <<"tickets", "x", "children", "x">>) <=> j = 16
  BY ServesPath4, SMTT(60)
    DEF TicketRowRoutes, DELETE, GET, PATCH, POST
<1>9. QED
  BY <1>1, <1>2, <1>3, <1>4, <1>5, <1>6, <1>7, <1>8

(* What the routes of AuditRoutes serve. *)
LEMMA AuditServes ==
  ASSUME NEW j \in DOMAIN AuditRoutes
  PROVE
    /\ Serves(AuditRoutes[j], "GET", <<"audit", "export.csv">>) <=> j = 2
    /\ Serves(AuditRoutes[j], "GET", <<"audit">>) <=> j = 9
    /\ Serves(AuditRoutes[j], "GET", <<"audit", "facets">>) <=> j = 1
    /\ Serves(AuditRoutes[j], "GET", <<"audit", "export-schedules">>) <=> j = 3
    /\ Serves(AuditRoutes[j], "POST", <<"audit", "export-schedules">>) <=> j = 4
    /\ Serves(AuditRoutes[j], "PATCH", <<"audit", "export-schedules", "x">>) <=> j = 5
    /\ Serves(AuditRoutes[j], "DELETE", <<"audit", "export-schedules", "x">>) <=> j = 6
    /\ Serves(AuditRoutes[j], "POST", <<"audit", "export-schedules", "x", "run">>) <=> j = 7
    /\ Serves(AuditRoutes[j], "GET", <<"audit", "export-runs">>) <=> j = 8
<1>1. Serves(AuditRoutes[j], "GET", <<"audit">>) <=> j = 9
  BY ServesPath1, SMTT(60)
    DEF AuditRoutes, DELETE, GET, PATCH, POST
<1>2. /\ Serves(AuditRoutes[j], "GET", <<"audit", "export.csv">>) <=> j = 2
      /\ Serves(AuditRoutes[j], "GET", <<"audit", "facets">>) <=> j = 1
      /\ Serves(AuditRoutes[j], "GET", <<"audit", "export-schedules">>) <=> j = 3
  BY ServesPath2, SMTT(60)
    DEF AuditRoutes, DELETE, GET, PATCH, POST
<1>3. /\ Serves(AuditRoutes[j], "POST", <<"audit", "export-schedules">>) <=> j = 4
      /\ Serves(AuditRoutes[j], "GET", <<"audit", "export-runs">>) <=> j = 8
  BY ServesPath2, SMTT(60)
    DEF AuditRoutes, DELETE, GET, PATCH, POST
<1>4. /\ Serves(AuditRoutes[j], "PATCH", <<"audit", "export-schedules", "x">>) <=> j = 5
      /\ Serves(AuditRoutes[j], "DELETE", <<"audit", "export-schedules", "x">>) <=> j = 6
  BY ServesPath3, SMTT(60)
    DEF AuditRoutes, DELETE, GET, PATCH, POST
<1>5. Serves(AuditRoutes[j], "POST", <<"audit", "export-schedules", "x", "run">>) <=> j = 7
  BY ServesPath4, SMTT(60)
    DEF AuditRoutes, DELETE, GET, PATCH, POST
<1>6. QED
  BY <1>1, <1>2, <1>3, <1>4, <1>5

(* What the routes of AttachmentRoutes serve. *)
LEMMA AttachmentServes ==
  ASSUME NEW j \in DOMAIN AttachmentRoutes
  PROVE
    /\ Serves(AttachmentRoutes[j], "GET", <<"tickets", "x", "attachments">>) <=> j = 2
    /\ Serves(AttachmentRoutes[j], "POST", <<"tickets", "x", "attachments">>) <=> j = 1
    /\ Serves(AttachmentRoutes[j], "GET", <<"attachments", "x", "download">>) <=> j = 4
    /\ Serves(AttachmentRoutes[j], "GET", <<"attachments", "limits">>) <=> j = 3
  BY ServesPath2, ServesPath3
    DEF AttachmentRoutes, GET, POST

(* What the routes of NotificationRoutes serve. *)
LEMMA NotificationServes ==
  ASSUME NEW j \in DOMAIN NotificationRoutes
  PROVE
    /\ Serves(NotificationRoutes[j], "GET", <<"notifications">>) <=> j = 8
    /\ Serves(NotificationRoutes[j], "GET", <<"notifications", "unread-count">>) <=> j = 6
    /\ Serves(NotificationRoutes[j], "POST", <<"notifications", "x", "read">>) <=> j = 10
    /\ Serves(NotificationRoutes[j], "POST", <<"notifications", "read-all">>) <=> j = 9
    /\ Serves(NotificationRoutes[j], "GET", <<"notifications", "preferences">>) <=> j = 1
    /\ Serves(NotificationRoutes[j], "PATCH", <<"notifications", "preferences">>) <=> j = 7
    /\ Serves(NotificationRoutes[j], "GET", <<"notifications", "digest">>) <=> j = 2
    /\ Serves(NotificationRoutes[j], "PATCH", <<"notifications", "digest">>) <=> j = 3
<1>1. Serves(NotificationRoutes[j], "GET", <<"notifications">>) <=> j = 8
  BY ServesPath1, SMTT(60)
    DEF NotificationRoutes, GET, PATCH, POST
<1>2. /\ Serves(NotificationRoutes[j], "GET", <<"notifications", "unread-count">>) <=> j = 6
      /\ Serves(NotificationRoutes[j], "POST", <<"notifications", "read-all">>) <=> j = 9
      /\ Serves(NotificationRoutes[j], "GET", <<"notifications", "preferences">>) <=> j = 1
  BY ServesPath2, SMTT(60)
    DEF NotificationRoutes, GET, PATCH, POST
<1>3. /\ Serves(NotificationRoutes[j], "PATCH", <<"notifications", "preferences">>) <=> j = 7
      /\ Serves(NotificationRoutes[j], "GET", <<"notifications", "digest">>) <=> j = 2
      /\ Serves(NotificationRoutes[j], "PATCH", <<"notifications", "digest">>) <=> j = 3
  BY ServesPath2, SMTT(60)
    DEF NotificationRoutes, GET, PATCH, POST
<1>4. Serves(NotificationRoutes[j], "POST", <<"notifications", "x", "read">>) <=> j = 10
  BY ServesPath3, SMTT(60)
    DEF NotificationRoutes, GET, PATCH, POST
<1>5. QED
  BY <1>1, <1>2, <1>3, <1>4

(* What the routes of SlaRoutes serve. *)
LEMMA SlaServes ==
  ASSUME NEW j \in DOMAIN SlaRoutes
  PROVE
    /\ Serves(SlaRoutes[j], "GET", <<"sla", "policies">>) <=> j = 1
    /\ Serves(SlaRoutes[j], "POST", <<"sla", "policies">>) <=> j = 2
  BY ServesPath2
    DEF SlaRoutes, GET, POST

(* What the routes of AssignmentRoutes serve. *)
LEMMA AssignmentServes ==
  ASSUME NEW j \in DOMAIN AssignmentRoutes
  PROVE
    /\ Serves(AssignmentRoutes[j], "GET", <<"assignment-rules">>) <=> j = 1
    /\ Serves(AssignmentRoutes[j], "POST", <<"assignment-rules">>) <=> j = 2
  BY ServesPath1
    DEF AssignmentRoutes, GET, POST

(* What the routes of SkillRoutes serve. *)
LEMMA SkillServes ==
  ASSUME NEW j \in DOMAIN SkillRoutes
  PROVE
    /\ Serves(SkillRoutes[j], "GET", <<"skills">>) <=> j = 1
    /\ Serves(SkillRoutes[j], "POST", <<"skills">>) <=> j = 2
    /\ Serves(SkillRoutes[j], "GET", <<"skills", "users", "x">>) <=> j = 3
    /\ Serves(SkillRoutes[j], "PUT", <<"skills", "users", "x">>) <=> j = 4
  BY ServesPath1, ServesPath3
    DEF SkillRoutes, GET, POST, PUT

(* What the routes of KnowledgeRoutes serve. *)
LEMMA KnowledgeServes ==
  ASSUME NEW j \in DOMAIN KnowledgeRoutes
  PROVE
    /\ Serves(KnowledgeRoutes[j], "GET", <<"knowledge">>) <=> j = 1
    /\ Serves(KnowledgeRoutes[j], "GET", <<"knowledge", "x">>) <=> j = 8
    /\ Serves(KnowledgeRoutes[j], "POST", <<"knowledge", "x", "feedback">>) <=> j = 9
    /\ Serves(KnowledgeRoutes[j], "GET", <<"knowledge", "analytics", "deflection">>) <=> j = 2
    /\ Serves(KnowledgeRoutes[j], "POST", <<"knowledge">>) <=> j = 10
    /\ Serves(KnowledgeRoutes[j], "PATCH", <<"knowledge", "x">>) <=> j = 11
    /\ Serves(KnowledgeRoutes[j], "POST", <<"knowledge", "x", "publish">>) <=> j = 12
    /\ Serves(KnowledgeRoutes[j], "GET", <<"knowledge", "x", "attachments">>) <=> j = 6
    /\ Serves(KnowledgeRoutes[j], "POST", <<"knowledge", "media">>) <=> j = 3
    /\ Serves(KnowledgeRoutes[j], "POST", <<"knowledge", "x", "attachments">>) <=> j = 7
    /\ Serves(KnowledgeRoutes[j], "GET", <<"knowledge", "attachments", "x", "download">>) <=> j = 5
<1>1. /\ Serves(KnowledgeRoutes[j], "GET", <<"knowledge">>) <=> j = 1
      /\ Serves(KnowledgeRoutes[j], "POST", <<"knowledge">>) <=> j = 10
  BY ServesPath1, SMTT(60)
    DEF KnowledgeRoutes, GET, PATCH, POST
<1>2. /\ Serves(KnowledgeRoutes[j], "GET", <<"knowledge", "x">>) <=> j = 8
      /\ Serves(KnowledgeRoutes[j], "PATCH", <<"knowledge", "x">>) <=> j = 11
      /\ Serves(KnowledgeRoutes[j], "POST", <<"knowledge", "media">>) <=> j = 3
  BY ServesPath2, SMTT(60)
    DEF KnowledgeRoutes, GET, PATCH, POST
<1>3. /\ Serves(KnowledgeRoutes[j], "POST", <<"knowledge", "x", "feedback">>) <=> j = 9
      /\ Serves(KnowledgeRoutes[j], "GET", <<"knowledge", "analytics", "deflection">>) <=> j = 2
      /\ Serves(KnowledgeRoutes[j], "POST", <<"knowledge", "x", "publish">>) <=> j = 12
  BY ServesPath3, SMTT(60)
    DEF KnowledgeRoutes, GET, PATCH, POST
<1>4. /\ Serves(KnowledgeRoutes[j], "GET", <<"knowledge", "x", "attachments">>) <=> j = 6
      /\ Serves(KnowledgeRoutes[j], "POST", <<"knowledge", "x", "attachments">>) <=> j = 7
  BY ServesPath3, SMTT(60)
    DEF KnowledgeRoutes, GET, PATCH, POST
<1>5. Serves(KnowledgeRoutes[j], "GET", <<"knowledge", "attachments", "x", "download">>) <=> j = 5
  BY ServesPath4, SMTT(60)
    DEF KnowledgeRoutes, GET, PATCH, POST
<1>6. QED
  BY <1>1, <1>2, <1>3, <1>4, <1>5

(* What the routes of CatalogRoutes serve. *)
LEMMA CatalogServes ==
  ASSUME NEW j \in DOMAIN CatalogRoutes
  PROVE
    /\ Serves(CatalogRoutes[j], "GET", <<"catalog">>) <=> j = 1
    /\ Serves(CatalogRoutes[j], "POST", <<"catalog">>) <=> j = 2
    /\ Serves(CatalogRoutes[j], "PATCH", <<"catalog", "x">>) <=> j = 3
    /\ Serves(CatalogRoutes[j], "POST", <<"catalog", "x", "request">>) <=> j = 4
  BY ServesPath1, ServesPath2, ServesPath3
    DEF CatalogRoutes, GET, PATCH, POST

(* What the routes of AssetRoutes serve. *)
LEMMA AssetServes ==
  ASSUME NEW j \in DOMAIN AssetRoutes
  PROVE
    /\ Serves(AssetRoutes[j], "GET", <<"assets">>) <=> j = 7
    /\ Serves(AssetRoutes[j], "GET", <<"assets", "x">>) <=> j = 12
    /\ Serves(AssetRoutes[j], "GET", <<"assets", "types">>) <=> j \in {1, 12}
    /\ Serves(AssetRoutes[j], "GET", <<"assets", "statuses">>) <=> j \in {2, 12}
    /\ Serves(AssetRoutes[j], "GET", <<"assets", "assignees">>) <=> j \in {4, 12}
    /\ Serves(AssetRoutes[j], "POST", <<"assets">>) <=> j = 13
    /\ Serves(AssetRoutes[j], "PATCH", <<"assets", "x">>) <=> j = 14
    /\ Serves(AssetRoutes[j], "DELETE", <<"assets", "x">>) <=> j = 15
    /\ Serves(AssetRoutes[j], "GET", <<"assets", "export.csv">>) <=> j \in {5, 12}
    /\ Serves(AssetRoutes[j], "POST", <<"assets", "tickets", "x", "link">>) <=> j = 16
    /\ Serves(AssetRoutes[j], "GET", <<"assets", "relation-types">>) <=> j \in {3, 12}
    /\ Serves(AssetRoutes[j], "GET", <<"assets", "x", "relations">>) <=> j = 8
    /\ Serves(AssetRoutes[j], "POST", <<"assets", "x", "relations">>) <=> j = 9
    /\ Serves(AssetRoutes[j], "DELETE", <<"assets", "x", "relations", "x">>) <=> j = 10
    /\ Serves(AssetRoutes[j], "GET", <<"assets", "x", "impact">>) <=> j = 11
    /\ Serves(AssetRoutes[j], "POST", <<"assets", "discovery", "import">>) <=> j = 6
<1>1. /\ Serves(AssetRoutes[j], "GET", <<"assets">>) <=> j = 7
      /\ Serves(AssetRoutes[j], "POST", <<"assets">>) <=> j = 13
  BY ServesPath1, SMTT(60)
    DEF AssetRoutes, DELETE, GET, PATCH, POST
<1>2. /\ Serves(AssetRoutes[j], "GET", <<"assets", "x">>) <=> j = 12
      /\ Serves(AssetRoutes[j], "GET", <<"assets", "types">>) <=> j \in {1, 12}
      /\ Serves(AssetRoutes[j], "GET", <<"assets", "statuses">>) <=> j \in {2, 12}
  BY ServesPath2, SMTT(60)
    DEF AssetRoutes, DELETE, GET, PATCH, POST
<1>3. /\ Serves(AssetRoutes[j], "GET", <<"assets", "assignees">>) <=> j \in {4, 12}
      /\ Serves(AssetRoutes[j], "PATCH", <<"assets", "x">>) <=> j = 14
      /\ Serves(AssetRoutes[j], "DELETE", <<"assets", "x">>) <=> j = 15
  BY ServesPath2, SMTT(60)
    DEF AssetRoutes, DELETE, GET, PATCH, POST
<1>4. /\ Serves(AssetRoutes[j], "GET", <<"assets", "export.csv">>) <=> j \in {5, 12}
      /\ Serves(AssetRoutes[j], "GET", <<"assets", "relation-types">>) <=> j \in {3, 12}
  BY ServesPath2, SMTT(60)
    DEF AssetRoutes, DELETE, GET, PATCH, POST
<1>5. /\ Serves(AssetRoutes[j], "GET", <<"assets", "x", "relations">>) <=> j = 8
      /\ Serves(AssetRoutes[j], "POST", <<"assets", "x", "relations">>) <=> j = 9
      /\ Serves(AssetRoutes[j], "GET", <<"assets", "x", "impact">>) <=> j = 11
  BY ServesPath3, SMTT(60)
    DEF AssetRoutes, DELETE, GET, PATCH, POST
<1>6. Serves(AssetRoutes[j], "POST", <<"assets", "discovery", "import">>) <=> j = 6
  BY ServesPath3, SMTT(60)
    DEF AssetRoutes, DELETE, GET, PATCH, POST
<1>7. /\ Serves(AssetRoutes[j], "POST", <<"assets", "tickets", "x", "link">>) <=> j = 16
      /\ Serves(AssetRoutes[j], "DELETE", <<"assets", "x", "relations", "x">>) <=> j = 10
  BY ServesPath4, SMTT(60)
    DEF AssetRoutes, DELETE, GET, PATCH, POST
<1>8. QED
  BY <1>1, <1>2, <1>3, <1>4, <1>5, <1>6, <1>7

(* What the routes of ReportRoutes serve. *)
LEMMA ReportServes ==
  ASSUME NEW j \in DOMAIN ReportRoutes
  PROVE
    /\ Serves(ReportRoutes[j], "GET", <<"reports", "summary">>) <=> j = 2
    /\ Serves(ReportRoutes[j], "GET", <<"reports", "stages">>) <=> j = 4
    /\ Serves(ReportRoutes[j], "GET", <<"reports", "heatmap">>) <=> j = 5
    /\ Serves(ReportRoutes[j], "GET", <<"reports", "schedules">>) <=> j = 8
    /\ Serves(ReportRoutes[j], "POST", <<"reports", "schedules">>) <=> j = 9
    /\ Serves(ReportRoutes[j], "PATCH", <<"reports", "schedules", "x">>) <=> j = 10
    /\ Serves(ReportRoutes[j], "DELETE", <<"reports", "schedules", "x">>) <=> j = 11
    /\ Serves(ReportRoutes[j], "POST", <<"reports", "schedules", "x", "run">>) <=> j = 12
    /\ Serves(ReportRoutes[j], "GET", <<"reports", "ims-kpis">>) <=> j = 3
    /\ Serves(ReportRoutes[j], "GET", <<"reports", "export.csv">>) <=> j = 6
    /\ Serves(ReportRoutes[j], "GET", <<"reports", "export.pdf">>) <=> j = 7
    /\ Serves(ReportRoutes[j], "GET", <<"reports", "workspace">>) <=> j = 1
<1>1. /\ Serves(ReportRoutes[j], "GET", <<"reports", "summary">>) <=> j = 2
      /\ Serves(ReportRoutes[j], "GET", <<"reports", "stages">>) <=> j = 4
      /\ Serves(ReportRoutes[j], "GET", <<"reports", "heatmap">>) <=> j = 5
  BY ServesPath2, SMTT(60)
    DEF ReportRoutes, DELETE, GET, PATCH, POST
<1>2. /\ Serves(ReportRoutes[j], "GET", <<"reports", "schedules">>) <=> j = 8
      /\ Serves(ReportRoutes[j], "POST", <<"reports", "schedules">>) <=> j = 9
      /\ Serves(ReportRoutes[j], "GET", <<"reports", "ims-kpis">>) <=> j = 3
  BY ServesPath2, SMTT(60)
    DEF ReportRoutes, DELETE, GET, PATCH, POST
<1>3. /\ Serves(ReportRoutes[j], "GET", <<"reports", "export.csv">>) <=> j = 6
      /\ Serves(ReportRoutes[j], "GET", <<"reports", "export.pdf">>) <=> j = 7
      /\ Serves(ReportRoutes[j], "GET", <<"reports", "workspace">>) <=> j = 1
  BY ServesPath2, SMTT(60)
    DEF ReportRoutes, DELETE, GET, PATCH, POST
<1>4. /\ Serves(ReportRoutes[j], "PATCH", <<"reports", "schedules", "x">>) <=> j = 10
      /\ Serves(ReportRoutes[j], "DELETE", <<"reports", "schedules", "x">>) <=> j = 11
  BY ServesPath3, SMTT(60)
    DEF ReportRoutes, DELETE, GET, PATCH, POST
<1>5. Serves(ReportRoutes[j], "POST", <<"reports", "schedules", "x", "run">>) <=> j = 12
  BY ServesPath4, SMTT(60)
    DEF ReportRoutes, DELETE, GET, PATCH, POST
<1>6. QED
  BY <1>1, <1>2, <1>3, <1>4, <1>5

(* What the routes of ApprovalRoutes serve. *)
LEMMA ApprovalServes ==
  ASSUME NEW j \in DOMAIN ApprovalRoutes
  PROVE
    /\ Serves(ApprovalRoutes[j], "GET", <<"approvals">>) <=> j = 4
    /\ Serves(ApprovalRoutes[j], "POST", <<"approvals", "x", "decide">>) <=> j = 5
    /\ Serves(ApprovalRoutes[j], "GET", <<"approvals", "policies">>) <=> j = 1
    /\ Serves(ApprovalRoutes[j], "POST", <<"approvals", "policies">>) <=> j = 2
    /\ Serves(ApprovalRoutes[j], "PATCH", <<"approvals", "policies", "x">>) <=> j = 3
  BY ServesPath1, ServesPath2, ServesPath3
    DEF ApprovalRoutes, GET, PATCH, POST

(* What the routes of IntegrationRoutes serve. *)
LEMMA IntegrationServes ==
  ASSUME NEW j \in DOMAIN IntegrationRoutes
  PROVE
    /\ Serves(IntegrationRoutes[j], "GET", <<"integrations", "status">>) <=> j = 1
    /\ Serves(IntegrationRoutes[j], "POST", <<"integrations", "chat", "simulate">>) <=> j = 3
    /\ Serves(IntegrationRoutes[j], "POST", <<"integrations", "email", "imap", "poll">>) <=> j = 2
  BY ServesPath2, ServesPath3, ServesPath4
    DEF IntegrationRoutes, GET, POST

(* What the routes of BrandingRoutes serve. *)
LEMMA BrandingServes ==
  ASSUME NEW j \in DOMAIN BrandingRoutes
  PROVE
    /\ Serves(BrandingRoutes[j], "GET", <<"branding">>) <=> j = 1
    /\ Serves(BrandingRoutes[j], "PATCH", <<"branding", "theme">>) <=> j = 3
    /\ Serves(BrandingRoutes[j], "POST", <<"branding", "logo">>) <=> j = 4
    /\ Serves(BrandingRoutes[j], "POST", <<"branding", "banner">>) <=> j = 5
    /\ Serves(BrandingRoutes[j], "POST", <<"branding", "reset">>) <=> j = 6
  BY ServesPath1, ServesPath2
    DEF BrandingRoutes, GET, PATCH, POST

(* What the routes of WebhookRoutes serve. *)
LEMMA WebhookServes ==
  ASSUME NEW j \in DOMAIN WebhookRoutes
  PROVE
    /\ Serves(WebhookRoutes[j], "GET", <<"webhooks", "events">>) <=> j = 1
    /\ Serves(WebhookRoutes[j], "GET", <<"webhooks", "endpoints">>) <=> j = 2
    /\ Serves(WebhookRoutes[j], "POST", <<"webhooks", "endpoints">>) <=> j = 3
    /\ Serves(WebhookRoutes[j], "PATCH", <<"webhooks", "endpoints", "x">>) <=> j = 4
    /\ Serves(WebhookRoutes[j], "DELETE", <<"webhooks", "endpoints", "x">>) <=> j = 5
    /\ Serves(WebhookRoutes[j], "POST", <<"webhooks", "endpoints", "x", "test">>) <=> j = 6
    /\ Serves(WebhookRoutes[j], "GET", <<"webhooks", "endpoints", "x", "deliveries">>) <=> j = 7
  BY ServesPath2, ServesPath3, ServesPath4
    DEF WebhookRoutes, DELETE, GET, PATCH, POST

(* What the routes of AiRoutes serve. *)
LEMMA AiServes ==
  ASSUME NEW j \in DOMAIN AiRoutes
  PROVE
    /\ Serves(AiRoutes[j], "POST", <<"ai", "assist", "classify">>) <=> j = 2
    /\ Serves(AiRoutes[j], "POST", <<"ai", "assist", "summarize">>) <=> j = 3
    /\ Serves(AiRoutes[j], "POST", <<"ai", "assist", "duplicates">>) <=> j = 4
    /\ Serves(AiRoutes[j], "GET", <<"ai", "assist", "sla-risk", "x">>) <=> j = 6
    /\ Serves(AiRoutes[j], "POST", <<"ai", "assist", "knowledge">>) <=> j = 5
  BY ServesPath3, ServesPath4
    DEF AiRoutes, GET, POST

(* What the routes of AutomationRoutes serve. *)
LEMMA AutomationServes ==
  ASSUME NEW j \in DOMAIN AutomationRoutes
  PROVE
    /\ Serves(AutomationRoutes[j], "GET", <<"automation", "rules">>) <=> j = 1
    /\ Serves(AutomationRoutes[j], "POST", <<"automation", "rules">>) <=> j = 2
    /\ Serves(AutomationRoutes[j], "PATCH", <<"automation", "rules", "x">>) <=> j = 3
  BY ServesPath2, ServesPath3
    DEF AutomationRoutes, GET, PATCH, POST

(* What the routes of ImRoutes serve. *)
LEMMA ImServes ==
  ASSUME NEW j \in DOMAIN ImRoutes
  PROVE
    /\ Serves(ImRoutes[j], "GET", <<"im">>) <=> j = 1
    /\ Serves(ImRoutes[j], "GET", <<"im", "dashboard">>) <=> j \in {2, 5}
    /\ Serves(ImRoutes[j], "GET", <<"im", "x">>) <=> j = 5
    /\ Serves(ImRoutes[j], "POST", <<"im">>) <=> j = 3
    /\ Serves(ImRoutes[j], "POST", <<"im", "x", "updates">>) <=> j = 7
    /\ Serves(ImRoutes[j], "PATCH", <<"im", "x", "status">>) <=> j = 6
    /\ Serves(ImRoutes[j], "GET", <<"im", "x", "pir">>) <=> j = 4
    /\ Serves(ImRoutes[j], "POST", <<"im", "x", "roles">>) <=> j = 8
<1>1. /\ Serves(ImRoutes[j], "GET", <<"im">>) <=> j = 1
      /\ Serves(ImRoutes[j], "POST", <<"im">>) <=> j = 3
  BY ServesPath1
    DEF ImRoutes, GET, PATCH, POST
<1>2. /\ Serves(ImRoutes[j], "GET", <<"im", "dashboard">>) <=> j \in {2, 5}
      /\ Serves(ImRoutes[j], "GET", <<"im", "x">>) <=> j = 5
  BY ServesPath2
    DEF ImRoutes, GET, PATCH, POST
<1>3. /\ Serves(ImRoutes[j], "POST", <<"im", "x", "updates">>) <=> j = 7
      /\ Serves(ImRoutes[j], "PATCH", <<"im", "x", "status">>) <=> j = 6
      /\ Serves(ImRoutes[j], "GET", <<"im", "x", "pir">>) <=> j = 4
  BY ServesPath3
    DEF ImRoutes, GET, PATCH, POST
<1>4. Serves(ImRoutes[j], "POST", <<"im", "x", "roles">>) <=> j = 8
  BY ServesPath3
    DEF ImRoutes, GET, PATCH, POST
<1>5. QED
  BY <1>1, <1>2, <1>3, <1>4

LEMMA AuthAnswers ==
  ASSUME NEW verb, NEW path, 1 \in DOMAIN path, path[1] \in {"auth"},
         NEW i \in 1..16, Serves(AuthRoutes[i], verb, path),
         \A j \in DOMAIN AuthRoutes : Serves(AuthRoutes[j], verb, path) => i <= j
  PROVE  RouteOf(verb, path) = {AuthRoutes[i]}
<1>0. DOMAIN AuthRoutes = 1..16
  BY DEF AuthRoutes
<1>1. Controllers[1] = AuthRoutes /\ 1 \in DOMAIN Controllers
  BY DEF Controllers
<1>2. \A d \in 1..0 : path[1] \notin Base[d]
  BY DEF Base
<1>3. QED
  BY <1>0, <1>1, <1>2, FirstOfAll

LEMMA UserAnswers ==
  ASSUME NEW verb, NEW path, 1 \in DOMAIN path, path[1] \in {"users"},
         NEW i \in 1..8, Serves(UserRoutes[i], verb, path),
         \A j \in DOMAIN UserRoutes : Serves(UserRoutes[j], verb, path) => i <= j
  PROVE  RouteOf(verb, path) = {UserRoutes[i]}
<1>0. DOMAIN UserRoutes = 1..8
  BY DEF UserRoutes
<1>1. Controllers[2] = UserRoutes /\ 2 \in DOMAIN Controllers
  BY DEF Controllers
<1>2. \A d \in 1..1 : path[1] \notin Base[d]
  BY DEF Base
<1>3. QED
  BY <1>0, <1>1, <1>2, FirstOfAll

LEMMA OrgAnswers ==
  ASSUME NEW verb, NEW path, 1 \in DOMAIN path, path[1] \in {"org"},
         NEW i \in 1..13, Serves(OrgRoutes[i], verb, path),
         \A j \in DOMAIN OrgRoutes : Serves(OrgRoutes[j], verb, path) => i <= j
  PROVE  RouteOf(verb, path) = {OrgRoutes[i]}
<1>0. DOMAIN OrgRoutes = 1..13
  BY DEF OrgRoutes
<1>1. Controllers[3] = OrgRoutes /\ 3 \in DOMAIN Controllers
  BY DEF Controllers
<1>2. \A d \in 1..2 : path[1] \notin Base[d]
  BY DEF Base
<1>3. QED
  BY <1>0, <1>1, <1>2, FirstOfAll

LEMMA TicketListAnswers ==
  ASSUME NEW verb, NEW path, 1 \in DOMAIN path, path[1] \in {"tickets"},
         NEW i \in 1..10, Serves(TicketListRoutes[i], verb, path),
         \A j \in DOMAIN TicketListRoutes : Serves(TicketListRoutes[j], verb, path) => i <= j
  PROVE  RouteOf(verb, path) = {TicketListRoutes[i]}
<1>0. DOMAIN TicketListRoutes = 1..10
  BY DEF TicketListRoutes
<1>1. Controllers[4] = TicketListRoutes /\ 4 \in DOMAIN Controllers
  BY DEF Controllers
<1>2. \A d \in 1..3 : path[1] \notin Base[d]
  BY DEF Base
<1>3. QED
  BY <1>0, <1>1, <1>2, FirstOfAll

LEMMA TicketRowAnswers ==
  ASSUME NEW verb, NEW path, 1 \in DOMAIN path, path[1] \in {"tickets"},
         NEW i \in 1..16, Serves(TicketRowRoutes[i], verb, path),
         \A j \in DOMAIN TicketRowRoutes : Serves(TicketRowRoutes[j], verb, path) => i <= j,
         \A j \in DOMAIN TicketListRoutes : ~Serves(TicketListRoutes[j], verb, path)
  PROVE  RouteOf(verb, path) = {TicketRowRoutes[i]}
<1>0. DOMAIN TicketRowRoutes = 1..16
  BY DEF TicketRowRoutes
<1>1. Controllers[5] = TicketRowRoutes /\ 5 \in DOMAIN Controllers
  BY DEF Controllers
<1>2. \A d \in 1..4 : path[1] \in Base[d] => d \in {4}
  BY DEF Base
<1>3. Fits(4, verb, path) = {}
  <2>1. Controllers[4] = TicketListRoutes
    BY DEF Controllers
  <2>2. QED
    BY <2>1 DEF Fits
<1>4. QED
  BY <1>0, <1>1, <1>2, <1>3, FirstOfAll

LEMMA AuditAnswers ==
  ASSUME NEW verb, NEW path, 1 \in DOMAIN path, path[1] \in {"audit"},
         NEW i \in 1..9, Serves(AuditRoutes[i], verb, path),
         \A j \in DOMAIN AuditRoutes : Serves(AuditRoutes[j], verb, path) => i <= j
  PROVE  RouteOf(verb, path) = {AuditRoutes[i]}
<1>0. DOMAIN AuditRoutes = 1..9
  BY DEF AuditRoutes
<1>1. Controllers[6] = AuditRoutes /\ 6 \in DOMAIN Controllers
  BY DEF Controllers
<1>2. \A d \in 1..5 : path[1] \notin Base[d]
  BY DEF Base
<1>3. QED
  BY <1>0, <1>1, <1>2, FirstOfAll

LEMMA AttachmentAnswers ==
  ASSUME NEW verb, NEW path, 1 \in DOMAIN path, path[1] \in {"attachments", "tickets"},
         NEW i \in 1..4, Serves(AttachmentRoutes[i], verb, path),
         \A j \in DOMAIN AttachmentRoutes : Serves(AttachmentRoutes[j], verb, path) => i <= j,
         \A j \in DOMAIN TicketListRoutes : ~Serves(TicketListRoutes[j], verb, path),
         \A j \in DOMAIN TicketRowRoutes : ~Serves(TicketRowRoutes[j], verb, path)
  PROVE  RouteOf(verb, path) = {AttachmentRoutes[i]}
<1>0. DOMAIN AttachmentRoutes = 1..4
  BY DEF AttachmentRoutes
<1>1. Controllers[7] = AttachmentRoutes /\ 7 \in DOMAIN Controllers
  BY DEF Controllers
<1>2. \A d \in 1..6 : path[1] \in Base[d] => d \in {4, 5}
  BY DEF Base
<1>3. Fits(4, verb, path) = {}
  <2>1. Controllers[4] = TicketListRoutes
    BY DEF Controllers
  <2>2. QED
    BY <2>1 DEF Fits
<1>4. Fits(5, verb, path) = {}
  <2>1. Controllers[5] = TicketRowRoutes
    BY DEF Controllers
  <2>2. QED
    BY <2>1 DEF Fits
<1>5. QED
  BY <1>0, <1>1, <1>2, <1>3, <1>4, FirstOfAll

LEMMA NotificationAnswers ==
  ASSUME NEW verb, NEW path, 1 \in DOMAIN path, path[1] \in {"notifications"},
         NEW i \in 1..10, Serves(NotificationRoutes[i], verb, path),
         \A j \in DOMAIN NotificationRoutes : Serves(NotificationRoutes[j], verb, path) => i <= j
  PROVE  RouteOf(verb, path) = {NotificationRoutes[i]}
<1>0. DOMAIN NotificationRoutes = 1..10
  BY DEF NotificationRoutes
<1>1. Controllers[8] = NotificationRoutes /\ 8 \in DOMAIN Controllers
  BY DEF Controllers
<1>2. \A d \in 1..7 : path[1] \notin Base[d]
  BY DEF Base
<1>3. QED
  BY <1>0, <1>1, <1>2, FirstOfAll

LEMMA SlaAnswers ==
  ASSUME NEW verb, NEW path, 1 \in DOMAIN path, path[1] \in {"sla"},
         NEW i \in 1..3, Serves(SlaRoutes[i], verb, path),
         \A j \in DOMAIN SlaRoutes : Serves(SlaRoutes[j], verb, path) => i <= j
  PROVE  RouteOf(verb, path) = {SlaRoutes[i]}
<1>0. DOMAIN SlaRoutes = 1..3
  BY DEF SlaRoutes
<1>1. Controllers[9] = SlaRoutes /\ 9 \in DOMAIN Controllers
  BY DEF Controllers
<1>2. \A d \in 1..8 : path[1] \notin Base[d]
  BY DEF Base
<1>3. QED
  BY <1>0, <1>1, <1>2, FirstOfAll

LEMMA AssignmentAnswers ==
  ASSUME NEW verb, NEW path, 1 \in DOMAIN path, path[1] \in {"assignment-rules"},
         NEW i \in 1..2, Serves(AssignmentRoutes[i], verb, path),
         \A j \in DOMAIN AssignmentRoutes : Serves(AssignmentRoutes[j], verb, path) => i <= j
  PROVE  RouteOf(verb, path) = {AssignmentRoutes[i]}
<1>0. DOMAIN AssignmentRoutes = 1..2
  BY DEF AssignmentRoutes
<1>1. Controllers[10] = AssignmentRoutes /\ 10 \in DOMAIN Controllers
  BY DEF Controllers
<1>2. \A d \in 1..9 : path[1] \notin Base[d]
  BY DEF Base
<1>3. QED
  BY <1>0, <1>1, <1>2, FirstOfAll

LEMMA SkillAnswers ==
  ASSUME NEW verb, NEW path, 1 \in DOMAIN path, path[1] \in {"skills"},
         NEW i \in 1..4, Serves(SkillRoutes[i], verb, path),
         \A j \in DOMAIN SkillRoutes : Serves(SkillRoutes[j], verb, path) => i <= j
  PROVE  RouteOf(verb, path) = {SkillRoutes[i]}
<1>0. DOMAIN SkillRoutes = 1..4
  BY DEF SkillRoutes
<1>1. Controllers[11] = SkillRoutes /\ 11 \in DOMAIN Controllers
  BY DEF Controllers
<1>2. \A d \in 1..10 : path[1] \notin Base[d]
  BY DEF Base
<1>3. QED
  BY <1>0, <1>1, <1>2, FirstOfAll

LEMMA KnowledgeAnswers ==
  ASSUME NEW verb, NEW path, 1 \in DOMAIN path, path[1] \in {"knowledge"},
         NEW i \in 1..12, Serves(KnowledgeRoutes[i], verb, path),
         \A j \in DOMAIN KnowledgeRoutes : Serves(KnowledgeRoutes[j], verb, path) => i <= j
  PROVE  RouteOf(verb, path) = {KnowledgeRoutes[i]}
<1>0. DOMAIN KnowledgeRoutes = 1..12
  BY DEF KnowledgeRoutes
<1>1. Controllers[12] = KnowledgeRoutes /\ 12 \in DOMAIN Controllers
  BY DEF Controllers
<1>2. \A d \in 1..11 : path[1] \notin Base[d]
  BY DEF Base
<1>3. QED
  BY <1>0, <1>1, <1>2, FirstOfAll

LEMMA CatalogAnswers ==
  ASSUME NEW verb, NEW path, 1 \in DOMAIN path, path[1] \in {"catalog"},
         NEW i \in 1..4, Serves(CatalogRoutes[i], verb, path),
         \A j \in DOMAIN CatalogRoutes : Serves(CatalogRoutes[j], verb, path) => i <= j
  PROVE  RouteOf(verb, path) = {CatalogRoutes[i]}
<1>0. DOMAIN CatalogRoutes = 1..4
  BY DEF CatalogRoutes
<1>1. Controllers[13] = CatalogRoutes /\ 13 \in DOMAIN Controllers
  BY DEF Controllers
<1>2. \A d \in 1..12 : path[1] \notin Base[d]
  BY DEF Base
<1>3. QED
  BY <1>0, <1>1, <1>2, FirstOfAll

LEMMA AssetAnswers ==
  ASSUME NEW verb, NEW path, 1 \in DOMAIN path, path[1] \in {"assets"},
         NEW i \in 1..16, Serves(AssetRoutes[i], verb, path),
         \A j \in DOMAIN AssetRoutes : Serves(AssetRoutes[j], verb, path) => i <= j
  PROVE  RouteOf(verb, path) = {AssetRoutes[i]}
<1>0. DOMAIN AssetRoutes = 1..16
  BY DEF AssetRoutes
<1>1. Controllers[14] = AssetRoutes /\ 14 \in DOMAIN Controllers
  BY DEF Controllers
<1>2. \A d \in 1..13 : path[1] \notin Base[d]
  BY DEF Base
<1>3. QED
  BY <1>0, <1>1, <1>2, FirstOfAll

LEMMA ReportAnswers ==
  ASSUME NEW verb, NEW path, 1 \in DOMAIN path, path[1] \in {"reports"},
         NEW i \in 1..12, Serves(ReportRoutes[i], verb, path),
         \A j \in DOMAIN ReportRoutes : Serves(ReportRoutes[j], verb, path) => i <= j
  PROVE  RouteOf(verb, path) = {ReportRoutes[i]}
<1>0. DOMAIN ReportRoutes = 1..12
  BY DEF ReportRoutes
<1>1. Controllers[15] = ReportRoutes /\ 15 \in DOMAIN Controllers
  BY DEF Controllers
<1>2. \A d \in 1..14 : path[1] \notin Base[d]
  BY DEF Base
<1>3. QED
  BY <1>0, <1>1, <1>2, FirstOfAll

LEMMA ApprovalAnswers ==
  ASSUME NEW verb, NEW path, 1 \in DOMAIN path, path[1] \in {"approvals"},
         NEW i \in 1..5, Serves(ApprovalRoutes[i], verb, path),
         \A j \in DOMAIN ApprovalRoutes : Serves(ApprovalRoutes[j], verb, path) => i <= j
  PROVE  RouteOf(verb, path) = {ApprovalRoutes[i]}
<1>0. DOMAIN ApprovalRoutes = 1..5
  BY DEF ApprovalRoutes
<1>1. Controllers[16] = ApprovalRoutes /\ 16 \in DOMAIN Controllers
  BY DEF Controllers
<1>2. \A d \in 1..15 : path[1] \notin Base[d]
  BY DEF Base
<1>3. QED
  BY <1>0, <1>1, <1>2, FirstOfAll

LEMMA IntegrationAnswers ==
  ASSUME NEW verb, NEW path, 1 \in DOMAIN path, path[1] \in {"integrations"},
         NEW i \in 1..8, Serves(IntegrationRoutes[i], verb, path),
         \A j \in DOMAIN IntegrationRoutes : Serves(IntegrationRoutes[j], verb, path) => i <= j
  PROVE  RouteOf(verb, path) = {IntegrationRoutes[i]}
<1>0. DOMAIN IntegrationRoutes = 1..8
  BY DEF IntegrationRoutes
<1>1. Controllers[17] = IntegrationRoutes /\ 17 \in DOMAIN Controllers
  BY DEF Controllers
<1>2. \A d \in 1..16 : path[1] \notin Base[d]
  BY DEF Base
<1>3. QED
  BY <1>0, <1>1, <1>2, FirstOfAll

LEMMA BrandingAnswers ==
  ASSUME NEW verb, NEW path, 1 \in DOMAIN path, path[1] \in {"branding"},
         NEW i \in 1..6, Serves(BrandingRoutes[i], verb, path),
         \A j \in DOMAIN BrandingRoutes : Serves(BrandingRoutes[j], verb, path) => i <= j
  PROVE  RouteOf(verb, path) = {BrandingRoutes[i]}
<1>0. DOMAIN BrandingRoutes = 1..6
  BY DEF BrandingRoutes
<1>1. Controllers[18] = BrandingRoutes /\ 18 \in DOMAIN Controllers
  BY DEF Controllers
<1>2. \A d \in 1..17 : path[1] \notin Base[d]
  BY DEF Base
<1>3. QED
  BY <1>0, <1>1, <1>2, FirstOfAll

LEMMA WebhookAnswers ==
  ASSUME NEW verb, NEW path, 1 \in DOMAIN path, path[1] \in {"webhooks"},
         NEW i \in 1..7, Serves(WebhookRoutes[i], verb, path),
         \A j \in DOMAIN WebhookRoutes : Serves(WebhookRoutes[j], verb, path) => i <= j
  PROVE  RouteOf(verb, path) = {WebhookRoutes[i]}
<1>0. DOMAIN WebhookRoutes = 1..7
  BY DEF WebhookRoutes
<1>1. Controllers[19] = WebhookRoutes /\ 19 \in DOMAIN Controllers
  BY DEF Controllers
<1>2. \A d \in 1..18 : path[1] \notin Base[d]
  BY DEF Base
<1>3. QED
  BY <1>0, <1>1, <1>2, FirstOfAll

LEMMA AiAnswers ==
  ASSUME NEW verb, NEW path, 1 \in DOMAIN path, path[1] \in {"ai"},
         NEW i \in 1..6, Serves(AiRoutes[i], verb, path),
         \A j \in DOMAIN AiRoutes : Serves(AiRoutes[j], verb, path) => i <= j
  PROVE  RouteOf(verb, path) = {AiRoutes[i]}
<1>0. DOMAIN AiRoutes = 1..6
  BY DEF AiRoutes
<1>1. Controllers[20] = AiRoutes /\ 20 \in DOMAIN Controllers
  BY DEF Controllers
<1>2. \A d \in 1..19 : path[1] \notin Base[d]
  BY DEF Base
<1>3. QED
  BY <1>0, <1>1, <1>2, FirstOfAll

LEMMA AutomationAnswers ==
  ASSUME NEW verb, NEW path, 1 \in DOMAIN path, path[1] \in {"automation"},
         NEW i \in 1..3, Serves(AutomationRoutes[i], verb, path),
         \A j \in DOMAIN AutomationRoutes : Serves(AutomationRoutes[j], verb, path) => i <= j
  PROVE  RouteOf(verb, path) = {AutomationRoutes[i]}
<1>0. DOMAIN AutomationRoutes = 1..3
  BY DEF AutomationRoutes
<1>1. Controllers[21] = AutomationRoutes /\ 21 \in DOMAIN Controllers
  BY DEF Controllers
<1>2. \A d \in 1..20 : path[1] \notin Base[d]
  BY DEF Base
<1>3. QED
  BY <1>0, <1>1, <1>2, FirstOfAll

LEMMA ImAnswers ==
  ASSUME NEW verb, NEW path, 1 \in DOMAIN path, path[1] \in {"im"},
         NEW i \in 1..8, Serves(ImRoutes[i], verb, path),
         \A j \in DOMAIN ImRoutes : Serves(ImRoutes[j], verb, path) => i <= j
  PROVE  RouteOf(verb, path) = {ImRoutes[i]}
<1>0. DOMAIN ImRoutes = 1..8
  BY DEF ImRoutes
<1>1. Controllers[22] = ImRoutes /\ 22 \in DOMAIN Controllers
  BY DEF Controllers
<1>2. \A d \in 1..21 : path[1] \notin Base[d]
  BY DEF Base
<1>3. QED
  BY <1>0, <1>1, <1>2, FirstOfAll

(***************************************************************************)
(* What a call of the client asks for                                      *)
(***************************************************************************)
Asks(call, need) == Reached[call] # {} /\ \A route \in Reached[call] : route.need = need

(* The parts of the client, and the part that has a function. *)
ClientParts ==
    <<AuthCalls, TicketListCalls, TicketRowCalls, TicketViewCalls, ImCalls, AutomationCalls,
     OrgCalls, RoutingCalls, ReportCalls, KpiCalls, DownloadCalls, NotificationCalls,
     KnowledgeCalls, AiCalls, ArticleCalls, CatalogCalls, AssetCalls, ApprovalCalls, UserCalls,
     AttachmentCalls, BrandingCalls, IntegrationCalls, AuditCalls>>

PartOf ==
    [login |-> 1, verifyMfaLogin |-> 1, mfaSetup |-> 1, mfaConfirm |-> 1, mfaCancelSetup |-> 1,
     mfaDisable |-> 1, ssoProviders |-> 1, logout |-> 1, me |-> 1, getProfile |-> 1,
     updateProfile |-> 1, changePassword |-> 1, listTickets |-> 2, ticketBoard |-> 2,
     majorIncidentsOps |-> 2, getTicket |-> 2, createTicket |-> 2, linkChildTicket |-> 3,
     unlinkChildTicket |-> 3, mergeTickets |-> 3, updateTicket |-> 3, promoteToProblem |-> 3,
     requestCab |-> 3, watchTicket |-> 3, unwatchTicket |-> 3, heartbeatPresence |-> 3,
     leavePresence |-> 3, listWorkLogs |-> 3, addWorkLog |-> 3, deleteTicket |-> 3,
     addComment |-> 3, ticketMeta |-> 4, listSavedViews |-> 4, createSavedView |-> 4,
     deleteSavedView |-> 4, listImIncidents |-> 5, getImDashboard |-> 5, getImIncident |-> 5,
     createImIncident |-> 5, addImUpdate |-> 5, updateImStatus |-> 5, getImPir |-> 5,
     assignImRole |-> 5, listAutomationRules |-> 6, createAutomationRule |-> 6,
     updateAutomationRule |-> 6, listTeams |-> 7, listLocations |-> 7, createLocation |-> 7,
     updateLocation |-> 7, deactivateLocation |-> 7, listDepartments |-> 7, createDepartment |-> 7,
     updateDepartment |-> 7, deactivateDepartment |-> 7, createTeam |-> 7, updateTeam |-> 7,
     addTeamMember |-> 7, removeTeamMember |-> 7, assignmentRules |-> 8, createAssignmentRule |-> 8,
     listSkills |-> 8, createSkill |-> 8, getUserSkills |-> 8, setUserSkills |-> 8,
     slaPolicies |-> 8, createSlaPolicy |-> 8, reportSummary |-> 9, reportStages |-> 9,
     reportHeatmap |-> 9, listReportSchedules |-> 9, createReportSchedule |-> 9,
     updateReportSchedule |-> 9, deleteReportSchedule |-> 9, runReportSchedule |-> 9,
     reportImsKpis |-> 10, downloadReportCsv |-> 11, downloadReportPdf |-> 11,
     downloadTicketsCsv |-> 11, downloadAuditCsv |-> 11, reportWorkspace |-> 11,
     notifications |-> 12, notificationUnreadCount |-> 12, markNotificationRead |-> 12,
     markAllNotificationsRead |-> 12, notificationPreferences |-> 12,
     setNotificationPreference |-> 12, notificationDigestSettings |-> 12,
     setNotificationDigestSettings |-> 12, knowledge |-> 13, getKnowledge |-> 13,
     knowledgeFeedback |-> 13, knowledgeDeflectionAnalytics |-> 13, aiClassify |-> 14,
     aiSummarize |-> 14, aiDuplicates |-> 14, aiSlaRisk |-> 14, aiSuggestKnowledge |-> 14,
     createKnowledge |-> 15, updateKnowledge |-> 15, publishKnowledge |-> 15,
     listKnowledgeAttachments |-> 15, uploadKnowledgeMedia |-> 15, uploadKnowledgeAttachment |-> 15,
     downloadKnowledgeAttachment |-> 15, catalog |-> 16, createCatalogItem |-> 16,
     updateCatalogItem |-> 16, requestCatalogItem |-> 16, assets |-> 17, asset |-> 17,
     assetTypes |-> 17, assetStatuses |-> 17, assetAssignees |-> 17, createAsset |-> 17,
     updateAsset |-> 17, deleteAsset |-> 17, downloadAssetsCsv |-> 17, linkAssetToTicket |-> 17,
     assetRelationTypes |-> 17, assetRelations |-> 17, createAssetRelation |-> 17,
     deleteAssetRelation |-> 17, assetImpact |-> 17, discoveryImportAssets |-> 17, approvals |-> 18,
     decideApproval |-> 18, approvalPolicies |-> 18, createApprovalPolicy |-> 18,
     updateApprovalPolicy |-> 18, listUsers |-> 19, createUser |-> 19, updateUser |-> 19,
     resetUserPassword |-> 19, deleteUser |-> 19, rolesMatrix |-> 19, setUserAccess |-> 19,
     listAttachments |-> 20, uploadAttachment |-> 20, downloadAttachment |-> 20,
     attachmentLimits |-> 20, branding |-> 21, updateBrandingTheme |-> 21,
     uploadBrandingLogo |-> 21, uploadBrandingBanner |-> 21, resetBranding |-> 21,
     integrationsStatus |-> 22, simulateChatTicket |-> 22, pollImap |-> 22, webhookEvents |-> 22,
     webhookEndpoints |-> 22, createWebhookEndpoint |-> 22, updateWebhookEndpoint |-> 22,
     deleteWebhookEndpoint |-> 22, testWebhookEndpoint |-> 22, webhookDeliveries |-> 22,
     audit |-> 23, auditFacets |-> 23, listAuditExportSchedules |-> 23,
     createAuditExportSchedule |-> 23, updateAuditExportSchedule |-> 23,
     deleteAuditExportSchedule |-> 23, runAuditExportSchedule |-> 23, listAuditExportRuns |-> 23]

LEMMA PartOfParts ==
  ASSUME NEW i \in DOMAIN ClientParts, NEW call \in DOMAIN ClientParts[i]
  PROVE  PartOf[call] = i
<1>0. DOMAIN ClientParts = 1..23
  BY DEF ClientParts
<1>1. ASSUME i = 1 PROVE PartOf[call] = 1
  <2>1. call \in DOMAIN AuthCalls
    BY <1>1 DEF ClientParts
  <2>2. QED
    BY <2>1, SMTT(60) DEF PartOf, AuthCalls
<1>2. ASSUME i = 2 PROVE PartOf[call] = 2
  <2>1. call \in DOMAIN TicketListCalls
    BY <1>2 DEF ClientParts
  <2>2. QED
    BY <2>1, SMTT(60) DEF PartOf, TicketListCalls
<1>3. ASSUME i = 3 PROVE PartOf[call] = 3
  <2>1. call \in DOMAIN TicketRowCalls
    BY <1>3 DEF ClientParts
  <2>2. QED
    BY <2>1, SMTT(60) DEF PartOf, TicketRowCalls
<1>4. ASSUME i = 4 PROVE PartOf[call] = 4
  <2>1. call \in DOMAIN TicketViewCalls
    BY <1>4 DEF ClientParts
  <2>2. QED
    BY <2>1, SMTT(60) DEF PartOf, TicketViewCalls
<1>5. ASSUME i = 5 PROVE PartOf[call] = 5
  <2>1. call \in DOMAIN ImCalls
    BY <1>5 DEF ClientParts
  <2>2. QED
    BY <2>1, SMTT(60) DEF PartOf, ImCalls
<1>6. ASSUME i = 6 PROVE PartOf[call] = 6
  <2>1. call \in DOMAIN AutomationCalls
    BY <1>6 DEF ClientParts
  <2>2. QED
    BY <2>1, SMTT(60) DEF PartOf, AutomationCalls
<1>7. ASSUME i = 7 PROVE PartOf[call] = 7
  <2>1. call \in DOMAIN OrgCalls
    BY <1>7 DEF ClientParts
  <2>2. QED
    BY <2>1, SMTT(60) DEF PartOf, OrgCalls
<1>8. ASSUME i = 8 PROVE PartOf[call] = 8
  <2>1. call \in DOMAIN RoutingCalls
    BY <1>8 DEF ClientParts
  <2>2. QED
    BY <2>1, SMTT(60) DEF PartOf, RoutingCalls
<1>9. ASSUME i = 9 PROVE PartOf[call] = 9
  <2>1. call \in DOMAIN ReportCalls
    BY <1>9 DEF ClientParts
  <2>2. QED
    BY <2>1, SMTT(60) DEF PartOf, ReportCalls
<1>10. ASSUME i = 10 PROVE PartOf[call] = 10
  <2>1. call \in DOMAIN KpiCalls
    BY <1>10 DEF ClientParts
  <2>2. QED
    BY <2>1, SMTT(60) DEF PartOf, KpiCalls
<1>11. ASSUME i = 11 PROVE PartOf[call] = 11
  <2>1. call \in DOMAIN DownloadCalls
    BY <1>11 DEF ClientParts
  <2>2. QED
    BY <2>1, SMTT(60) DEF PartOf, DownloadCalls
<1>12. ASSUME i = 12 PROVE PartOf[call] = 12
  <2>1. call \in DOMAIN NotificationCalls
    BY <1>12 DEF ClientParts
  <2>2. QED
    BY <2>1, SMTT(60) DEF PartOf, NotificationCalls
<1>13. ASSUME i = 13 PROVE PartOf[call] = 13
  <2>1. call \in DOMAIN KnowledgeCalls
    BY <1>13 DEF ClientParts
  <2>2. QED
    BY <2>1, SMTT(60) DEF PartOf, KnowledgeCalls
<1>14. ASSUME i = 14 PROVE PartOf[call] = 14
  <2>1. call \in DOMAIN AiCalls
    BY <1>14 DEF ClientParts
  <2>2. QED
    BY <2>1, SMTT(60) DEF PartOf, AiCalls
<1>15. ASSUME i = 15 PROVE PartOf[call] = 15
  <2>1. call \in DOMAIN ArticleCalls
    BY <1>15 DEF ClientParts
  <2>2. QED
    BY <2>1, SMTT(60) DEF PartOf, ArticleCalls
<1>16. ASSUME i = 16 PROVE PartOf[call] = 16
  <2>1. call \in DOMAIN CatalogCalls
    BY <1>16 DEF ClientParts
  <2>2. QED
    BY <2>1, SMTT(60) DEF PartOf, CatalogCalls
<1>17. ASSUME i = 17 PROVE PartOf[call] = 17
  <2>1. call \in DOMAIN AssetCalls
    BY <1>17 DEF ClientParts
  <2>2. QED
    BY <2>1, SMTT(60) DEF PartOf, AssetCalls
<1>18. ASSUME i = 18 PROVE PartOf[call] = 18
  <2>1. call \in DOMAIN ApprovalCalls
    BY <1>18 DEF ClientParts
  <2>2. QED
    BY <2>1, SMTT(60) DEF PartOf, ApprovalCalls
<1>19. ASSUME i = 19 PROVE PartOf[call] = 19
  <2>1. call \in DOMAIN UserCalls
    BY <1>19 DEF ClientParts
  <2>2. QED
    BY <2>1, SMTT(60) DEF PartOf, UserCalls
<1>20. ASSUME i = 20 PROVE PartOf[call] = 20
  <2>1. call \in DOMAIN AttachmentCalls
    BY <1>20 DEF ClientParts
  <2>2. QED
    BY <2>1, SMTT(60) DEF PartOf, AttachmentCalls
<1>21. ASSUME i = 21 PROVE PartOf[call] = 21
  <2>1. call \in DOMAIN BrandingCalls
    BY <1>21 DEF ClientParts
  <2>2. QED
    BY <2>1, SMTT(60) DEF PartOf, BrandingCalls
<1>22. ASSUME i = 22 PROVE PartOf[call] = 22
  <2>1. call \in DOMAIN IntegrationCalls
    BY <1>22 DEF ClientParts
  <2>2. QED
    BY <2>1, SMTT(60) DEF PartOf, IntegrationCalls
<1>23. ASSUME i = 23 PROVE PartOf[call] = 23
  <2>1. call \in DOMAIN AuditCalls
    BY <1>23 DEF ClientParts
  <2>2. QED
    BY <2>1, SMTT(60) DEF PartOf, AuditCalls
<1>24. QED
    BY <1>0, <1>1, <1>2, <1>3, <1>4, <1>5, <1>6, <1>7, <1>8, <1>9, <1>10, <1>11, <1>12, <1>13,
     <1>14, <1>15, <1>16, <1>17, <1>18, <1>19, <1>20, <1>21, <1>22, <1>23

(* Every function is in one part of Api. *)
LEMMA OnePart ==
  ASSUME NEW calls \in Api, NEW call \in DOMAIN calls
  PROVE  Reached[call] = RouteOf(calls[call].verb, calls[call].path)
<1>1. Api = {ClientParts[i] : i \in DOMAIN ClientParts}
  BY DEF Api, ClientParts
<1> DEFINE Having == {c \in Api : call \in DOMAIN c}
<1>2. \A c \in Having : c = calls
  <2>1. PICK i \in DOMAIN ClientParts : calls = ClientParts[i]
    BY <1>1
  <2>2. TAKE c \in Having
  <2>3. PICK j \in DOMAIN ClientParts : c = ClientParts[j]
    BY <1>1
  <2>4. PartOf[call] = i /\ PartOf[call] = j
    BY <2>1, <2>3, PartOfParts
  <2>5. QED
    BY <2>1, <2>3, <2>4
<1>3. Having = {calls}
  BY <1>2
<1>4. call \in UNION {DOMAIN c : c \in Api}
  OBVIOUS
<1>5. Reached[call] = UNION {RouteOf(c[call].verb, c[call].path) : c \in Having}
  BY <1>4 DEF Reached
<1> HIDE DEF Having
<1>6. QED
  BY <1>3, <1>5

LEMMA OneRoute ==
  ASSUME NEW calls \in Api, NEW call \in DOMAIN calls, NEW verb, NEW path, NEW route, NEW need,
         calls[call] = [verb |-> verb, path |-> path],
         RouteOf(verb, path) = {route}, route.need = need
  PROVE  Asks(call, need)
<1>1. Reached[call] = RouteOf(verb, path)
  BY OnePart
<1>2. QED
  BY <1>1 DEF Asks

LEMMA FetchedRoute ==
  ASSUME NEW calls \in Api, NEW call \in DOMAIN calls, NEW path, NEW route, NEW need,
         calls[call] = Fetches(path), RouteOf("GET", path) = {route}, route.need = need
  PROVE  Asks(call, need)
  BY OneRoute DEF Fetches

LEMMA PostedRoute ==
  ASSUME NEW calls \in Api, NEW call \in DOMAIN calls, NEW path, NEW route, NEW need,
         calls[call] = Posts(path), RouteOf("POST", path) = {route}, route.need = need
  PROVE  Asks(call, need)
  BY OneRoute DEF Posts

LEMMA PatchedRoute ==
  ASSUME NEW calls \in Api, NEW call \in DOMAIN calls, NEW path, NEW route, NEW need,
         calls[call] = Patches(path), RouteOf("PATCH", path) = {route}, route.need = need
  PROVE  Asks(call, need)
  BY OneRoute DEF Patches

LEMMA PutRoute ==
  ASSUME NEW calls \in Api, NEW call \in DOMAIN calls, NEW path, NEW route, NEW need,
         calls[call] = Puts(path), RouteOf("PUT", path) = {route}, route.need = need
  PROVE  Asks(call, need)
  BY OneRoute DEF Puts

LEMMA DeletedRoute ==
  ASSUME NEW calls \in Api, NEW call \in DOMAIN calls, NEW path, NEW route, NEW need,
         calls[call] = Deletes(path), RouteOf("DELETE", path) = {route}, route.need = need
  PROVE  Asks(call, need)
  BY OneRoute DEF Deletes

LEMMA AuthCallsAsk ==
  /\ Asks("login", Free)
  /\ Asks("verifyMfaLogin", Free)
  /\ Asks("mfaSetup", Free)
  /\ Asks("mfaConfirm", Free)
  /\ Asks("mfaCancelSetup", Free)
  /\ Asks("mfaDisable", Free)
  /\ Asks("ssoProviders", Free)
  /\ Asks("logout", Free)
  /\ Asks("me", Free)
  /\ Asks("getProfile", Free)
  /\ Asks("updateProfile", Free)
  /\ Asks("changePassword", Free)
<1>0. /\ AuthCalls \in Api
      /\ DOMAIN AuthRoutes = 1..16
    BY DEF Api, AuthRoutes
<1>1. Asks("login", Free)
  <2>1. /\ Serves(AuthRoutes[1], "POST", <<"auth", "login">>)
        /\ \A j \in DOMAIN AuthRoutes : Serves(AuthRoutes[j], "POST", <<"auth", "login">>) => 1 <= j
    BY <1>0, AuthServes
  <2>2. RouteOf("POST", <<"auth", "login">>) = {AuthRoutes[1]}
    BY <2>1, AuthAnswers
  <2>3. AuthRoutes[1].need = Free
    BY DEF AuthRoutes, POST
  <2>4. "login" \in DOMAIN AuthCalls /\ AuthCalls["login"] = Posts(<<"auth", "login">>)
    BY DEF AuthCalls
  <2>5. QED
    BY <1>0, <2>2, <2>3, <2>4, PostedRoute
<1>2. Asks("verifyMfaLogin", Free)
  <2>1. /\ Serves(AuthRoutes[2], "POST", <<"auth", "mfa", "verify-login">>)
        /\ \A j \in DOMAIN AuthRoutes : Serves(AuthRoutes[j], "POST", <<"auth", "mfa", "verify-login">>) => 2 <= j
    BY <1>0, AuthServes
  <2>2. RouteOf("POST", <<"auth", "mfa", "verify-login">>) = {AuthRoutes[2]}
    BY <2>1, AuthAnswers
  <2>3. AuthRoutes[2].need = Free
    BY DEF AuthRoutes, POST
  <2>4. "verifyMfaLogin" \in DOMAIN AuthCalls /\ AuthCalls["verifyMfaLogin"] = Posts(<<"auth", "mfa", "verify-login">>)
    BY DEF AuthCalls
  <2>5. QED
    BY <1>0, <2>2, <2>3, <2>4, PostedRoute
<1>3. Asks("mfaSetup", Free)
  <2>1. /\ Serves(AuthRoutes[3], "POST", <<"auth", "mfa", "setup">>)
        /\ \A j \in DOMAIN AuthRoutes : Serves(AuthRoutes[j], "POST", <<"auth", "mfa", "setup">>) => 3 <= j
    BY <1>0, AuthServes
  <2>2. RouteOf("POST", <<"auth", "mfa", "setup">>) = {AuthRoutes[3]}
    BY <2>1, AuthAnswers
  <2>3. AuthRoutes[3].need = Free
    BY DEF AuthRoutes, POST
  <2>4. "mfaSetup" \in DOMAIN AuthCalls /\ AuthCalls["mfaSetup"] = Posts(<<"auth", "mfa", "setup">>)
    BY DEF AuthCalls
  <2>5. QED
    BY <1>0, <2>2, <2>3, <2>4, PostedRoute
<1>4. Asks("mfaConfirm", Free)
  <2>1. /\ Serves(AuthRoutes[4], "POST", <<"auth", "mfa", "confirm">>)
        /\ \A j \in DOMAIN AuthRoutes : Serves(AuthRoutes[j], "POST", <<"auth", "mfa", "confirm">>) => 4 <= j
    BY <1>0, AuthServes
  <2>2. RouteOf("POST", <<"auth", "mfa", "confirm">>) = {AuthRoutes[4]}
    BY <2>1, AuthAnswers
  <2>3. AuthRoutes[4].need = Free
    BY DEF AuthRoutes, POST
  <2>4. "mfaConfirm" \in DOMAIN AuthCalls /\ AuthCalls["mfaConfirm"] = Posts(<<"auth", "mfa", "confirm">>)
    BY DEF AuthCalls
  <2>5. QED
    BY <1>0, <2>2, <2>3, <2>4, PostedRoute
<1>5. Asks("mfaCancelSetup", Free)
  <2>1. /\ Serves(AuthRoutes[5], "POST", <<"auth", "mfa", "cancel-setup">>)
        /\ \A j \in DOMAIN AuthRoutes : Serves(AuthRoutes[j], "POST", <<"auth", "mfa", "cancel-setup">>) => 5 <= j
    BY <1>0, AuthServes
  <2>2. RouteOf("POST", <<"auth", "mfa", "cancel-setup">>) = {AuthRoutes[5]}
    BY <2>1, AuthAnswers
  <2>3. AuthRoutes[5].need = Free
    BY DEF AuthRoutes, POST
  <2>4. "mfaCancelSetup" \in DOMAIN AuthCalls /\ AuthCalls["mfaCancelSetup"] = Posts(<<"auth", "mfa", "cancel-setup">>)
    BY DEF AuthCalls
  <2>5. QED
    BY <1>0, <2>2, <2>3, <2>4, PostedRoute
<1>6. Asks("mfaDisable", Free)
  <2>1. /\ Serves(AuthRoutes[6], "POST", <<"auth", "mfa", "disable">>)
        /\ \A j \in DOMAIN AuthRoutes : Serves(AuthRoutes[j], "POST", <<"auth", "mfa", "disable">>) => 6 <= j
    BY <1>0, AuthServes
  <2>2. RouteOf("POST", <<"auth", "mfa", "disable">>) = {AuthRoutes[6]}
    BY <2>1, AuthAnswers
  <2>3. AuthRoutes[6].need = Free
    BY DEF AuthRoutes, POST
  <2>4. "mfaDisable" \in DOMAIN AuthCalls /\ AuthCalls["mfaDisable"] = Posts(<<"auth", "mfa", "disable">>)
    BY DEF AuthCalls
  <2>5. QED
    BY <1>0, <2>2, <2>3, <2>4, PostedRoute
<1>7. Asks("ssoProviders", Free)
  <2>1. /\ Serves(AuthRoutes[7], "GET", <<"auth", "sso", "providers">>)
        /\ \A j \in DOMAIN AuthRoutes : Serves(AuthRoutes[j], "GET", <<"auth", "sso", "providers">>) => 7 <= j
    BY <1>0, AuthServes
  <2>2. RouteOf("GET", <<"auth", "sso", "providers">>) = {AuthRoutes[7]}
    BY <2>1, AuthAnswers
  <2>3. AuthRoutes[7].need = Free
    BY DEF AuthRoutes, GET
  <2>4. "ssoProviders" \in DOMAIN AuthCalls /\ AuthCalls["ssoProviders"] = Fetches(<<"auth", "sso", "providers">>)
    BY DEF AuthCalls
  <2>5. QED
    BY <1>0, <2>2, <2>3, <2>4, FetchedRoute
<1>8. Asks("logout", Free)
  <2>1. /\ Serves(AuthRoutes[10], "POST", <<"auth", "logout">>)
        /\ \A j \in DOMAIN AuthRoutes : Serves(AuthRoutes[j], "POST", <<"auth", "logout">>) => 10 <= j
    BY <1>0, AuthServes
  <2>2. RouteOf("POST", <<"auth", "logout">>) = {AuthRoutes[10]}
    BY <2>1, AuthAnswers
  <2>3. AuthRoutes[10].need = Free
    BY DEF AuthRoutes, POST
  <2>4. "logout" \in DOMAIN AuthCalls /\ AuthCalls["logout"] = Posts(<<"auth", "logout">>)
    BY DEF AuthCalls
  <2>5. QED
    BY <1>0, <2>2, <2>3, <2>4, PostedRoute
<1>9. Asks("me", Free)
  <2>1. /\ Serves(AuthRoutes[11], "GET", <<"auth", "me">>)
        /\ \A j \in DOMAIN AuthRoutes : Serves(AuthRoutes[j], "GET", <<"auth", "me">>) => 11 <= j
    BY <1>0, AuthServes
  <2>2. RouteOf("GET", <<"auth", "me">>) = {AuthRoutes[11]}
    BY <2>1, AuthAnswers
  <2>3. AuthRoutes[11].need = Free
    BY DEF AuthRoutes, GET
  <2>4. "me" \in DOMAIN AuthCalls /\ AuthCalls["me"] = Fetches(<<"auth", "me">>)
    BY DEF AuthCalls
  <2>5. QED
    BY <1>0, <2>2, <2>3, <2>4, FetchedRoute
<1>10. Asks("getProfile", Free)
  <2>1. /\ Serves(AuthRoutes[12], "GET", <<"auth", "profile">>)
        /\ \A j \in DOMAIN AuthRoutes : Serves(AuthRoutes[j], "GET", <<"auth", "profile">>) => 12 <= j
    BY <1>0, AuthServes
  <2>2. RouteOf("GET", <<"auth", "profile">>) = {AuthRoutes[12]}
    BY <2>1, AuthAnswers
  <2>3. AuthRoutes[12].need = Free
    BY DEF AuthRoutes, GET
  <2>4. "getProfile" \in DOMAIN AuthCalls /\ AuthCalls["getProfile"] = Fetches(<<"auth", "profile">>)
    BY DEF AuthCalls
  <2>5. QED
    BY <1>0, <2>2, <2>3, <2>4, FetchedRoute
<1>11. Asks("updateProfile", Free)
  <2>1. /\ Serves(AuthRoutes[13], "PATCH", <<"auth", "me">>)
        /\ \A j \in DOMAIN AuthRoutes : Serves(AuthRoutes[j], "PATCH", <<"auth", "me">>) => 13 <= j
    BY <1>0, AuthServes
  <2>2. RouteOf("PATCH", <<"auth", "me">>) = {AuthRoutes[13]}
    BY <2>1, AuthAnswers
  <2>3. AuthRoutes[13].need = Free
    BY DEF AuthRoutes, PATCH
  <2>4. "updateProfile" \in DOMAIN AuthCalls /\ AuthCalls["updateProfile"] = Patches(<<"auth", "me">>)
    BY DEF AuthCalls
  <2>5. QED
    BY <1>0, <2>2, <2>3, <2>4, PatchedRoute
<1>12. Asks("changePassword", Free)
  <2>1. /\ Serves(AuthRoutes[14], "POST", <<"auth", "change-password">>)
        /\ \A j \in DOMAIN AuthRoutes : Serves(AuthRoutes[j], "POST", <<"auth", "change-password">>) => 14 <= j
    BY <1>0, AuthServes
  <2>2. RouteOf("POST", <<"auth", "change-password">>) = {AuthRoutes[14]}
    BY <2>1, AuthAnswers
  <2>3. AuthRoutes[14].need = Free
    BY DEF AuthRoutes, POST
  <2>4. "changePassword" \in DOMAIN AuthCalls /\ AuthCalls["changePassword"] = Posts(<<"auth", "change-password">>)
    BY DEF AuthCalls
  <2>5. QED
    BY <1>0, <2>2, <2>3, <2>4, PostedRoute
<1>13. QED
  BY <1>1, <1>2, <1>3, <1>4, <1>5, <1>6, <1>7, <1>8, <1>9, <1>10, <1>11, <1>12

LEMMA TicketListCallsAsk ==
  /\ Asks("listTickets", Free)
  /\ Asks("ticketBoard", OneOf(StaffTickets))
  /\ Asks("majorIncidentsOps", OneOf(StaffTickets))
  /\ Asks("getTicket", {Visible})
  /\ Asks("createTicket", OneOf(Writes))
<1>0. /\ TicketListCalls \in Api
      /\ DOMAIN TicketListRoutes = 1..10
      /\ DOMAIN TicketRowRoutes = 1..16
    BY DEF Api, TicketListRoutes, TicketRowRoutes
<1>1. Asks("listTickets", Free)
  <2>1. /\ Serves(TicketListRoutes[9], "GET", <<"tickets">>)
        /\ \A j \in DOMAIN TicketListRoutes : Serves(TicketListRoutes[j], "GET", <<"tickets">>) => 9 <= j
    BY <1>0, TicketListServes
  <2>2. RouteOf("GET", <<"tickets">>) = {TicketListRoutes[9]}
    BY <2>1, TicketListAnswers
  <2>3. TicketListRoutes[9].need = Free
    BY DEF TicketListRoutes, GET
  <2>4. "listTickets" \in DOMAIN TicketListCalls /\ TicketListCalls["listTickets"] = Fetches(<<"tickets">>)
    BY DEF TicketListCalls
  <2>5. QED
    BY <1>0, <2>2, <2>3, <2>4, FetchedRoute
<1>2. Asks("ticketBoard", OneOf(StaffTickets))
  <2>1. /\ Serves(TicketListRoutes[6], "GET", <<"tickets", "board">>)
        /\ \A j \in DOMAIN TicketListRoutes : Serves(TicketListRoutes[j], "GET", <<"tickets", "board">>) => 6 <= j
    BY <1>0, TicketListServes
  <2>2. RouteOf("GET", <<"tickets", "board">>) = {TicketListRoutes[6]}
    BY <2>1, TicketListAnswers
  <2>3. TicketListRoutes[6].need = OneOf(StaffTickets)
    BY DEF TicketListRoutes, GET
  <2>4. "ticketBoard" \in DOMAIN TicketListCalls /\ TicketListCalls["ticketBoard"] = Fetches(<<"tickets", "board">>)
    BY DEF TicketListCalls
  <2>5. QED
    BY <1>0, <2>2, <2>3, <2>4, FetchedRoute
<1>3. Asks("majorIncidentsOps", OneOf(StaffTickets))
  <2>1. /\ Serves(TicketListRoutes[7], "GET", <<"tickets", "major-incidents">>)
        /\ \A j \in DOMAIN TicketListRoutes : Serves(TicketListRoutes[j], "GET", <<"tickets", "major-incidents">>) => 7 <= j
    BY <1>0, TicketListServes
  <2>2. RouteOf("GET", <<"tickets", "major-incidents">>) = {TicketListRoutes[7]}
    BY <2>1, TicketListAnswers
  <2>3. TicketListRoutes[7].need = OneOf(StaffTickets)
    BY DEF TicketListRoutes, GET
  <2>4. "majorIncidentsOps" \in DOMAIN TicketListCalls /\ TicketListCalls["majorIncidentsOps"] = Fetches(<<"tickets", "major-incidents">>)
    BY DEF TicketListCalls
  <2>5. QED
    BY <1>0, <2>2, <2>3, <2>4, FetchedRoute
<1>4. Asks("getTicket", {Visible})
  <2>1. /\ Serves(TicketRowRoutes[1], "GET", <<"tickets", "x">>)
        /\ \A j \in DOMAIN TicketRowRoutes : Serves(TicketRowRoutes[j], "GET", <<"tickets", "x">>) => 1 <= j
    BY <1>0, TicketRowServes
  <2>2. \A j \in DOMAIN TicketListRoutes : ~Serves(TicketListRoutes[j], "GET", <<"tickets", "x">>)
    BY TicketListServes
  <2>3. RouteOf("GET", <<"tickets", "x">>) = {TicketRowRoutes[1]}
    BY <2>1, <2>2, TicketRowAnswers
  <2>4. TicketRowRoutes[1].need = {Visible}
    BY DEF TicketRowRoutes, GET
  <2>5. "getTicket" \in DOMAIN TicketListCalls /\ TicketListCalls["getTicket"] = Fetches(<<"tickets", "x">>)
    BY DEF TicketListCalls
  <2>6. QED
    BY <1>0, <2>3, <2>4, <2>5, FetchedRoute
<1>5. Asks("createTicket", OneOf(Writes))
  <2>1. /\ Serves(TicketListRoutes[10], "POST", <<"tickets">>)
        /\ \A j \in DOMAIN TicketListRoutes : Serves(TicketListRoutes[j], "POST", <<"tickets">>) => 10 <= j
    BY <1>0, TicketListServes
  <2>2. RouteOf("POST", <<"tickets">>) = {TicketListRoutes[10]}
    BY <2>1, TicketListAnswers
  <2>3. TicketListRoutes[10].need = OneOf(Writes)
    BY DEF TicketListRoutes, POST
  <2>4. "createTicket" \in DOMAIN TicketListCalls /\ TicketListCalls["createTicket"] = Posts(<<"tickets">>)
    BY DEF TicketListCalls
  <2>5. QED
    BY <1>0, <2>2, <2>3, <2>4, PostedRoute
<1>6. QED
  BY <1>1, <1>2, <1>3, <1>4, <1>5

LEMMA TicketRowCallsAsk ==
  /\ Asks("linkChildTicket", {Visible, Writes, StaffTickets})
  /\ Asks("unlinkChildTicket", {Visible, Writes, StaffTickets})
  /\ Asks("mergeTickets", {Visible, Writes \cup {"tickets:assign"}, StaffTickets})
  /\ Asks("updateTicket", {Visible, {"requester"} \cup Writes})
  /\ Asks("promoteToProblem", {Visible, Writes, StaffTickets})
  /\ Asks("requestCab", {Visible, Writes, StaffTickets})
  /\ Asks("watchTicket", {Visible})
  /\ Asks("unwatchTicket", {Visible})
  /\ Asks("heartbeatPresence", {Visible})
  /\ Asks("leavePresence", {Visible})
  /\ Asks("listWorkLogs", {Visible, StaffTickets \cup {"requester"}})
  /\ Asks("addWorkLog", {Visible, Writes, StaffTickets})
  /\ Asks("deleteTicket", {Visible} \cup DeletesTickets)
  /\ Asks("addComment", {Visible, {"requester"} \cup Writes})
<1>0. /\ TicketRowCalls \in Api
      /\ DOMAIN TicketRowRoutes = 1..16
    BY DEF Api, TicketRowRoutes
<1>1. Asks("linkChildTicket", {Visible, Writes, StaffTickets})
  <2>1. /\ Serves(TicketRowRoutes[15], "POST", <<"tickets", "x", "children">>)
        /\ \A j \in DOMAIN TicketRowRoutes : Serves(TicketRowRoutes[j], "POST", <<"tickets", "x", "children">>) => 15 <= j
    BY <1>0, TicketRowServes
  <2>2. \A j \in DOMAIN TicketListRoutes : ~Serves(TicketListRoutes[j], "POST", <<"tickets", "x", "children">>)
    BY TicketListServes
  <2>3. RouteOf("POST", <<"tickets", "x", "children">>) = {TicketRowRoutes[15]}
    BY <2>1, <2>2, TicketRowAnswers
  <2>4. TicketRowRoutes[15].need = {Visible, Writes, StaffTickets}
    BY DEF TicketRowRoutes, POST
  <2>5. "linkChildTicket" \in DOMAIN TicketRowCalls /\ TicketRowCalls["linkChildTicket"] = Posts(<<"tickets", "x", "children">>)
    BY DEF TicketRowCalls
  <2>6. QED
    BY <1>0, <2>3, <2>4, <2>5, PostedRoute
<1>2. Asks("unlinkChildTicket", {Visible, Writes, StaffTickets})
  <2>1. /\ Serves(TicketRowRoutes[16], "DELETE", <<"tickets", "x", "children", "x">>)
        /\ \A j \in DOMAIN TicketRowRoutes : Serves(TicketRowRoutes[j], "DELETE", <<"tickets", "x", "children", "x">>) => 16 <= j
    BY <1>0, TicketRowServes
  <2>2. \A j \in DOMAIN TicketListRoutes : ~Serves(TicketListRoutes[j], "DELETE", <<"tickets", "x", "children", "x">>)
    BY TicketListServes
  <2>3. RouteOf("DELETE", <<"tickets", "x", "children", "x">>) = {TicketRowRoutes[16]}
    BY <2>1, <2>2, TicketRowAnswers
  <2>4. TicketRowRoutes[16].need = {Visible, Writes, StaffTickets}
    BY DEF TicketRowRoutes, DELETE
  <2>5. "unlinkChildTicket" \in DOMAIN TicketRowCalls /\ TicketRowCalls["unlinkChildTicket"] = Deletes(<<"tickets", "x", "children", "x">>)
    BY DEF TicketRowCalls
  <2>6. QED
    BY <1>0, <2>3, <2>4, <2>5, DeletedRoute
<1>3. Asks("mergeTickets", {Visible, Writes \cup {"tickets:assign"}, StaffTickets})
  <2>1. /\ Serves(TicketRowRoutes[14], "POST", <<"tickets", "x", "merge">>)
        /\ \A j \in DOMAIN TicketRowRoutes : Serves(TicketRowRoutes[j], "POST", <<"tickets", "x", "merge">>) => 14 <= j
    BY <1>0, TicketRowServes
  <2>2. \A j \in DOMAIN TicketListRoutes : ~Serves(TicketListRoutes[j], "POST", <<"tickets", "x", "merge">>)
    BY TicketListServes
  <2>3. RouteOf("POST", <<"tickets", "x", "merge">>) = {TicketRowRoutes[14]}
    BY <2>1, <2>2, TicketRowAnswers
  <2>4. TicketRowRoutes[14].need = {Visible, Writes \cup {"tickets:assign"}, StaffTickets}
    BY DEF TicketRowRoutes, POST
  <2>5. "mergeTickets" \in DOMAIN TicketRowCalls /\ TicketRowCalls["mergeTickets"] = Posts(<<"tickets", "x", "merge">>)
    BY DEF TicketRowCalls
  <2>6. QED
    BY <1>0, <2>3, <2>4, <2>5, PostedRoute
<1>4. Asks("updateTicket", {Visible, {"requester"} \cup Writes})
  <2>1. /\ Serves(TicketRowRoutes[2], "PATCH", <<"tickets", "x">>)
        /\ \A j \in DOMAIN TicketRowRoutes : Serves(TicketRowRoutes[j], "PATCH", <<"tickets", "x">>) => 2 <= j
    BY <1>0, TicketRowServes
  <2>2. \A j \in DOMAIN TicketListRoutes : ~Serves(TicketListRoutes[j], "PATCH", <<"tickets", "x">>)
    BY TicketListServes
  <2>3. RouteOf("PATCH", <<"tickets", "x">>) = {TicketRowRoutes[2]}
    BY <2>1, <2>2, TicketRowAnswers
  <2>4. TicketRowRoutes[2].need = {Visible, {"requester"} \cup Writes}
    BY DEF TicketRowRoutes, PATCH
  <2>5. "updateTicket" \in DOMAIN TicketRowCalls /\ TicketRowCalls["updateTicket"] = Patches(<<"tickets", "x">>)
    BY DEF TicketRowCalls
  <2>6. QED
    BY <1>0, <2>3, <2>4, <2>5, PatchedRoute
<1>5. Asks("promoteToProblem", {Visible, Writes, StaffTickets})
  <2>1. /\ Serves(TicketRowRoutes[13], "POST", <<"tickets", "x", "promote-problem">>)
        /\ \A j \in DOMAIN TicketRowRoutes : Serves(TicketRowRoutes[j], "POST", <<"tickets", "x", "promote-problem">>) => 13 <= j
    BY <1>0, TicketRowServes
  <2>2. \A j \in DOMAIN TicketListRoutes : ~Serves(TicketListRoutes[j], "POST", <<"tickets", "x", "promote-problem">>)
    BY TicketListServes
  <2>3. RouteOf("POST", <<"tickets", "x", "promote-problem">>) = {TicketRowRoutes[13]}
    BY <2>1, <2>2, TicketRowAnswers
  <2>4. TicketRowRoutes[13].need = {Visible, Writes, StaffTickets}
    BY DEF TicketRowRoutes, POST
  <2>5. "promoteToProblem" \in DOMAIN TicketRowCalls /\ TicketRowCalls["promoteToProblem"] = Posts(<<"tickets", "x", "promote-problem">>)
    BY DEF TicketRowCalls
  <2>6. QED
    BY <1>0, <2>3, <2>4, <2>5, PostedRoute
<1>6. Asks("requestCab", {Visible, Writes, StaffTickets})
  <2>1. /\ Serves(TicketRowRoutes[12], "POST", <<"tickets", "x", "request-cab">>)
        /\ \A j \in DOMAIN TicketRowRoutes : Serves(TicketRowRoutes[j], "POST", <<"tickets", "x", "request-cab">>) => 12 <= j
    BY <1>0, TicketRowServes
  <2>2. \A j \in DOMAIN TicketListRoutes : ~Serves(TicketListRoutes[j], "POST", <<"tickets", "x", "request-cab">>)
    BY TicketListServes
  <2>3. RouteOf("POST", <<"tickets", "x", "request-cab">>) = {TicketRowRoutes[12]}
    BY <2>1, <2>2, TicketRowAnswers
  <2>4. TicketRowRoutes[12].need = {Visible, Writes, StaffTickets}
    BY DEF TicketRowRoutes, POST
  <2>5. "requestCab" \in DOMAIN TicketRowCalls /\ TicketRowCalls["requestCab"] = Posts(<<"tickets", "x", "request-cab">>)
    BY DEF TicketRowCalls
  <2>6. QED
    BY <1>0, <2>3, <2>4, <2>5, PostedRoute
<1>7. Asks("watchTicket", {Visible})
  <2>1. /\ Serves(TicketRowRoutes[5], "POST", <<"tickets", "x", "watch">>)
        /\ \A j \in DOMAIN TicketRowRoutes : Serves(TicketRowRoutes[j], "POST", <<"tickets", "x", "watch">>) => 5 <= j
    BY <1>0, TicketRowServes
  <2>2. \A j \in DOMAIN TicketListRoutes : ~Serves(TicketListRoutes[j], "POST", <<"tickets", "x", "watch">>)
    BY TicketListServes
  <2>3. RouteOf("POST", <<"tickets", "x", "watch">>) = {TicketRowRoutes[5]}
    BY <2>1, <2>2, TicketRowAnswers
  <2>4. TicketRowRoutes[5].need = {Visible}
    BY DEF TicketRowRoutes, POST
  <2>5. "watchTicket" \in DOMAIN TicketRowCalls /\ TicketRowCalls["watchTicket"] = Posts(<<"tickets", "x", "watch">>)
    BY DEF TicketRowCalls
  <2>6. QED
    BY <1>0, <2>3, <2>4, <2>5, PostedRoute
<1>8. Asks("unwatchTicket", {Visible})
  <2>1. /\ Serves(TicketRowRoutes[6], "DELETE", <<"tickets", "x", "watch">>)
        /\ \A j \in DOMAIN TicketRowRoutes : Serves(TicketRowRoutes[j], "DELETE", <<"tickets", "x", "watch">>) => 6 <= j
    BY <1>0, TicketRowServes
  <2>2. \A j \in DOMAIN TicketListRoutes : ~Serves(TicketListRoutes[j], "DELETE", <<"tickets", "x", "watch">>)
    BY TicketListServes
  <2>3. RouteOf("DELETE", <<"tickets", "x", "watch">>) = {TicketRowRoutes[6]}
    BY <2>1, <2>2, TicketRowAnswers
  <2>4. TicketRowRoutes[6].need = {Visible}
    BY DEF TicketRowRoutes, DELETE
  <2>5. "unwatchTicket" \in DOMAIN TicketRowCalls /\ TicketRowCalls["unwatchTicket"] = Deletes(<<"tickets", "x", "watch">>)
    BY DEF TicketRowCalls
  <2>6. QED
    BY <1>0, <2>3, <2>4, <2>5, DeletedRoute
<1>9. Asks("heartbeatPresence", {Visible})
  <2>1. /\ Serves(TicketRowRoutes[7], "POST", <<"tickets", "x", "presence">>)
        /\ \A j \in DOMAIN TicketRowRoutes : Serves(TicketRowRoutes[j], "POST", <<"tickets", "x", "presence">>) => 7 <= j
    BY <1>0, TicketRowServes
  <2>2. \A j \in DOMAIN TicketListRoutes : ~Serves(TicketListRoutes[j], "POST", <<"tickets", "x", "presence">>)
    BY TicketListServes
  <2>3. RouteOf("POST", <<"tickets", "x", "presence">>) = {TicketRowRoutes[7]}
    BY <2>1, <2>2, TicketRowAnswers
  <2>4. TicketRowRoutes[7].need = {Visible}
    BY DEF TicketRowRoutes, POST
  <2>5. "heartbeatPresence" \in DOMAIN TicketRowCalls /\ TicketRowCalls["heartbeatPresence"] = Posts(<<"tickets", "x", "presence">>)
    BY DEF TicketRowCalls
  <2>6. QED
    BY <1>0, <2>3, <2>4, <2>5, PostedRoute
<1>10. Asks("leavePresence", {Visible})
  <2>1. /\ Serves(TicketRowRoutes[9], "DELETE", <<"tickets", "x", "presence">>)
        /\ \A j \in DOMAIN TicketRowRoutes : Serves(TicketRowRoutes[j], "DELETE", <<"tickets", "x", "presence">>) => 9 <= j
    BY <1>0, TicketRowServes
  <2>2. \A j \in DOMAIN TicketListRoutes : ~Serves(TicketListRoutes[j], "DELETE", <<"tickets", "x", "presence">>)
    BY TicketListServes
  <2>3. RouteOf("DELETE", <<"tickets", "x", "presence">>) = {TicketRowRoutes[9]}
    BY <2>1, <2>2, TicketRowAnswers
  <2>4. TicketRowRoutes[9].need = {Visible}
    BY DEF TicketRowRoutes, DELETE
  <2>5. "leavePresence" \in DOMAIN TicketRowCalls /\ TicketRowCalls["leavePresence"] = Deletes(<<"tickets", "x", "presence">>)
    BY DEF TicketRowCalls
  <2>6. QED
    BY <1>0, <2>3, <2>4, <2>5, DeletedRoute, ZenonT(30)
<1>11. Asks("listWorkLogs", {Visible, StaffTickets \cup {"requester"}})
  <2>1. /\ Serves(TicketRowRoutes[11], "GET", <<"tickets", "x", "work-logs">>)
        /\ \A j \in DOMAIN TicketRowRoutes : Serves(TicketRowRoutes[j], "GET", <<"tickets", "x", "work-logs">>) => 11 <= j
    BY <1>0, TicketRowServes
  <2>2. \A j \in DOMAIN TicketListRoutes : ~Serves(TicketListRoutes[j], "GET", <<"tickets", "x", "work-logs">>)
    BY TicketListServes
  <2>3. RouteOf("GET", <<"tickets", "x", "work-logs">>) = {TicketRowRoutes[11]}
    BY <2>1, <2>2, TicketRowAnswers
  <2>4. TicketRowRoutes[11].need = {Visible, StaffTickets \cup {"requester"}}
    BY DEF TicketRowRoutes, GET
  <2>5. "listWorkLogs" \in DOMAIN TicketRowCalls /\ TicketRowCalls["listWorkLogs"] = Fetches(<<"tickets", "x", "work-logs">>)
    BY DEF TicketRowCalls
  <2>6. QED
    BY <1>0, <2>3, <2>4, <2>5, FetchedRoute
<1>12. Asks("addWorkLog", {Visible, Writes, StaffTickets})
  <2>1. /\ Serves(TicketRowRoutes[10], "POST", <<"tickets", "x", "work-logs">>)
        /\ \A j \in DOMAIN TicketRowRoutes : Serves(TicketRowRoutes[j], "POST", <<"tickets", "x", "work-logs">>) => 10 <= j
    BY <1>0, TicketRowServes
  <2>2. \A j \in DOMAIN TicketListRoutes : ~Serves(TicketListRoutes[j], "POST", <<"tickets", "x", "work-logs">>)
    BY TicketListServes
  <2>3. RouteOf("POST", <<"tickets", "x", "work-logs">>) = {TicketRowRoutes[10]}
    BY <2>1, <2>2, TicketRowAnswers
  <2>4. TicketRowRoutes[10].need = {Visible, Writes, StaffTickets}
    BY DEF TicketRowRoutes, POST
  <2>5. "addWorkLog" \in DOMAIN TicketRowCalls /\ TicketRowCalls["addWorkLog"] = Posts(<<"tickets", "x", "work-logs">>)
    BY DEF TicketRowCalls
  <2>6. QED
    BY <1>0, <2>3, <2>4, <2>5, PostedRoute
<1>13. Asks("deleteTicket", {Visible} \cup DeletesTickets)
  <2>1. /\ Serves(TicketRowRoutes[3], "DELETE", <<"tickets", "x">>)
        /\ \A j \in DOMAIN TicketRowRoutes : Serves(TicketRowRoutes[j], "DELETE", <<"tickets", "x">>) => 3 <= j
    BY <1>0, TicketRowServes
  <2>2. \A j \in DOMAIN TicketListRoutes : ~Serves(TicketListRoutes[j], "DELETE", <<"tickets", "x">>)
    BY TicketListServes
  <2>3. RouteOf("DELETE", <<"tickets", "x">>) = {TicketRowRoutes[3]}
    BY <2>1, <2>2, TicketRowAnswers
  <2>4. TicketRowRoutes[3].need = {Visible} \cup DeletesTickets
    BY DEF TicketRowRoutes, DELETE
  <2>5. "deleteTicket" \in DOMAIN TicketRowCalls /\ TicketRowCalls["deleteTicket"] = Deletes(<<"tickets", "x">>)
    BY DEF TicketRowCalls
  <2>6. QED
    BY <1>0, <2>3, <2>4, <2>5, DeletedRoute
<1>14. Asks("addComment", {Visible, {"requester"} \cup Writes})
  <2>1. /\ Serves(TicketRowRoutes[4], "POST", <<"tickets", "x", "comments">>)
        /\ \A j \in DOMAIN TicketRowRoutes : Serves(TicketRowRoutes[j], "POST", <<"tickets", "x", "comments">>) => 4 <= j
    BY <1>0, TicketRowServes
  <2>2. \A j \in DOMAIN TicketListRoutes : ~Serves(TicketListRoutes[j], "POST", <<"tickets", "x", "comments">>)
    BY TicketListServes
  <2>3. RouteOf("POST", <<"tickets", "x", "comments">>) = {TicketRowRoutes[4]}
    BY <2>1, <2>2, TicketRowAnswers
  <2>4. TicketRowRoutes[4].need = {Visible, {"requester"} \cup Writes}
    BY DEF TicketRowRoutes, POST
  <2>5. "addComment" \in DOMAIN TicketRowCalls /\ TicketRowCalls["addComment"] = Posts(<<"tickets", "x", "comments">>)
    BY DEF TicketRowCalls
  <2>6. QED
    BY <1>0, <2>3, <2>4, <2>5, PostedRoute
<1>15. QED
  BY <1>1, <1>2, <1>3, <1>4, <1>5, <1>6, <1>7, <1>8, <1>9, <1>10, <1>11, <1>12, <1>13, <1>14

LEMMA TicketViewCallsAsk ==
  /\ Asks("ticketMeta", Free)
  /\ Asks("listSavedViews", Free)
  /\ Asks("createSavedView", Free)
  /\ Asks("deleteSavedView", Free)
<1>0. /\ TicketViewCalls \in Api
      /\ DOMAIN TicketListRoutes = 1..10
    BY DEF Api, TicketListRoutes
<1>1. Asks("ticketMeta", Free)
  <2>1. /\ Serves(TicketListRoutes[1], "GET", <<"tickets", "meta">>)
        /\ \A j \in DOMAIN TicketListRoutes : Serves(TicketListRoutes[j], "GET", <<"tickets", "meta">>) => 1 <= j
    BY <1>0, TicketListServes
  <2>2. RouteOf("GET", <<"tickets", "meta">>) = {TicketListRoutes[1]}
    BY <2>1, TicketListAnswers
  <2>3. TicketListRoutes[1].need = Free
    BY DEF TicketListRoutes, GET
  <2>4. "ticketMeta" \in DOMAIN TicketViewCalls /\ TicketViewCalls["ticketMeta"] = Fetches(<<"tickets", "meta">>)
    BY DEF TicketViewCalls
  <2>5. QED
    BY <1>0, <2>2, <2>3, <2>4, FetchedRoute
<1>2. Asks("listSavedViews", Free)
  <2>1. /\ Serves(TicketListRoutes[2], "GET", <<"tickets", "views">>)
        /\ \A j \in DOMAIN TicketListRoutes : Serves(TicketListRoutes[j], "GET", <<"tickets", "views">>) => 2 <= j
    BY <1>0, TicketListServes
  <2>2. RouteOf("GET", <<"tickets", "views">>) = {TicketListRoutes[2]}
    BY <2>1, TicketListAnswers
  <2>3. TicketListRoutes[2].need = Free
    BY DEF TicketListRoutes, GET
  <2>4. "listSavedViews" \in DOMAIN TicketViewCalls /\ TicketViewCalls["listSavedViews"] = Fetches(<<"tickets", "views">>)
    BY DEF TicketViewCalls
  <2>5. QED
    BY <1>0, <2>2, <2>3, <2>4, FetchedRoute
<1>3. Asks("createSavedView", Free)
  <2>1. /\ Serves(TicketListRoutes[3], "POST", <<"tickets", "views">>)
        /\ \A j \in DOMAIN TicketListRoutes : Serves(TicketListRoutes[j], "POST", <<"tickets", "views">>) => 3 <= j
    BY <1>0, TicketListServes
  <2>2. RouteOf("POST", <<"tickets", "views">>) = {TicketListRoutes[3]}
    BY <2>1, TicketListAnswers
  <2>3. TicketListRoutes[3].need = Free
    BY DEF TicketListRoutes, POST
  <2>4. "createSavedView" \in DOMAIN TicketViewCalls /\ TicketViewCalls["createSavedView"] = Posts(<<"tickets", "views">>)
    BY DEF TicketViewCalls
  <2>5. QED
    BY <1>0, <2>2, <2>3, <2>4, PostedRoute
<1>4. Asks("deleteSavedView", Free)
  <2>1. /\ Serves(TicketListRoutes[5], "DELETE", <<"tickets", "views", "x">>)
        /\ \A j \in DOMAIN TicketListRoutes : Serves(TicketListRoutes[j], "DELETE", <<"tickets", "views", "x">>) => 5 <= j
    BY <1>0, TicketListServes
  <2>2. RouteOf("DELETE", <<"tickets", "views", "x">>) = {TicketListRoutes[5]}
    BY <2>1, TicketListAnswers
  <2>3. TicketListRoutes[5].need = Free
    BY DEF TicketListRoutes, DELETE
  <2>4. "deleteSavedView" \in DOMAIN TicketViewCalls /\ TicketViewCalls["deleteSavedView"] = Deletes(<<"tickets", "views", "x">>)
    BY DEF TicketViewCalls
  <2>5. QED
    BY <1>0, <2>2, <2>3, <2>4, DeletedRoute
<1>5. QED
  BY <1>1, <1>2, <1>3, <1>4

LEMMA ImCallsAsk ==
  /\ Asks("listImIncidents", Needs("im:read"))
  /\ Asks("getImDashboard", Needs("im:read"))
  /\ Asks("getImIncident", Needs("im:read"))
  /\ Asks("createImIncident", Needs("im:write"))
  /\ Asks("addImUpdate", Needs("im:write"))
  /\ Asks("updateImStatus", Needs("im:write"))
  /\ Asks("getImPir", Needs("im:read"))
  /\ Asks("assignImRole", Needs("im:write"))
<1>0. /\ ImCalls \in Api
      /\ DOMAIN ImRoutes = 1..8
    BY DEF Api, ImRoutes
<1>1. Asks("listImIncidents", Needs("im:read"))
  <2>1. /\ Serves(ImRoutes[1], "GET", <<"im">>)
        /\ \A j \in DOMAIN ImRoutes : Serves(ImRoutes[j], "GET", <<"im">>) => 1 <= j
    BY <1>0, ImServes
  <2>2. RouteOf("GET", <<"im">>) = {ImRoutes[1]}
    BY <2>1, ImAnswers
  <2>3. ImRoutes[1].need = Needs("im:read")
    BY DEF ImRoutes, GET
  <2>4. "listImIncidents" \in DOMAIN ImCalls /\ ImCalls["listImIncidents"] = Fetches(<<"im">>)
    BY DEF ImCalls
  <2>5. QED
    BY <1>0, <2>2, <2>3, <2>4, FetchedRoute
<1>2. Asks("getImDashboard", Needs("im:read"))
  <2>1. /\ Serves(ImRoutes[2], "GET", <<"im", "dashboard">>)
        /\ \A j \in DOMAIN ImRoutes : Serves(ImRoutes[j], "GET", <<"im", "dashboard">>) => 2 <= j
    BY <1>0, ImServes
  <2>2. RouteOf("GET", <<"im", "dashboard">>) = {ImRoutes[2]}
    BY <2>1, ImAnswers
  <2>3. ImRoutes[2].need = Needs("im:read")
    BY DEF ImRoutes, GET
  <2>4. "getImDashboard" \in DOMAIN ImCalls /\ ImCalls["getImDashboard"] = Fetches(<<"im", "dashboard">>)
    BY DEF ImCalls
  <2>5. QED
    BY <1>0, <2>2, <2>3, <2>4, FetchedRoute
<1>3. Asks("getImIncident", Needs("im:read"))
  <2>1. /\ Serves(ImRoutes[5], "GET", <<"im", "x">>)
        /\ \A j \in DOMAIN ImRoutes : Serves(ImRoutes[j], "GET", <<"im", "x">>) => 5 <= j
    BY <1>0, ImServes
  <2>2. RouteOf("GET", <<"im", "x">>) = {ImRoutes[5]}
    BY <2>1, ImAnswers
  <2>3. ImRoutes[5].need = Needs("im:read")
    BY DEF ImRoutes, GET
  <2>4. "getImIncident" \in DOMAIN ImCalls /\ ImCalls["getImIncident"] = Fetches(<<"im", "x">>)
    BY DEF ImCalls
  <2>5. QED
    BY <1>0, <2>2, <2>3, <2>4, FetchedRoute
<1>4. Asks("createImIncident", Needs("im:write"))
  <2>1. /\ Serves(ImRoutes[3], "POST", <<"im">>)
        /\ \A j \in DOMAIN ImRoutes : Serves(ImRoutes[j], "POST", <<"im">>) => 3 <= j
    BY <1>0, ImServes
  <2>2. RouteOf("POST", <<"im">>) = {ImRoutes[3]}
    BY <2>1, ImAnswers
  <2>3. ImRoutes[3].need = Needs("im:write")
    BY DEF ImRoutes, POST
  <2>4. "createImIncident" \in DOMAIN ImCalls /\ ImCalls["createImIncident"] = Posts(<<"im">>)
    BY DEF ImCalls
  <2>5. QED
    BY <1>0, <2>2, <2>3, <2>4, PostedRoute
<1>5. Asks("addImUpdate", Needs("im:write"))
  <2>1. /\ Serves(ImRoutes[7], "POST", <<"im", "x", "updates">>)
        /\ \A j \in DOMAIN ImRoutes : Serves(ImRoutes[j], "POST", <<"im", "x", "updates">>) => 7 <= j
    BY <1>0, ImServes
  <2>2. RouteOf("POST", <<"im", "x", "updates">>) = {ImRoutes[7]}
    BY <2>1, ImAnswers
  <2>3. ImRoutes[7].need = Needs("im:write")
    BY DEF ImRoutes, POST
  <2>4. "addImUpdate" \in DOMAIN ImCalls /\ ImCalls["addImUpdate"] = Posts(<<"im", "x", "updates">>)
    BY DEF ImCalls
  <2>5. QED
    BY <1>0, <2>2, <2>3, <2>4, PostedRoute
<1>6. Asks("updateImStatus", Needs("im:write"))
  <2>1. /\ Serves(ImRoutes[6], "PATCH", <<"im", "x", "status">>)
        /\ \A j \in DOMAIN ImRoutes : Serves(ImRoutes[j], "PATCH", <<"im", "x", "status">>) => 6 <= j
    BY <1>0, ImServes
  <2>2. RouteOf("PATCH", <<"im", "x", "status">>) = {ImRoutes[6]}
    BY <2>1, ImAnswers
  <2>3. ImRoutes[6].need = Needs("im:write")
    BY DEF ImRoutes, PATCH
  <2>4. "updateImStatus" \in DOMAIN ImCalls /\ ImCalls["updateImStatus"] = Patches(<<"im", "x", "status">>)
    BY DEF ImCalls
  <2>5. QED
    BY <1>0, <2>2, <2>3, <2>4, PatchedRoute
<1>7. Asks("getImPir", Needs("im:read"))
  <2>1. /\ Serves(ImRoutes[4], "GET", <<"im", "x", "pir">>)
        /\ \A j \in DOMAIN ImRoutes : Serves(ImRoutes[j], "GET", <<"im", "x", "pir">>) => 4 <= j
    BY <1>0, ImServes
  <2>2. RouteOf("GET", <<"im", "x", "pir">>) = {ImRoutes[4]}
    BY <2>1, ImAnswers
  <2>3. ImRoutes[4].need = Needs("im:read")
    BY DEF ImRoutes, GET
  <2>4. "getImPir" \in DOMAIN ImCalls /\ ImCalls["getImPir"] = Fetches(<<"im", "x", "pir">>)
    BY DEF ImCalls
  <2>5. QED
    BY <1>0, <2>2, <2>3, <2>4, FetchedRoute
<1>8. Asks("assignImRole", Needs("im:write"))
  <2>1. /\ Serves(ImRoutes[8], "POST", <<"im", "x", "roles">>)
        /\ \A j \in DOMAIN ImRoutes : Serves(ImRoutes[j], "POST", <<"im", "x", "roles">>) => 8 <= j
    BY <1>0, ImServes
  <2>2. RouteOf("POST", <<"im", "x", "roles">>) = {ImRoutes[8]}
    BY <2>1, ImAnswers
  <2>3. ImRoutes[8].need = Needs("im:write")
    BY DEF ImRoutes, POST
  <2>4. "assignImRole" \in DOMAIN ImCalls /\ ImCalls["assignImRole"] = Posts(<<"im", "x", "roles">>)
    BY DEF ImCalls
  <2>5. QED
    BY <1>0, <2>2, <2>3, <2>4, PostedRoute
<1>9. QED
  BY <1>1, <1>2, <1>3, <1>4, <1>5, <1>6, <1>7, <1>8

LEMMA AutomationCallsAsk ==
  /\ Asks("listAutomationRules", Needs("settings:manage"))
  /\ Asks("createAutomationRule", Needs("settings:manage"))
  /\ Asks("updateAutomationRule", Needs("settings:manage"))
<1>0. /\ AutomationCalls \in Api
      /\ DOMAIN AutomationRoutes = 1..3
    BY DEF Api, AutomationRoutes
<1>1. Asks("listAutomationRules", Needs("settings:manage"))
  <2>1. /\ Serves(AutomationRoutes[1], "GET", <<"automation", "rules">>)
        /\ \A j \in DOMAIN AutomationRoutes : Serves(AutomationRoutes[j], "GET", <<"automation", "rules">>) => 1 <= j
    BY <1>0, AutomationServes
  <2>2. RouteOf("GET", <<"automation", "rules">>) = {AutomationRoutes[1]}
    BY <2>1, AutomationAnswers
  <2>3. AutomationRoutes[1].need = Needs("settings:manage")
    BY DEF AutomationRoutes, GET
  <2>4. "listAutomationRules" \in DOMAIN AutomationCalls /\ AutomationCalls["listAutomationRules"] = Fetches(<<"automation", "rules">>)
    BY DEF AutomationCalls
  <2>5. QED
    BY <1>0, <2>2, <2>3, <2>4, FetchedRoute
<1>2. Asks("createAutomationRule", Needs("settings:manage"))
  <2>1. /\ Serves(AutomationRoutes[2], "POST", <<"automation", "rules">>)
        /\ \A j \in DOMAIN AutomationRoutes : Serves(AutomationRoutes[j], "POST", <<"automation", "rules">>) => 2 <= j
    BY <1>0, AutomationServes
  <2>2. RouteOf("POST", <<"automation", "rules">>) = {AutomationRoutes[2]}
    BY <2>1, AutomationAnswers
  <2>3. AutomationRoutes[2].need = Needs("settings:manage")
    BY DEF AutomationRoutes, POST
  <2>4. "createAutomationRule" \in DOMAIN AutomationCalls /\ AutomationCalls["createAutomationRule"] = Posts(<<"automation", "rules">>)
    BY DEF AutomationCalls
  <2>5. QED
    BY <1>0, <2>2, <2>3, <2>4, PostedRoute
<1>3. Asks("updateAutomationRule", Needs("settings:manage"))
  <2>1. /\ Serves(AutomationRoutes[3], "PATCH", <<"automation", "rules", "x">>)
        /\ \A j \in DOMAIN AutomationRoutes : Serves(AutomationRoutes[j], "PATCH", <<"automation", "rules", "x">>) => 3 <= j
    BY <1>0, AutomationServes
  <2>2. RouteOf("PATCH", <<"automation", "rules", "x">>) = {AutomationRoutes[3]}
    BY <2>1, AutomationAnswers
  <2>3. AutomationRoutes[3].need = Needs("settings:manage")
    BY DEF AutomationRoutes, PATCH
  <2>4. "updateAutomationRule" \in DOMAIN AutomationCalls /\ AutomationCalls["updateAutomationRule"] = Patches(<<"automation", "rules", "x">>)
    BY DEF AutomationCalls
  <2>5. QED
    BY <1>0, <2>2, <2>3, <2>4, PatchedRoute
<1>4. QED
  BY <1>1, <1>2, <1>3

LEMMA OrgCallsAsk ==
  /\ Asks("listTeams", Needs("org:read"))
  /\ Asks("listLocations", Needs("org:read"))
  /\ Asks("createLocation", Needs("org:manage"))
  /\ Asks("updateLocation", Needs("org:manage"))
  /\ Asks("deactivateLocation", Needs("org:manage"))
  /\ Asks("listDepartments", Needs("org:read"))
  /\ Asks("createDepartment", Needs("org:manage"))
  /\ Asks("updateDepartment", Needs("org:manage"))
  /\ Asks("deactivateDepartment", Needs("org:manage"))
  /\ Asks("createTeam", Needs("org:manage"))
  /\ Asks("updateTeam", Needs("org:manage"))
  /\ Asks("addTeamMember", Needs("org:manage"))
  /\ Asks("removeTeamMember", Needs("org:manage"))
<1>0. /\ OrgCalls \in Api
      /\ DOMAIN OrgRoutes = 1..13
    BY DEF Api, OrgRoutes
<1>1. Asks("listTeams", Needs("org:read"))
  <2>1. /\ Serves(OrgRoutes[9], "GET", <<"org", "teams">>)
        /\ \A j \in DOMAIN OrgRoutes : Serves(OrgRoutes[j], "GET", <<"org", "teams">>) => 9 <= j
    BY <1>0, OrgServes
  <2>2. RouteOf("GET", <<"org", "teams">>) = {OrgRoutes[9]}
    BY <2>1, OrgAnswers
  <2>3. OrgRoutes[9].need = Needs("org:read")
    BY DEF OrgRoutes, GET
  <2>4. "listTeams" \in DOMAIN OrgCalls /\ OrgCalls["listTeams"] = Fetches(<<"org", "teams">>)
    BY DEF OrgCalls
  <2>5. QED
    BY <1>0, <2>2, <2>3, <2>4, FetchedRoute
<1>2. Asks("listLocations", Needs("org:read"))
  <2>1. /\ Serves(OrgRoutes[1], "GET", <<"org", "locations">>)
        /\ \A j \in DOMAIN OrgRoutes : Serves(OrgRoutes[j], "GET", <<"org", "locations">>) => 1 <= j
    BY <1>0, OrgServes
  <2>2. RouteOf("GET", <<"org", "locations">>) = {OrgRoutes[1]}
    BY <2>1, OrgAnswers
  <2>3. OrgRoutes[1].need = Needs("org:read")
    BY DEF OrgRoutes, GET
  <2>4. "listLocations" \in DOMAIN OrgCalls /\ OrgCalls["listLocations"] = Fetches(<<"org", "locations">>)
    BY DEF OrgCalls
  <2>5. QED
    BY <1>0, <2>2, <2>3, <2>4, FetchedRoute
<1>3. Asks("createLocation", Needs("org:manage"))
  <2>1. /\ Serves(OrgRoutes[2], "POST", <<"org", "locations">>)
        /\ \A j \in DOMAIN OrgRoutes : Serves(OrgRoutes[j], "POST", <<"org", "locations">>) => 2 <= j
    BY <1>0, OrgServes
  <2>2. RouteOf("POST", <<"org", "locations">>) = {OrgRoutes[2]}
    BY <2>1, OrgAnswers
  <2>3. OrgRoutes[2].need = Needs("org:manage")
    BY DEF OrgRoutes, POST
  <2>4. "createLocation" \in DOMAIN OrgCalls /\ OrgCalls["createLocation"] = Posts(<<"org", "locations">>)
    BY DEF OrgCalls
  <2>5. QED
    BY <1>0, <2>2, <2>3, <2>4, PostedRoute
<1>4. Asks("updateLocation", Needs("org:manage"))
  <2>1. /\ Serves(OrgRoutes[3], "PATCH", <<"org", "locations", "x">>)
        /\ \A j \in DOMAIN OrgRoutes : Serves(OrgRoutes[j], "PATCH", <<"org", "locations", "x">>) => 3 <= j
    BY <1>0, OrgServes
  <2>2. RouteOf("PATCH", <<"org", "locations", "x">>) = {OrgRoutes[3]}
    BY <2>1, OrgAnswers
  <2>3. OrgRoutes[3].need = Needs("org:manage")
    BY DEF OrgRoutes, PATCH
  <2>4. "updateLocation" \in DOMAIN OrgCalls /\ OrgCalls["updateLocation"] = Patches(<<"org", "locations", "x">>)
    BY DEF OrgCalls
  <2>5. QED
    BY <1>0, <2>2, <2>3, <2>4, PatchedRoute
<1>5. Asks("deactivateLocation", Needs("org:manage"))
  <2>1. /\ Serves(OrgRoutes[4], "DELETE", <<"org", "locations", "x">>)
        /\ \A j \in DOMAIN OrgRoutes : Serves(OrgRoutes[j], "DELETE", <<"org", "locations", "x">>) => 4 <= j
    BY <1>0, OrgServes
  <2>2. RouteOf("DELETE", <<"org", "locations", "x">>) = {OrgRoutes[4]}
    BY <2>1, OrgAnswers
  <2>3. OrgRoutes[4].need = Needs("org:manage")
    BY DEF OrgRoutes, DELETE
  <2>4. "deactivateLocation" \in DOMAIN OrgCalls /\ OrgCalls["deactivateLocation"] = Deletes(<<"org", "locations", "x">>)
    BY DEF OrgCalls
  <2>5. QED
    BY <1>0, <2>2, <2>3, <2>4, DeletedRoute
<1>6. Asks("listDepartments", Needs("org:read"))
  <2>1. /\ Serves(OrgRoutes[5], "GET", <<"org", "departments">>)
        /\ \A j \in DOMAIN OrgRoutes : Serves(OrgRoutes[j], "GET", <<"org", "departments">>) => 5 <= j
    BY <1>0, OrgServes
  <2>2. RouteOf("GET", <<"org", "departments">>) = {OrgRoutes[5]}
    BY <2>1, OrgAnswers
  <2>3. OrgRoutes[5].need = Needs("org:read")
    BY DEF OrgRoutes, GET
  <2>4. "listDepartments" \in DOMAIN OrgCalls /\ OrgCalls["listDepartments"] = Fetches(<<"org", "departments">>)
    BY DEF OrgCalls
  <2>5. QED
    BY <1>0, <2>2, <2>3, <2>4, FetchedRoute
<1>7. Asks("createDepartment", Needs("org:manage"))
  <2>1. /\ Serves(OrgRoutes[6], "POST", <<"org", "departments">>)
        /\ \A j \in DOMAIN OrgRoutes : Serves(OrgRoutes[j], "POST", <<"org", "departments">>) => 6 <= j
    BY <1>0, OrgServes
  <2>2. RouteOf("POST", <<"org", "departments">>) = {OrgRoutes[6]}
    BY <2>1, OrgAnswers
  <2>3. OrgRoutes[6].need = Needs("org:manage")
    BY DEF OrgRoutes, POST
  <2>4. "createDepartment" \in DOMAIN OrgCalls /\ OrgCalls["createDepartment"] = Posts(<<"org", "departments">>)
    BY DEF OrgCalls
  <2>5. QED
    BY <1>0, <2>2, <2>3, <2>4, PostedRoute
<1>8. Asks("updateDepartment", Needs("org:manage"))
  <2>1. /\ Serves(OrgRoutes[7], "PATCH", <<"org", "departments", "x">>)
        /\ \A j \in DOMAIN OrgRoutes : Serves(OrgRoutes[j], "PATCH", <<"org", "departments", "x">>) => 7 <= j
    BY <1>0, OrgServes
  <2>2. RouteOf("PATCH", <<"org", "departments", "x">>) = {OrgRoutes[7]}
    BY <2>1, OrgAnswers
  <2>3. OrgRoutes[7].need = Needs("org:manage")
    BY DEF OrgRoutes, PATCH
  <2>4. "updateDepartment" \in DOMAIN OrgCalls /\ OrgCalls["updateDepartment"] = Patches(<<"org", "departments", "x">>)
    BY DEF OrgCalls
  <2>5. QED
    BY <1>0, <2>2, <2>3, <2>4, PatchedRoute
<1>9. Asks("deactivateDepartment", Needs("org:manage"))
  <2>1. /\ Serves(OrgRoutes[8], "DELETE", <<"org", "departments", "x">>)
        /\ \A j \in DOMAIN OrgRoutes : Serves(OrgRoutes[j], "DELETE", <<"org", "departments", "x">>) => 8 <= j
    BY <1>0, OrgServes
  <2>2. RouteOf("DELETE", <<"org", "departments", "x">>) = {OrgRoutes[8]}
    BY <2>1, OrgAnswers
  <2>3. OrgRoutes[8].need = Needs("org:manage")
    BY DEF OrgRoutes, DELETE
  <2>4. "deactivateDepartment" \in DOMAIN OrgCalls /\ OrgCalls["deactivateDepartment"] = Deletes(<<"org", "departments", "x">>)
    BY DEF OrgCalls
  <2>5. QED
    BY <1>0, <2>2, <2>3, <2>4, DeletedRoute
<1>10. Asks("createTeam", Needs("org:manage"))
  <2>1. /\ Serves(OrgRoutes[10], "POST", <<"org", "teams">>)
        /\ \A j \in DOMAIN OrgRoutes : Serves(OrgRoutes[j], "POST", <<"org", "teams">>) => 10 <= j
    BY <1>0, OrgServes
  <2>2. RouteOf("POST", <<"org", "teams">>) = {OrgRoutes[10]}
    BY <2>1, OrgAnswers
  <2>3. OrgRoutes[10].need = Needs("org:manage")
    BY DEF OrgRoutes, POST
  <2>4. "createTeam" \in DOMAIN OrgCalls /\ OrgCalls["createTeam"] = Posts(<<"org", "teams">>)
    BY DEF OrgCalls
  <2>5. QED
    BY <1>0, <2>2, <2>3, <2>4, PostedRoute
<1>11. Asks("updateTeam", Needs("org:manage"))
  <2>1. /\ Serves(OrgRoutes[11], "PATCH", <<"org", "teams", "x">>)
        /\ \A j \in DOMAIN OrgRoutes : Serves(OrgRoutes[j], "PATCH", <<"org", "teams", "x">>) => 11 <= j
    BY <1>0, OrgServes
  <2>2. RouteOf("PATCH", <<"org", "teams", "x">>) = {OrgRoutes[11]}
    BY <2>1, OrgAnswers
  <2>3. OrgRoutes[11].need = Needs("org:manage")
    BY DEF OrgRoutes, PATCH
  <2>4. "updateTeam" \in DOMAIN OrgCalls /\ OrgCalls["updateTeam"] = Patches(<<"org", "teams", "x">>)
    BY DEF OrgCalls
  <2>5. QED
    BY <1>0, <2>2, <2>3, <2>4, PatchedRoute
<1>12. Asks("addTeamMember", Needs("org:manage"))
  <2>1. /\ Serves(OrgRoutes[12], "POST", <<"org", "teams", "x", "members">>)
        /\ \A j \in DOMAIN OrgRoutes : Serves(OrgRoutes[j], "POST", <<"org", "teams", "x", "members">>) => 12 <= j
    BY <1>0, OrgServes
  <2>2. RouteOf("POST", <<"org", "teams", "x", "members">>) = {OrgRoutes[12]}
    BY <2>1, OrgAnswers
  <2>3. OrgRoutes[12].need = Needs("org:manage")
    BY DEF OrgRoutes, POST
  <2>4. "addTeamMember" \in DOMAIN OrgCalls /\ OrgCalls["addTeamMember"] = Posts(<<"org", "teams", "x", "members">>)
    BY DEF OrgCalls
  <2>5. QED
    BY <1>0, <2>2, <2>3, <2>4, PostedRoute
<1>13. Asks("removeTeamMember", Needs("org:manage"))
  <2>1. /\ Serves(OrgRoutes[13], "DELETE", <<"org", "teams", "x", "members", "x">>)
        /\ \A j \in DOMAIN OrgRoutes : Serves(OrgRoutes[j], "DELETE", <<"org", "teams", "x", "members", "x">>) => 13 <= j
    BY <1>0, OrgServes
  <2>2. RouteOf("DELETE", <<"org", "teams", "x", "members", "x">>) = {OrgRoutes[13]}
    BY <2>1, OrgAnswers
  <2>3. OrgRoutes[13].need = Needs("org:manage")
    BY DEF OrgRoutes, DELETE
  <2>4. "removeTeamMember" \in DOMAIN OrgCalls /\ OrgCalls["removeTeamMember"] = Deletes(<<"org", "teams", "x", "members", "x">>)
    BY DEF OrgCalls
  <2>5. QED
    BY <1>0, <2>2, <2>3, <2>4, DeletedRoute
<1>14. QED
  BY <1>1, <1>2, <1>3, <1>4, <1>5, <1>6, <1>7, <1>8, <1>9, <1>10, <1>11, <1>12, <1>13

LEMMA RoutingCallsAsk ==
  /\ Asks("assignmentRules", Needs("org:read"))
  /\ Asks("createAssignmentRule", Needs("org:manage"))
  /\ Asks("listSkills", Needs("org:read"))
  /\ Asks("createSkill", Needs("org:manage"))
  /\ Asks("getUserSkills", Needs("org:read"))
  /\ Asks("setUserSkills", Needs("org:manage"))
  /\ Asks("slaPolicies", Needs("settings:manage"))
  /\ Asks("createSlaPolicy", Needs("settings:manage"))
<1>0. /\ RoutingCalls \in Api
      /\ DOMAIN SlaRoutes = 1..3
      /\ DOMAIN AssignmentRoutes = 1..2
      /\ DOMAIN SkillRoutes = 1..4
    BY DEF Api, SlaRoutes, AssignmentRoutes, SkillRoutes
<1>1. Asks("assignmentRules", Needs("org:read"))
  <2>1. /\ Serves(AssignmentRoutes[1], "GET", <<"assignment-rules">>)
        /\ \A j \in DOMAIN AssignmentRoutes : Serves(AssignmentRoutes[j], "GET", <<"assignment-rules">>) => 1 <= j
    BY <1>0, AssignmentServes
  <2>2. RouteOf("GET", <<"assignment-rules">>) = {AssignmentRoutes[1]}
    BY <2>1, AssignmentAnswers
  <2>3. AssignmentRoutes[1].need = Needs("org:read")
    BY DEF AssignmentRoutes, GET
  <2>4. "assignmentRules" \in DOMAIN RoutingCalls /\ RoutingCalls["assignmentRules"] = Fetches(<<"assignment-rules">>)
    BY DEF RoutingCalls
  <2>5. QED
    BY <1>0, <2>2, <2>3, <2>4, FetchedRoute
<1>2. Asks("createAssignmentRule", Needs("org:manage"))
  <2>1. /\ Serves(AssignmentRoutes[2], "POST", <<"assignment-rules">>)
        /\ \A j \in DOMAIN AssignmentRoutes : Serves(AssignmentRoutes[j], "POST", <<"assignment-rules">>) => 2 <= j
    BY <1>0, AssignmentServes
  <2>2. RouteOf("POST", <<"assignment-rules">>) = {AssignmentRoutes[2]}
    BY <2>1, AssignmentAnswers
  <2>3. AssignmentRoutes[2].need = Needs("org:manage")
    BY DEF AssignmentRoutes, POST
  <2>4. "createAssignmentRule" \in DOMAIN RoutingCalls /\ RoutingCalls["createAssignmentRule"] = Posts(<<"assignment-rules">>)
    BY DEF RoutingCalls
  <2>5. QED
    BY <1>0, <2>2, <2>3, <2>4, PostedRoute
<1>3. Asks("listSkills", Needs("org:read"))
  <2>1. /\ Serves(SkillRoutes[1], "GET", <<"skills">>)
        /\ \A j \in DOMAIN SkillRoutes : Serves(SkillRoutes[j], "GET", <<"skills">>) => 1 <= j
    BY <1>0, SkillServes
  <2>2. RouteOf("GET", <<"skills">>) = {SkillRoutes[1]}
    BY <2>1, SkillAnswers
  <2>3. SkillRoutes[1].need = Needs("org:read")
    BY DEF SkillRoutes, GET
  <2>4. "listSkills" \in DOMAIN RoutingCalls /\ RoutingCalls["listSkills"] = Fetches(<<"skills">>)
    BY DEF RoutingCalls
  <2>5. QED
    BY <1>0, <2>2, <2>3, <2>4, FetchedRoute
<1>4. Asks("createSkill", Needs("org:manage"))
  <2>1. /\ Serves(SkillRoutes[2], "POST", <<"skills">>)
        /\ \A j \in DOMAIN SkillRoutes : Serves(SkillRoutes[j], "POST", <<"skills">>) => 2 <= j
    BY <1>0, SkillServes
  <2>2. RouteOf("POST", <<"skills">>) = {SkillRoutes[2]}
    BY <2>1, SkillAnswers
  <2>3. SkillRoutes[2].need = Needs("org:manage")
    BY DEF SkillRoutes, POST
  <2>4. "createSkill" \in DOMAIN RoutingCalls /\ RoutingCalls["createSkill"] = Posts(<<"skills">>)
    BY DEF RoutingCalls
  <2>5. QED
    BY <1>0, <2>2, <2>3, <2>4, PostedRoute
<1>5. Asks("getUserSkills", Needs("org:read"))
  <2>1. /\ Serves(SkillRoutes[3], "GET", <<"skills", "users", "x">>)
        /\ \A j \in DOMAIN SkillRoutes : Serves(SkillRoutes[j], "GET", <<"skills", "users", "x">>) => 3 <= j
    BY <1>0, SkillServes
  <2>2. RouteOf("GET", <<"skills", "users", "x">>) = {SkillRoutes[3]}
    BY <2>1, SkillAnswers
  <2>3. SkillRoutes[3].need = Needs("org:read")
    BY DEF SkillRoutes, GET
  <2>4. "getUserSkills" \in DOMAIN RoutingCalls /\ RoutingCalls["getUserSkills"] = Fetches(<<"skills", "users", "x">>)
    BY DEF RoutingCalls
  <2>5. QED
    BY <1>0, <2>2, <2>3, <2>4, FetchedRoute
<1>6. Asks("setUserSkills", Needs("org:manage"))
  <2>1. /\ Serves(SkillRoutes[4], "PUT", <<"skills", "users", "x">>)
        /\ \A j \in DOMAIN SkillRoutes : Serves(SkillRoutes[j], "PUT", <<"skills", "users", "x">>) => 4 <= j
    BY <1>0, SkillServes
  <2>2. RouteOf("PUT", <<"skills", "users", "x">>) = {SkillRoutes[4]}
    BY <2>1, SkillAnswers
  <2>3. SkillRoutes[4].need = Needs("org:manage")
    BY DEF SkillRoutes, PUT
  <2>4. "setUserSkills" \in DOMAIN RoutingCalls /\ RoutingCalls["setUserSkills"] = Puts(<<"skills", "users", "x">>)
    BY DEF RoutingCalls
  <2>5. QED
    BY <1>0, <2>2, <2>3, <2>4, PutRoute
<1>7. Asks("slaPolicies", Needs("settings:manage"))
  <2>1. /\ Serves(SlaRoutes[1], "GET", <<"sla", "policies">>)
        /\ \A j \in DOMAIN SlaRoutes : Serves(SlaRoutes[j], "GET", <<"sla", "policies">>) => 1 <= j
    BY <1>0, SlaServes
  <2>2. RouteOf("GET", <<"sla", "policies">>) = {SlaRoutes[1]}
    BY <2>1, SlaAnswers
  <2>3. SlaRoutes[1].need = Needs("settings:manage")
    BY DEF SlaRoutes, GET
  <2>4. "slaPolicies" \in DOMAIN RoutingCalls /\ RoutingCalls["slaPolicies"] = Fetches(<<"sla", "policies">>)
    BY DEF RoutingCalls
  <2>5. QED
    BY <1>0, <2>2, <2>3, <2>4, FetchedRoute
<1>8. Asks("createSlaPolicy", Needs("settings:manage"))
  <2>1. /\ Serves(SlaRoutes[2], "POST", <<"sla", "policies">>)
        /\ \A j \in DOMAIN SlaRoutes : Serves(SlaRoutes[j], "POST", <<"sla", "policies">>) => 2 <= j
    BY <1>0, SlaServes
  <2>2. RouteOf("POST", <<"sla", "policies">>) = {SlaRoutes[2]}
    BY <2>1, SlaAnswers
  <2>3. SlaRoutes[2].need = Needs("settings:manage")
    BY DEF SlaRoutes, POST
  <2>4. "createSlaPolicy" \in DOMAIN RoutingCalls /\ RoutingCalls["createSlaPolicy"] = Posts(<<"sla", "policies">>)
    BY DEF RoutingCalls
  <2>5. QED
    BY <1>0, <2>2, <2>3, <2>4, PostedRoute
<1>9. QED
  BY <1>1, <1>2, <1>3, <1>4, <1>5, <1>6, <1>7, <1>8

LEMMA ReportCallsAsk ==
  /\ Asks("reportSummary", Needs("reports:read"))
  /\ Asks("reportStages", Needs("reports:read"))
  /\ Asks("reportHeatmap", Needs("reports:read"))
  /\ Asks("listReportSchedules", SchedulesReports)
  /\ Asks("createReportSchedule", SchedulesReports)
  /\ Asks("updateReportSchedule", SchedulesReports)
  /\ Asks("deleteReportSchedule", SchedulesReports)
  /\ Asks("runReportSchedule", SchedulesReports)
<1>0. /\ ReportCalls \in Api
      /\ DOMAIN ReportRoutes = 1..12
    BY DEF Api, ReportRoutes
<1>1. Asks("reportSummary", Needs("reports:read"))
  <2>1. /\ Serves(ReportRoutes[2], "GET", <<"reports", "summary">>)
        /\ \A j \in DOMAIN ReportRoutes : Serves(ReportRoutes[j], "GET", <<"reports", "summary">>) => 2 <= j
    BY <1>0, ReportServes
  <2>2. RouteOf("GET", <<"reports", "summary">>) = {ReportRoutes[2]}
    BY <2>1, ReportAnswers
  <2>3. ReportRoutes[2].need = Needs("reports:read")
    BY DEF ReportRoutes, GET
  <2>4. "reportSummary" \in DOMAIN ReportCalls /\ ReportCalls["reportSummary"] = Fetches(<<"reports", "summary">>)
    BY DEF ReportCalls
  <2>5. QED
    BY <1>0, <2>2, <2>3, <2>4, FetchedRoute
<1>2. Asks("reportStages", Needs("reports:read"))
  <2>1. /\ Serves(ReportRoutes[4], "GET", <<"reports", "stages">>)
        /\ \A j \in DOMAIN ReportRoutes : Serves(ReportRoutes[j], "GET", <<"reports", "stages">>) => 4 <= j
    BY <1>0, ReportServes
  <2>2. RouteOf("GET", <<"reports", "stages">>) = {ReportRoutes[4]}
    BY <2>1, ReportAnswers
  <2>3. ReportRoutes[4].need = Needs("reports:read")
    BY DEF ReportRoutes, GET
  <2>4. "reportStages" \in DOMAIN ReportCalls /\ ReportCalls["reportStages"] = Fetches(<<"reports", "stages">>)
    BY DEF ReportCalls
  <2>5. QED
    BY <1>0, <2>2, <2>3, <2>4, FetchedRoute
<1>3. Asks("reportHeatmap", Needs("reports:read"))
  <2>1. /\ Serves(ReportRoutes[5], "GET", <<"reports", "heatmap">>)
        /\ \A j \in DOMAIN ReportRoutes : Serves(ReportRoutes[j], "GET", <<"reports", "heatmap">>) => 5 <= j
    BY <1>0, ReportServes
  <2>2. RouteOf("GET", <<"reports", "heatmap">>) = {ReportRoutes[5]}
    BY <2>1, ReportAnswers
  <2>3. ReportRoutes[5].need = Needs("reports:read")
    BY DEF ReportRoutes, GET
  <2>4. "reportHeatmap" \in DOMAIN ReportCalls /\ ReportCalls["reportHeatmap"] = Fetches(<<"reports", "heatmap">>)
    BY DEF ReportCalls
  <2>5. QED
    BY <1>0, <2>2, <2>3, <2>4, FetchedRoute
<1>4. Asks("listReportSchedules", SchedulesReports)
  <2>1. /\ Serves(ReportRoutes[8], "GET", <<"reports", "schedules">>)
        /\ \A j \in DOMAIN ReportRoutes : Serves(ReportRoutes[j], "GET", <<"reports", "schedules">>) => 8 <= j
    BY <1>0, ReportServes
  <2>2. RouteOf("GET", <<"reports", "schedules">>) = {ReportRoutes[8]}
    BY <2>1, ReportAnswers
  <2>3. ReportRoutes[8].need = SchedulesReports
    BY DEF ReportRoutes, GET
  <2>4. "listReportSchedules" \in DOMAIN ReportCalls /\ ReportCalls["listReportSchedules"] = Fetches(<<"reports", "schedules">>)
    BY DEF ReportCalls
  <2>5. QED
    BY <1>0, <2>2, <2>3, <2>4, FetchedRoute
<1>5. Asks("createReportSchedule", SchedulesReports)
  <2>1. /\ Serves(ReportRoutes[9], "POST", <<"reports", "schedules">>)
        /\ \A j \in DOMAIN ReportRoutes : Serves(ReportRoutes[j], "POST", <<"reports", "schedules">>) => 9 <= j
    BY <1>0, ReportServes
  <2>2. RouteOf("POST", <<"reports", "schedules">>) = {ReportRoutes[9]}
    BY <2>1, ReportAnswers
  <2>3. ReportRoutes[9].need = SchedulesReports
    BY DEF ReportRoutes, POST
  <2>4. "createReportSchedule" \in DOMAIN ReportCalls /\ ReportCalls["createReportSchedule"] = Posts(<<"reports", "schedules">>)
    BY DEF ReportCalls
  <2>5. QED
    BY <1>0, <2>2, <2>3, <2>4, PostedRoute
<1>6. Asks("updateReportSchedule", SchedulesReports)
  <2>1. /\ Serves(ReportRoutes[10], "PATCH", <<"reports", "schedules", "x">>)
        /\ \A j \in DOMAIN ReportRoutes : Serves(ReportRoutes[j], "PATCH", <<"reports", "schedules", "x">>) => 10 <= j
    BY <1>0, ReportServes
  <2>2. RouteOf("PATCH", <<"reports", "schedules", "x">>) = {ReportRoutes[10]}
    BY <2>1, ReportAnswers
  <2>3. ReportRoutes[10].need = SchedulesReports
    BY DEF ReportRoutes, PATCH
  <2>4. "updateReportSchedule" \in DOMAIN ReportCalls /\ ReportCalls["updateReportSchedule"] = Patches(<<"reports", "schedules", "x">>)
    BY DEF ReportCalls
  <2>5. QED
    BY <1>0, <2>2, <2>3, <2>4, PatchedRoute
<1>7. Asks("deleteReportSchedule", SchedulesReports)
  <2>1. /\ Serves(ReportRoutes[11], "DELETE", <<"reports", "schedules", "x">>)
        /\ \A j \in DOMAIN ReportRoutes : Serves(ReportRoutes[j], "DELETE", <<"reports", "schedules", "x">>) => 11 <= j
    BY <1>0, ReportServes
  <2>2. RouteOf("DELETE", <<"reports", "schedules", "x">>) = {ReportRoutes[11]}
    BY <2>1, ReportAnswers
  <2>3. ReportRoutes[11].need = SchedulesReports
    BY DEF ReportRoutes, DELETE
  <2>4. "deleteReportSchedule" \in DOMAIN ReportCalls /\ ReportCalls["deleteReportSchedule"] = Deletes(<<"reports", "schedules", "x">>)
    BY DEF ReportCalls
  <2>5. QED
    BY <1>0, <2>2, <2>3, <2>4, DeletedRoute
<1>8. Asks("runReportSchedule", SchedulesReports)
  <2>1. /\ Serves(ReportRoutes[12], "POST", <<"reports", "schedules", "x", "run">>)
        /\ \A j \in DOMAIN ReportRoutes : Serves(ReportRoutes[j], "POST", <<"reports", "schedules", "x", "run">>) => 12 <= j
    BY <1>0, ReportServes
  <2>2. RouteOf("POST", <<"reports", "schedules", "x", "run">>) = {ReportRoutes[12]}
    BY <2>1, ReportAnswers
  <2>3. ReportRoutes[12].need = SchedulesReports
    BY DEF ReportRoutes, POST
  <2>4. "runReportSchedule" \in DOMAIN ReportCalls /\ ReportCalls["runReportSchedule"] = Posts(<<"reports", "schedules", "x", "run">>)
    BY DEF ReportCalls
  <2>5. QED
    BY <1>0, <2>2, <2>3, <2>4, PostedRoute
<1>9. QED
  BY <1>1, <1>2, <1>3, <1>4, <1>5, <1>6, <1>7, <1>8

LEMMA KpiCallsAsk ==
  /\ Asks("reportImsKpis", Needs("reports:read"))
<1>0. /\ KpiCalls \in Api
      /\ DOMAIN ReportRoutes = 1..12
    BY DEF Api, ReportRoutes
<1>1. Asks("reportImsKpis", Needs("reports:read"))
  <2>1. /\ Serves(ReportRoutes[3], "GET", <<"reports", "ims-kpis">>)
        /\ \A j \in DOMAIN ReportRoutes : Serves(ReportRoutes[j], "GET", <<"reports", "ims-kpis">>) => 3 <= j
    BY <1>0, ReportServes
  <2>2. RouteOf("GET", <<"reports", "ims-kpis">>) = {ReportRoutes[3]}
    BY <2>1, ReportAnswers
  <2>3. ReportRoutes[3].need = Needs("reports:read")
    BY DEF ReportRoutes, GET
  <2>4. "reportImsKpis" \in DOMAIN KpiCalls /\ KpiCalls["reportImsKpis"] = Fetches(<<"reports", "ims-kpis">>)
    BY DEF KpiCalls
  <2>5. QED
    BY <1>0, <2>2, <2>3, <2>4, FetchedRoute
<1>2. QED
  BY <1>1

LEMMA DownloadCallsAsk ==
  /\ Asks("downloadReportCsv", Needs("reports:read"))
  /\ Asks("downloadReportPdf", Needs("reports:read"))
  /\ Asks("downloadTicketsCsv", Free)
  /\ Asks("downloadAuditCsv", Needs("audit:read"))
  /\ Asks("reportWorkspace", OneOf({"tickets:read_all", "tickets:read_queue", "reports:read"}))
<1>0. /\ DownloadCalls \in Api
      /\ DOMAIN TicketListRoutes = 1..10
      /\ DOMAIN AuditRoutes = 1..9
      /\ DOMAIN ReportRoutes = 1..12
    BY DEF Api, TicketListRoutes, AuditRoutes, ReportRoutes
<1>1. Asks("downloadReportCsv", Needs("reports:read"))
  <2>1. /\ Serves(ReportRoutes[6], "GET", <<"reports", "export.csv">>)
        /\ \A j \in DOMAIN ReportRoutes : Serves(ReportRoutes[j], "GET", <<"reports", "export.csv">>) => 6 <= j
    BY <1>0, ReportServes
  <2>2. RouteOf("GET", <<"reports", "export.csv">>) = {ReportRoutes[6]}
    BY <2>1, ReportAnswers
  <2>3. ReportRoutes[6].need = Needs("reports:read")
    BY DEF ReportRoutes, GET
  <2>4. "downloadReportCsv" \in DOMAIN DownloadCalls /\ DownloadCalls["downloadReportCsv"] = Fetches(<<"reports", "export.csv">>)
    BY DEF DownloadCalls
  <2>5. QED
    BY <1>0, <2>2, <2>3, <2>4, FetchedRoute
<1>2. Asks("downloadReportPdf", Needs("reports:read"))
  <2>1. /\ Serves(ReportRoutes[7], "GET", <<"reports", "export.pdf">>)
        /\ \A j \in DOMAIN ReportRoutes : Serves(ReportRoutes[j], "GET", <<"reports", "export.pdf">>) => 7 <= j
    BY <1>0, ReportServes
  <2>2. RouteOf("GET", <<"reports", "export.pdf">>) = {ReportRoutes[7]}
    BY <2>1, ReportAnswers
  <2>3. ReportRoutes[7].need = Needs("reports:read")
    BY DEF ReportRoutes, GET
  <2>4. "downloadReportPdf" \in DOMAIN DownloadCalls /\ DownloadCalls["downloadReportPdf"] = Fetches(<<"reports", "export.pdf">>)
    BY DEF DownloadCalls
  <2>5. QED
    BY <1>0, <2>2, <2>3, <2>4, FetchedRoute
<1>3. Asks("downloadTicketsCsv", Free)
  <2>1. /\ Serves(TicketListRoutes[8], "GET", <<"tickets", "export.csv">>)
        /\ \A j \in DOMAIN TicketListRoutes : Serves(TicketListRoutes[j], "GET", <<"tickets", "export.csv">>) => 8 <= j
    BY <1>0, TicketListServes
  <2>2. RouteOf("GET", <<"tickets", "export.csv">>) = {TicketListRoutes[8]}
    BY <2>1, TicketListAnswers
  <2>3. TicketListRoutes[8].need = Free
    BY DEF TicketListRoutes, GET
  <2>4. "downloadTicketsCsv" \in DOMAIN DownloadCalls /\ DownloadCalls["downloadTicketsCsv"] = Fetches(<<"tickets", "export.csv">>)
    BY DEF DownloadCalls
  <2>5. QED
    BY <1>0, <2>2, <2>3, <2>4, FetchedRoute
<1>4. Asks("downloadAuditCsv", Needs("audit:read"))
  <2>1. /\ Serves(AuditRoutes[2], "GET", <<"audit", "export.csv">>)
        /\ \A j \in DOMAIN AuditRoutes : Serves(AuditRoutes[j], "GET", <<"audit", "export.csv">>) => 2 <= j
    BY <1>0, AuditServes
  <2>2. RouteOf("GET", <<"audit", "export.csv">>) = {AuditRoutes[2]}
    BY <2>1, AuditAnswers
  <2>3. AuditRoutes[2].need = Needs("audit:read")
    BY DEF AuditRoutes, GET
  <2>4. "downloadAuditCsv" \in DOMAIN DownloadCalls /\ DownloadCalls["downloadAuditCsv"] = Fetches(<<"audit", "export.csv">>)
    BY DEF DownloadCalls
  <2>5. QED
    BY <1>0, <2>2, <2>3, <2>4, FetchedRoute
<1>5. Asks("reportWorkspace", OneOf({"tickets:read_all", "tickets:read_queue", "reports:read"}))
  <2>1. /\ Serves(ReportRoutes[1], "GET", <<"reports", "workspace">>)
        /\ \A j \in DOMAIN ReportRoutes : Serves(ReportRoutes[j], "GET", <<"reports", "workspace">>) => 1 <= j
    BY <1>0, ReportServes
  <2>2. RouteOf("GET", <<"reports", "workspace">>) = {ReportRoutes[1]}
    BY <2>1, ReportAnswers
  <2>3. ReportRoutes[1].need = OneOf({"tickets:read_all", "tickets:read_queue", "reports:read"})
    BY DEF ReportRoutes, GET
  <2>4. "reportWorkspace" \in DOMAIN DownloadCalls /\ DownloadCalls["reportWorkspace"] = Fetches(<<"reports", "workspace">>)
    BY DEF DownloadCalls
  <2>5. QED
    BY <1>0, <2>2, <2>3, <2>4, FetchedRoute
<1>6. QED
  BY <1>1, <1>2, <1>3, <1>4, <1>5

LEMMA NotificationCallsAsk ==
  /\ Asks("notifications", Free)
  /\ Asks("notificationUnreadCount", Free)
  /\ Asks("markNotificationRead", Free)
  /\ Asks("markAllNotificationsRead", Free)
  /\ Asks("notificationPreferences", Free)
  /\ Asks("setNotificationPreference", Free)
  /\ Asks("notificationDigestSettings", Free)
  /\ Asks("setNotificationDigestSettings", Free)
<1>0. /\ NotificationCalls \in Api
      /\ DOMAIN NotificationRoutes = 1..10
    BY DEF Api, NotificationRoutes
<1>1. Asks("notifications", Free)
  <2>1. /\ Serves(NotificationRoutes[8], "GET", <<"notifications">>)
        /\ \A j \in DOMAIN NotificationRoutes : Serves(NotificationRoutes[j], "GET", <<"notifications">>) => 8 <= j
    BY <1>0, NotificationServes
  <2>2. RouteOf("GET", <<"notifications">>) = {NotificationRoutes[8]}
    BY <2>1, NotificationAnswers
  <2>3. NotificationRoutes[8].need = Free
    BY DEF NotificationRoutes, GET
  <2>4. "notifications" \in DOMAIN NotificationCalls /\ NotificationCalls["notifications"] = Fetches(<<"notifications">>)
    BY DEF NotificationCalls
  <2>5. QED
    BY <1>0, <2>2, <2>3, <2>4, FetchedRoute
<1>2. Asks("notificationUnreadCount", Free)
  <2>1. /\ Serves(NotificationRoutes[6], "GET", <<"notifications", "unread-count">>)
        /\ \A j \in DOMAIN NotificationRoutes : Serves(NotificationRoutes[j], "GET", <<"notifications", "unread-count">>) => 6 <= j
    BY <1>0, NotificationServes
  <2>2. RouteOf("GET", <<"notifications", "unread-count">>) = {NotificationRoutes[6]}
    BY <2>1, NotificationAnswers
  <2>3. NotificationRoutes[6].need = Free
    BY DEF NotificationRoutes, GET
  <2>4. "notificationUnreadCount" \in DOMAIN NotificationCalls /\ NotificationCalls["notificationUnreadCount"] = Fetches(<<"notifications", "unread-count">>)
    BY DEF NotificationCalls
  <2>5. QED
    BY <1>0, <2>2, <2>3, <2>4, FetchedRoute
<1>3. Asks("markNotificationRead", Free)
  <2>1. /\ Serves(NotificationRoutes[10], "POST", <<"notifications", "x", "read">>)
        /\ \A j \in DOMAIN NotificationRoutes : Serves(NotificationRoutes[j], "POST", <<"notifications", "x", "read">>) => 10 <= j
    BY <1>0, NotificationServes
  <2>2. RouteOf("POST", <<"notifications", "x", "read">>) = {NotificationRoutes[10]}
    BY <2>1, NotificationAnswers
  <2>3. NotificationRoutes[10].need = Free
    BY DEF NotificationRoutes, POST
  <2>4. "markNotificationRead" \in DOMAIN NotificationCalls /\ NotificationCalls["markNotificationRead"] = Posts(<<"notifications", "x", "read">>)
    BY DEF NotificationCalls
  <2>5. QED
    BY <1>0, <2>2, <2>3, <2>4, PostedRoute
<1>4. Asks("markAllNotificationsRead", Free)
  <2>1. /\ Serves(NotificationRoutes[9], "POST", <<"notifications", "read-all">>)
        /\ \A j \in DOMAIN NotificationRoutes : Serves(NotificationRoutes[j], "POST", <<"notifications", "read-all">>) => 9 <= j
    BY <1>0, NotificationServes
  <2>2. RouteOf("POST", <<"notifications", "read-all">>) = {NotificationRoutes[9]}
    BY <2>1, NotificationAnswers
  <2>3. NotificationRoutes[9].need = Free
    BY DEF NotificationRoutes, POST
  <2>4. "markAllNotificationsRead" \in DOMAIN NotificationCalls /\ NotificationCalls["markAllNotificationsRead"] = Posts(<<"notifications", "read-all">>)
    BY DEF NotificationCalls
  <2>5. QED
    BY <1>0, <2>2, <2>3, <2>4, PostedRoute
<1>5. Asks("notificationPreferences", Free)
  <2>1. /\ Serves(NotificationRoutes[1], "GET", <<"notifications", "preferences">>)
        /\ \A j \in DOMAIN NotificationRoutes : Serves(NotificationRoutes[j], "GET", <<"notifications", "preferences">>) => 1 <= j
    BY <1>0, NotificationServes
  <2>2. RouteOf("GET", <<"notifications", "preferences">>) = {NotificationRoutes[1]}
    BY <2>1, NotificationAnswers
  <2>3. NotificationRoutes[1].need = Free
    BY DEF NotificationRoutes, GET
  <2>4. "notificationPreferences" \in DOMAIN NotificationCalls /\ NotificationCalls["notificationPreferences"] = Fetches(<<"notifications", "preferences">>)
    BY DEF NotificationCalls
  <2>5. QED
    BY <1>0, <2>2, <2>3, <2>4, FetchedRoute
<1>6. Asks("setNotificationPreference", Free)
  <2>1. /\ Serves(NotificationRoutes[7], "PATCH", <<"notifications", "preferences">>)
        /\ \A j \in DOMAIN NotificationRoutes : Serves(NotificationRoutes[j], "PATCH", <<"notifications", "preferences">>) => 7 <= j
    BY <1>0, NotificationServes
  <2>2. RouteOf("PATCH", <<"notifications", "preferences">>) = {NotificationRoutes[7]}
    BY <2>1, NotificationAnswers
  <2>3. NotificationRoutes[7].need = Free
    BY DEF NotificationRoutes, PATCH
  <2>4. "setNotificationPreference" \in DOMAIN NotificationCalls /\ NotificationCalls["setNotificationPreference"] = Patches(<<"notifications", "preferences">>)
    BY DEF NotificationCalls
  <2>5. QED
    BY <1>0, <2>2, <2>3, <2>4, PatchedRoute
<1>7. Asks("notificationDigestSettings", Free)
  <2>1. /\ Serves(NotificationRoutes[2], "GET", <<"notifications", "digest">>)
        /\ \A j \in DOMAIN NotificationRoutes : Serves(NotificationRoutes[j], "GET", <<"notifications", "digest">>) => 2 <= j
    BY <1>0, NotificationServes
  <2>2. RouteOf("GET", <<"notifications", "digest">>) = {NotificationRoutes[2]}
    BY <2>1, NotificationAnswers
  <2>3. NotificationRoutes[2].need = Free
    BY DEF NotificationRoutes, GET
  <2>4. "notificationDigestSettings" \in DOMAIN NotificationCalls /\ NotificationCalls["notificationDigestSettings"] = Fetches(<<"notifications", "digest">>)
    BY DEF NotificationCalls
  <2>5. QED
    BY <1>0, <2>2, <2>3, <2>4, FetchedRoute
<1>8. Asks("setNotificationDigestSettings", Free)
  <2>1. /\ Serves(NotificationRoutes[3], "PATCH", <<"notifications", "digest">>)
        /\ \A j \in DOMAIN NotificationRoutes : Serves(NotificationRoutes[j], "PATCH", <<"notifications", "digest">>) => 3 <= j
    BY <1>0, NotificationServes
  <2>2. RouteOf("PATCH", <<"notifications", "digest">>) = {NotificationRoutes[3]}
    BY <2>1, NotificationAnswers
  <2>3. NotificationRoutes[3].need = Free
    BY DEF NotificationRoutes, PATCH
  <2>4. "setNotificationDigestSettings" \in DOMAIN NotificationCalls /\ NotificationCalls["setNotificationDigestSettings"] = Patches(<<"notifications", "digest">>)
    BY DEF NotificationCalls
  <2>5. QED
    BY <1>0, <2>2, <2>3, <2>4, PatchedRoute
<1>9. QED
  BY <1>1, <1>2, <1>3, <1>4, <1>5, <1>6, <1>7, <1>8

LEMMA KnowledgeCallsAsk ==
  /\ Asks("knowledge", Free)
  /\ Asks("getKnowledge", Free)
  /\ Asks("knowledgeFeedback", Needs("knowledge:read"))
  /\ Asks("knowledgeDeflectionAnalytics", Needs("reports:read"))
<1>0. /\ KnowledgeCalls \in Api
      /\ DOMAIN KnowledgeRoutes = 1..12
    BY DEF Api, KnowledgeRoutes
<1>1. Asks("knowledge", Free)
  <2>1. /\ Serves(KnowledgeRoutes[1], "GET", <<"knowledge">>)
        /\ \A j \in DOMAIN KnowledgeRoutes : Serves(KnowledgeRoutes[j], "GET", <<"knowledge">>) => 1 <= j
    BY <1>0, KnowledgeServes
  <2>2. RouteOf("GET", <<"knowledge">>) = {KnowledgeRoutes[1]}
    BY <2>1, KnowledgeAnswers
  <2>3. KnowledgeRoutes[1].need = Free
    BY DEF KnowledgeRoutes, GET
  <2>4. "knowledge" \in DOMAIN KnowledgeCalls /\ KnowledgeCalls["knowledge"] = Fetches(<<"knowledge">>)
    BY DEF KnowledgeCalls
  <2>5. QED
    BY <1>0, <2>2, <2>3, <2>4, FetchedRoute
<1>2. Asks("getKnowledge", Free)
  <2>1. /\ Serves(KnowledgeRoutes[8], "GET", <<"knowledge", "x">>)
        /\ \A j \in DOMAIN KnowledgeRoutes : Serves(KnowledgeRoutes[j], "GET", <<"knowledge", "x">>) => 8 <= j
    BY <1>0, KnowledgeServes
  <2>2. RouteOf("GET", <<"knowledge", "x">>) = {KnowledgeRoutes[8]}
    BY <2>1, KnowledgeAnswers
  <2>3. KnowledgeRoutes[8].need = Free
    BY DEF KnowledgeRoutes, GET
  <2>4. "getKnowledge" \in DOMAIN KnowledgeCalls /\ KnowledgeCalls["getKnowledge"] = Fetches(<<"knowledge", "x">>)
    BY DEF KnowledgeCalls
  <2>5. QED
    BY <1>0, <2>2, <2>3, <2>4, FetchedRoute
<1>3. Asks("knowledgeFeedback", Needs("knowledge:read"))
  <2>1. /\ Serves(KnowledgeRoutes[9], "POST", <<"knowledge", "x", "feedback">>)
        /\ \A j \in DOMAIN KnowledgeRoutes : Serves(KnowledgeRoutes[j], "POST", <<"knowledge", "x", "feedback">>) => 9 <= j
    BY <1>0, KnowledgeServes
  <2>2. RouteOf("POST", <<"knowledge", "x", "feedback">>) = {KnowledgeRoutes[9]}
    BY <2>1, KnowledgeAnswers
  <2>3. KnowledgeRoutes[9].need = Needs("knowledge:read")
    BY DEF KnowledgeRoutes, POST
  <2>4. "knowledgeFeedback" \in DOMAIN KnowledgeCalls /\ KnowledgeCalls["knowledgeFeedback"] = Posts(<<"knowledge", "x", "feedback">>)
    BY DEF KnowledgeCalls
  <2>5. QED
    BY <1>0, <2>2, <2>3, <2>4, PostedRoute
<1>4. Asks("knowledgeDeflectionAnalytics", Needs("reports:read"))
  <2>1. /\ Serves(KnowledgeRoutes[2], "GET", <<"knowledge", "analytics", "deflection">>)
        /\ \A j \in DOMAIN KnowledgeRoutes : Serves(KnowledgeRoutes[j], "GET", <<"knowledge", "analytics", "deflection">>) => 2 <= j
    BY <1>0, KnowledgeServes
  <2>2. RouteOf("GET", <<"knowledge", "analytics", "deflection">>) = {KnowledgeRoutes[2]}
    BY <2>1, KnowledgeAnswers
  <2>3. KnowledgeRoutes[2].need = Needs("reports:read")
    BY DEF KnowledgeRoutes, GET
  <2>4. "knowledgeDeflectionAnalytics" \in DOMAIN KnowledgeCalls /\ KnowledgeCalls["knowledgeDeflectionAnalytics"] = Fetches(<<"knowledge", "analytics", "deflection">>)
    BY DEF KnowledgeCalls
  <2>5. QED
    BY <1>0, <2>2, <2>3, <2>4, FetchedRoute
<1>5. QED
  BY <1>1, <1>2, <1>3, <1>4

LEMMA AiCallsAsk ==
  /\ Asks("aiClassify", OneOf(Writes))
  /\ Asks("aiSummarize", OneOf(Writes))
  /\ Asks("aiDuplicates", OneOf(Writes))
  /\ Asks("aiSlaRisk", Needs("tickets:read_queue"))
  /\ Asks("aiSuggestKnowledge", Needs("knowledge:read"))
<1>0. /\ AiCalls \in Api
      /\ DOMAIN AiRoutes = 1..6
    BY DEF Api, AiRoutes
<1>1. Asks("aiClassify", OneOf(Writes))
  <2>1. /\ Serves(AiRoutes[2], "POST", <<"ai", "assist", "classify">>)
        /\ \A j \in DOMAIN AiRoutes : Serves(AiRoutes[j], "POST", <<"ai", "assist", "classify">>) => 2 <= j
    BY <1>0, AiServes
  <2>2. RouteOf("POST", <<"ai", "assist", "classify">>) = {AiRoutes[2]}
    BY <2>1, AiAnswers
  <2>3. AiRoutes[2].need = OneOf(Writes)
    BY DEF AiRoutes, POST
  <2>4. "aiClassify" \in DOMAIN AiCalls /\ AiCalls["aiClassify"] = Posts(<<"ai", "assist", "classify">>)
    BY DEF AiCalls
  <2>5. QED
    BY <1>0, <2>2, <2>3, <2>4, PostedRoute
<1>2. Asks("aiSummarize", OneOf(Writes))
  <2>1. /\ Serves(AiRoutes[3], "POST", <<"ai", "assist", "summarize">>)
        /\ \A j \in DOMAIN AiRoutes : Serves(AiRoutes[j], "POST", <<"ai", "assist", "summarize">>) => 3 <= j
    BY <1>0, AiServes
  <2>2. RouteOf("POST", <<"ai", "assist", "summarize">>) = {AiRoutes[3]}
    BY <2>1, AiAnswers
  <2>3. AiRoutes[3].need = OneOf(Writes)
    BY DEF AiRoutes, POST
  <2>4. "aiSummarize" \in DOMAIN AiCalls /\ AiCalls["aiSummarize"] = Posts(<<"ai", "assist", "summarize">>)
    BY DEF AiCalls
  <2>5. QED
    BY <1>0, <2>2, <2>3, <2>4, PostedRoute
<1>3. Asks("aiDuplicates", OneOf(Writes))
  <2>1. /\ Serves(AiRoutes[4], "POST", <<"ai", "assist", "duplicates">>)
        /\ \A j \in DOMAIN AiRoutes : Serves(AiRoutes[j], "POST", <<"ai", "assist", "duplicates">>) => 4 <= j
    BY <1>0, AiServes
  <2>2. RouteOf("POST", <<"ai", "assist", "duplicates">>) = {AiRoutes[4]}
    BY <2>1, AiAnswers
  <2>3. AiRoutes[4].need = OneOf(Writes)
    BY DEF AiRoutes, POST
  <2>4. "aiDuplicates" \in DOMAIN AiCalls /\ AiCalls["aiDuplicates"] = Posts(<<"ai", "assist", "duplicates">>)
    BY DEF AiCalls
  <2>5. QED
    BY <1>0, <2>2, <2>3, <2>4, PostedRoute
<1>4. Asks("aiSlaRisk", Needs("tickets:read_queue"))
  <2>1. /\ Serves(AiRoutes[6], "GET", <<"ai", "assist", "sla-risk", "x">>)
        /\ \A j \in DOMAIN AiRoutes : Serves(AiRoutes[j], "GET", <<"ai", "assist", "sla-risk", "x">>) => 6 <= j
    BY <1>0, AiServes
  <2>2. RouteOf("GET", <<"ai", "assist", "sla-risk", "x">>) = {AiRoutes[6]}
    BY <2>1, AiAnswers
  <2>3. AiRoutes[6].need = Needs("tickets:read_queue")
    BY DEF AiRoutes, GET
  <2>4. "aiSlaRisk" \in DOMAIN AiCalls /\ AiCalls["aiSlaRisk"] = Fetches(<<"ai", "assist", "sla-risk", "x">>)
    BY DEF AiCalls
  <2>5. QED
    BY <1>0, <2>2, <2>3, <2>4, FetchedRoute
<1>5. Asks("aiSuggestKnowledge", Needs("knowledge:read"))
  <2>1. /\ Serves(AiRoutes[5], "POST", <<"ai", "assist", "knowledge">>)
        /\ \A j \in DOMAIN AiRoutes : Serves(AiRoutes[j], "POST", <<"ai", "assist", "knowledge">>) => 5 <= j
    BY <1>0, AiServes
  <2>2. RouteOf("POST", <<"ai", "assist", "knowledge">>) = {AiRoutes[5]}
    BY <2>1, AiAnswers
  <2>3. AiRoutes[5].need = Needs("knowledge:read")
    BY DEF AiRoutes, POST
  <2>4. "aiSuggestKnowledge" \in DOMAIN AiCalls /\ AiCalls["aiSuggestKnowledge"] = Posts(<<"ai", "assist", "knowledge">>)
    BY DEF AiCalls
  <2>5. QED
    BY <1>0, <2>2, <2>3, <2>4, PostedRoute
<1>6. QED
  BY <1>1, <1>2, <1>3, <1>4, <1>5

LEMMA ArticleCallsAsk ==
  /\ Asks("createKnowledge", Needs("knowledge:write"))
  /\ Asks("updateKnowledge", Needs("knowledge:write"))
  /\ Asks("publishKnowledge", Needs("knowledge:write"))
  /\ Asks("listKnowledgeAttachments", OneOf({"knowledge:read", "knowledge:write"}))
  /\ Asks("uploadKnowledgeMedia", Needs("knowledge:write"))
  /\ Asks("uploadKnowledgeAttachment", Needs("knowledge:write"))
  /\ Asks("downloadKnowledgeAttachment", OneOf({"knowledge:read", "knowledge:write"}))
<1>0. /\ ArticleCalls \in Api
      /\ DOMAIN KnowledgeRoutes = 1..12
    BY DEF Api, KnowledgeRoutes
<1>1. Asks("createKnowledge", Needs("knowledge:write"))
  <2>1. /\ Serves(KnowledgeRoutes[10], "POST", <<"knowledge">>)
        /\ \A j \in DOMAIN KnowledgeRoutes : Serves(KnowledgeRoutes[j], "POST", <<"knowledge">>) => 10 <= j
    BY <1>0, KnowledgeServes
  <2>2. RouteOf("POST", <<"knowledge">>) = {KnowledgeRoutes[10]}
    BY <2>1, KnowledgeAnswers
  <2>3. KnowledgeRoutes[10].need = Needs("knowledge:write")
    BY DEF KnowledgeRoutes, POST
  <2>4. "createKnowledge" \in DOMAIN ArticleCalls /\ ArticleCalls["createKnowledge"] = Posts(<<"knowledge">>)
    BY DEF ArticleCalls
  <2>5. QED
    BY <1>0, <2>2, <2>3, <2>4, PostedRoute
<1>2. Asks("updateKnowledge", Needs("knowledge:write"))
  <2>1. /\ Serves(KnowledgeRoutes[11], "PATCH", <<"knowledge", "x">>)
        /\ \A j \in DOMAIN KnowledgeRoutes : Serves(KnowledgeRoutes[j], "PATCH", <<"knowledge", "x">>) => 11 <= j
    BY <1>0, KnowledgeServes
  <2>2. RouteOf("PATCH", <<"knowledge", "x">>) = {KnowledgeRoutes[11]}
    BY <2>1, KnowledgeAnswers
  <2>3. KnowledgeRoutes[11].need = Needs("knowledge:write")
    BY DEF KnowledgeRoutes, PATCH
  <2>4. "updateKnowledge" \in DOMAIN ArticleCalls /\ ArticleCalls["updateKnowledge"] = Patches(<<"knowledge", "x">>)
    BY DEF ArticleCalls
  <2>5. QED
    BY <1>0, <2>2, <2>3, <2>4, PatchedRoute
<1>3. Asks("publishKnowledge", Needs("knowledge:write"))
  <2>1. /\ Serves(KnowledgeRoutes[12], "POST", <<"knowledge", "x", "publish">>)
        /\ \A j \in DOMAIN KnowledgeRoutes : Serves(KnowledgeRoutes[j], "POST", <<"knowledge", "x", "publish">>) => 12 <= j
    BY <1>0, KnowledgeServes
  <2>2. RouteOf("POST", <<"knowledge", "x", "publish">>) = {KnowledgeRoutes[12]}
    BY <2>1, KnowledgeAnswers
  <2>3. KnowledgeRoutes[12].need = Needs("knowledge:write")
    BY DEF KnowledgeRoutes, POST
  <2>4. "publishKnowledge" \in DOMAIN ArticleCalls /\ ArticleCalls["publishKnowledge"] = Posts(<<"knowledge", "x", "publish">>)
    BY DEF ArticleCalls
  <2>5. QED
    BY <1>0, <2>2, <2>3, <2>4, PostedRoute
<1>4. Asks("listKnowledgeAttachments", OneOf({"knowledge:read", "knowledge:write"}))
  <2>1. /\ Serves(KnowledgeRoutes[6], "GET", <<"knowledge", "x", "attachments">>)
        /\ \A j \in DOMAIN KnowledgeRoutes : Serves(KnowledgeRoutes[j], "GET", <<"knowledge", "x", "attachments">>) => 6 <= j
    BY <1>0, KnowledgeServes
  <2>2. RouteOf("GET", <<"knowledge", "x", "attachments">>) = {KnowledgeRoutes[6]}
    BY <2>1, KnowledgeAnswers
  <2>3. KnowledgeRoutes[6].need = OneOf({"knowledge:read", "knowledge:write"})
    BY DEF KnowledgeRoutes, GET
  <2>4. "listKnowledgeAttachments" \in DOMAIN ArticleCalls /\ ArticleCalls["listKnowledgeAttachments"] = Fetches(<<"knowledge", "x", "attachments">>)
    BY DEF ArticleCalls
  <2>5. QED
    BY <1>0, <2>2, <2>3, <2>4, FetchedRoute
<1>5. Asks("uploadKnowledgeMedia", Needs("knowledge:write"))
  <2>1. /\ Serves(KnowledgeRoutes[3], "POST", <<"knowledge", "media">>)
        /\ \A j \in DOMAIN KnowledgeRoutes : Serves(KnowledgeRoutes[j], "POST", <<"knowledge", "media">>) => 3 <= j
    BY <1>0, KnowledgeServes
  <2>2. RouteOf("POST", <<"knowledge", "media">>) = {KnowledgeRoutes[3]}
    BY <2>1, KnowledgeAnswers
  <2>3. KnowledgeRoutes[3].need = Needs("knowledge:write")
    BY DEF KnowledgeRoutes, POST
  <2>4. "uploadKnowledgeMedia" \in DOMAIN ArticleCalls /\ ArticleCalls["uploadKnowledgeMedia"] = Posts(<<"knowledge", "media">>)
    BY DEF ArticleCalls
  <2>5. QED
    BY <1>0, <2>2, <2>3, <2>4, PostedRoute
<1>6. Asks("uploadKnowledgeAttachment", Needs("knowledge:write"))
  <2>1. /\ Serves(KnowledgeRoutes[7], "POST", <<"knowledge", "x", "attachments">>)
        /\ \A j \in DOMAIN KnowledgeRoutes : Serves(KnowledgeRoutes[j], "POST", <<"knowledge", "x", "attachments">>) => 7 <= j
    BY <1>0, KnowledgeServes
  <2>2. RouteOf("POST", <<"knowledge", "x", "attachments">>) = {KnowledgeRoutes[7]}
    BY <2>1, KnowledgeAnswers
  <2>3. KnowledgeRoutes[7].need = Needs("knowledge:write")
    BY DEF KnowledgeRoutes, POST
  <2>4. "uploadKnowledgeAttachment" \in DOMAIN ArticleCalls /\ ArticleCalls["uploadKnowledgeAttachment"] = Posts(<<"knowledge", "x", "attachments">>)
    BY DEF ArticleCalls
  <2>5. QED
    BY <1>0, <2>2, <2>3, <2>4, PostedRoute
<1>7. Asks("downloadKnowledgeAttachment", OneOf({"knowledge:read", "knowledge:write"}))
  <2>1. /\ Serves(KnowledgeRoutes[5], "GET", <<"knowledge", "attachments", "x", "download">>)
        /\ \A j \in DOMAIN KnowledgeRoutes : Serves(KnowledgeRoutes[j], "GET", <<"knowledge", "attachments", "x", "download">>) => 5 <= j
    BY <1>0, KnowledgeServes
  <2>2. RouteOf("GET", <<"knowledge", "attachments", "x", "download">>) = {KnowledgeRoutes[5]}
    BY <2>1, KnowledgeAnswers
  <2>3. KnowledgeRoutes[5].need = OneOf({"knowledge:read", "knowledge:write"})
    BY DEF KnowledgeRoutes, GET
  <2>4. "downloadKnowledgeAttachment" \in DOMAIN ArticleCalls /\ ArticleCalls["downloadKnowledgeAttachment"] = Fetches(<<"knowledge", "attachments", "x", "download">>)
    BY DEF ArticleCalls
  <2>5. QED
    BY <1>0, <2>2, <2>3, <2>4, FetchedRoute
<1>8. QED
  BY <1>1, <1>2, <1>3, <1>4, <1>5, <1>6, <1>7

LEMMA CatalogCallsAsk ==
  /\ Asks("catalog", Free)
  /\ Asks("createCatalogItem", Needs("settings:manage"))
  /\ Asks("updateCatalogItem", Needs("settings:manage"))
  /\ Asks("requestCatalogItem", OneOf(Writes))
<1>0. /\ CatalogCalls \in Api
      /\ DOMAIN CatalogRoutes = 1..4
    BY DEF Api, CatalogRoutes
<1>1. Asks("catalog", Free)
  <2>1. /\ Serves(CatalogRoutes[1], "GET", <<"catalog">>)
        /\ \A j \in DOMAIN CatalogRoutes : Serves(CatalogRoutes[j], "GET", <<"catalog">>) => 1 <= j
    BY <1>0, CatalogServes
  <2>2. RouteOf("GET", <<"catalog">>) = {CatalogRoutes[1]}
    BY <2>1, CatalogAnswers
  <2>3. CatalogRoutes[1].need = Free
    BY DEF CatalogRoutes, GET
  <2>4. "catalog" \in DOMAIN CatalogCalls /\ CatalogCalls["catalog"] = Fetches(<<"catalog">>)
    BY DEF CatalogCalls
  <2>5. QED
    BY <1>0, <2>2, <2>3, <2>4, FetchedRoute
<1>2. Asks("createCatalogItem", Needs("settings:manage"))
  <2>1. /\ Serves(CatalogRoutes[2], "POST", <<"catalog">>)
        /\ \A j \in DOMAIN CatalogRoutes : Serves(CatalogRoutes[j], "POST", <<"catalog">>) => 2 <= j
    BY <1>0, CatalogServes
  <2>2. RouteOf("POST", <<"catalog">>) = {CatalogRoutes[2]}
    BY <2>1, CatalogAnswers
  <2>3. CatalogRoutes[2].need = Needs("settings:manage")
    BY DEF CatalogRoutes, POST
  <2>4. "createCatalogItem" \in DOMAIN CatalogCalls /\ CatalogCalls["createCatalogItem"] = Posts(<<"catalog">>)
    BY DEF CatalogCalls
  <2>5. QED
    BY <1>0, <2>2, <2>3, <2>4, PostedRoute
<1>3. Asks("updateCatalogItem", Needs("settings:manage"))
  <2>1. /\ Serves(CatalogRoutes[3], "PATCH", <<"catalog", "x">>)
        /\ \A j \in DOMAIN CatalogRoutes : Serves(CatalogRoutes[j], "PATCH", <<"catalog", "x">>) => 3 <= j
    BY <1>0, CatalogServes
  <2>2. RouteOf("PATCH", <<"catalog", "x">>) = {CatalogRoutes[3]}
    BY <2>1, CatalogAnswers
  <2>3. CatalogRoutes[3].need = Needs("settings:manage")
    BY DEF CatalogRoutes, PATCH
  <2>4. "updateCatalogItem" \in DOMAIN CatalogCalls /\ CatalogCalls["updateCatalogItem"] = Patches(<<"catalog", "x">>)
    BY DEF CatalogCalls
  <2>5. QED
    BY <1>0, <2>2, <2>3, <2>4, PatchedRoute
<1>4. Asks("requestCatalogItem", OneOf(Writes))
  <2>1. /\ Serves(CatalogRoutes[4], "POST", <<"catalog", "x", "request">>)
        /\ \A j \in DOMAIN CatalogRoutes : Serves(CatalogRoutes[j], "POST", <<"catalog", "x", "request">>) => 4 <= j
    BY <1>0, CatalogServes
  <2>2. RouteOf("POST", <<"catalog", "x", "request">>) = {CatalogRoutes[4]}
    BY <2>1, CatalogAnswers
  <2>3. CatalogRoutes[4].need = OneOf(Writes)
    BY DEF CatalogRoutes, POST
  <2>4. "requestCatalogItem" \in DOMAIN CatalogCalls /\ CatalogCalls["requestCatalogItem"] = Posts(<<"catalog", "x", "request">>)
    BY DEF CatalogCalls
  <2>5. QED
    BY <1>0, <2>2, <2>3, <2>4, PostedRoute
<1>5. QED
  BY <1>1, <1>2, <1>3, <1>4

LEMMA AssetCallsAsk ==
  /\ Asks("assets", Needs("assets:read"))
  /\ Asks("asset", Needs("assets:read"))
  /\ Asks("assetTypes", Needs("assets:read"))
  /\ Asks("assetStatuses", Needs("assets:read"))
  /\ Asks("assetAssignees", Needs("assets:write"))
  /\ Asks("createAsset", Needs("assets:write"))
  /\ Asks("updateAsset", Needs("assets:write"))
  /\ Asks("deleteAsset", Needs("assets:write"))
  /\ Asks("downloadAssetsCsv", Needs("assets:read"))
  /\ Asks("linkAssetToTicket", Needs("assets:write"))
  /\ Asks("assetRelationTypes", Needs("assets:read"))
  /\ Asks("assetRelations", Needs("assets:read"))
  /\ Asks("createAssetRelation", Needs("assets:write"))
  /\ Asks("deleteAssetRelation", Needs("assets:write"))
  /\ Asks("assetImpact", Needs("assets:read"))
  /\ Asks("discoveryImportAssets", Needs("assets:write"))
<1>0. /\ AssetCalls \in Api
      /\ DOMAIN AssetRoutes = 1..16
    BY DEF Api, AssetRoutes
<1>1. Asks("assets", Needs("assets:read"))
  <2>1. /\ Serves(AssetRoutes[7], "GET", <<"assets">>)
        /\ \A j \in DOMAIN AssetRoutes : Serves(AssetRoutes[j], "GET", <<"assets">>) => 7 <= j
    BY <1>0, AssetServes
  <2>2. RouteOf("GET", <<"assets">>) = {AssetRoutes[7]}
    BY <2>1, AssetAnswers
  <2>3. AssetRoutes[7].need = Needs("assets:read")
    BY DEF AssetRoutes, GET
  <2>4. "assets" \in DOMAIN AssetCalls /\ AssetCalls["assets"] = Fetches(<<"assets">>)
    BY DEF AssetCalls
  <2>5. QED
    BY <1>0, <2>2, <2>3, <2>4, FetchedRoute
<1>2. Asks("asset", Needs("assets:read"))
  <2>1. /\ Serves(AssetRoutes[12], "GET", <<"assets", "x">>)
        /\ \A j \in DOMAIN AssetRoutes : Serves(AssetRoutes[j], "GET", <<"assets", "x">>) => 12 <= j
    BY <1>0, AssetServes
  <2>2. RouteOf("GET", <<"assets", "x">>) = {AssetRoutes[12]}
    BY <2>1, AssetAnswers
  <2>3. AssetRoutes[12].need = Needs("assets:read")
    BY DEF AssetRoutes, GET
  <2>4. "asset" \in DOMAIN AssetCalls /\ AssetCalls["asset"] = Fetches(<<"assets", "x">>)
    BY DEF AssetCalls
  <2>5. QED
    BY <1>0, <2>2, <2>3, <2>4, FetchedRoute
<1>3. Asks("assetTypes", Needs("assets:read"))
  <2>1. /\ Serves(AssetRoutes[1], "GET", <<"assets", "types">>)
        /\ \A j \in DOMAIN AssetRoutes : Serves(AssetRoutes[j], "GET", <<"assets", "types">>) => 1 <= j
    BY <1>0, AssetServes
  <2>2. RouteOf("GET", <<"assets", "types">>) = {AssetRoutes[1]}
    BY <2>1, AssetAnswers
  <2>3. AssetRoutes[1].need = Needs("assets:read")
    BY DEF AssetRoutes, GET
  <2>4. "assetTypes" \in DOMAIN AssetCalls /\ AssetCalls["assetTypes"] = Fetches(<<"assets", "types">>)
    BY DEF AssetCalls
  <2>5. QED
    BY <1>0, <2>2, <2>3, <2>4, FetchedRoute
<1>4. Asks("assetStatuses", Needs("assets:read"))
  <2>1. /\ Serves(AssetRoutes[2], "GET", <<"assets", "statuses">>)
        /\ \A j \in DOMAIN AssetRoutes : Serves(AssetRoutes[j], "GET", <<"assets", "statuses">>) => 2 <= j
    BY <1>0, AssetServes
  <2>2. RouteOf("GET", <<"assets", "statuses">>) = {AssetRoutes[2]}
    BY <2>1, AssetAnswers
  <2>3. AssetRoutes[2].need = Needs("assets:read")
    BY DEF AssetRoutes, GET
  <2>4. "assetStatuses" \in DOMAIN AssetCalls /\ AssetCalls["assetStatuses"] = Fetches(<<"assets", "statuses">>)
    BY DEF AssetCalls
  <2>5. QED
    BY <1>0, <2>2, <2>3, <2>4, FetchedRoute
<1>5. Asks("assetAssignees", Needs("assets:write"))
  <2>1. /\ Serves(AssetRoutes[4], "GET", <<"assets", "assignees">>)
        /\ \A j \in DOMAIN AssetRoutes : Serves(AssetRoutes[j], "GET", <<"assets", "assignees">>) => 4 <= j
    BY <1>0, AssetServes
  <2>2. RouteOf("GET", <<"assets", "assignees">>) = {AssetRoutes[4]}
    BY <2>1, AssetAnswers
  <2>3. AssetRoutes[4].need = Needs("assets:write")
    BY DEF AssetRoutes, GET
  <2>4. "assetAssignees" \in DOMAIN AssetCalls /\ AssetCalls["assetAssignees"] = Fetches(<<"assets", "assignees">>)
    BY DEF AssetCalls
  <2>5. QED
    BY <1>0, <2>2, <2>3, <2>4, FetchedRoute
<1>6. Asks("createAsset", Needs("assets:write"))
  <2>1. /\ Serves(AssetRoutes[13], "POST", <<"assets">>)
        /\ \A j \in DOMAIN AssetRoutes : Serves(AssetRoutes[j], "POST", <<"assets">>) => 13 <= j
    BY <1>0, AssetServes
  <2>2. RouteOf("POST", <<"assets">>) = {AssetRoutes[13]}
    BY <2>1, AssetAnswers
  <2>3. AssetRoutes[13].need = Needs("assets:write")
    BY DEF AssetRoutes, POST
  <2>4. "createAsset" \in DOMAIN AssetCalls /\ AssetCalls["createAsset"] = Posts(<<"assets">>)
    BY DEF AssetCalls
  <2>5. QED
    BY <1>0, <2>2, <2>3, <2>4, PostedRoute
<1>7. Asks("updateAsset", Needs("assets:write"))
  <2>1. /\ Serves(AssetRoutes[14], "PATCH", <<"assets", "x">>)
        /\ \A j \in DOMAIN AssetRoutes : Serves(AssetRoutes[j], "PATCH", <<"assets", "x">>) => 14 <= j
    BY <1>0, AssetServes
  <2>2. RouteOf("PATCH", <<"assets", "x">>) = {AssetRoutes[14]}
    BY <2>1, AssetAnswers
  <2>3. AssetRoutes[14].need = Needs("assets:write")
    BY DEF AssetRoutes, PATCH
  <2>4. "updateAsset" \in DOMAIN AssetCalls /\ AssetCalls["updateAsset"] = Patches(<<"assets", "x">>)
    BY DEF AssetCalls
  <2>5. QED
    BY <1>0, <2>2, <2>3, <2>4, PatchedRoute
<1>8. Asks("deleteAsset", Needs("assets:write"))
  <2>1. /\ Serves(AssetRoutes[15], "DELETE", <<"assets", "x">>)
        /\ \A j \in DOMAIN AssetRoutes : Serves(AssetRoutes[j], "DELETE", <<"assets", "x">>) => 15 <= j
    BY <1>0, AssetServes
  <2>2. RouteOf("DELETE", <<"assets", "x">>) = {AssetRoutes[15]}
    BY <2>1, AssetAnswers
  <2>3. AssetRoutes[15].need = Needs("assets:write")
    BY DEF AssetRoutes, DELETE
  <2>4. "deleteAsset" \in DOMAIN AssetCalls /\ AssetCalls["deleteAsset"] = Deletes(<<"assets", "x">>)
    BY DEF AssetCalls
  <2>5. QED
    BY <1>0, <2>2, <2>3, <2>4, DeletedRoute
<1>9. Asks("downloadAssetsCsv", Needs("assets:read"))
  <2>1. /\ Serves(AssetRoutes[5], "GET", <<"assets", "export.csv">>)
        /\ \A j \in DOMAIN AssetRoutes : Serves(AssetRoutes[j], "GET", <<"assets", "export.csv">>) => 5 <= j
    BY <1>0, AssetServes
  <2>2. RouteOf("GET", <<"assets", "export.csv">>) = {AssetRoutes[5]}
    BY <2>1, AssetAnswers
  <2>3. AssetRoutes[5].need = Needs("assets:read")
    BY DEF AssetRoutes, GET
  <2>4. "downloadAssetsCsv" \in DOMAIN AssetCalls /\ AssetCalls["downloadAssetsCsv"] = Fetches(<<"assets", "export.csv">>)
    BY DEF AssetCalls
  <2>5. QED
    BY <1>0, <2>2, <2>3, <2>4, FetchedRoute
<1>10. Asks("linkAssetToTicket", Needs("assets:write"))
  <2>1. /\ Serves(AssetRoutes[16], "POST", <<"assets", "tickets", "x", "link">>)
        /\ \A j \in DOMAIN AssetRoutes : Serves(AssetRoutes[j], "POST", <<"assets", "tickets", "x", "link">>) => 16 <= j
    BY <1>0, AssetServes
  <2>2. RouteOf("POST", <<"assets", "tickets", "x", "link">>) = {AssetRoutes[16]}
    BY <2>1, AssetAnswers
  <2>3. AssetRoutes[16].need = Needs("assets:write")
    BY DEF AssetRoutes, POST
  <2>4. "linkAssetToTicket" \in DOMAIN AssetCalls /\ AssetCalls["linkAssetToTicket"] = Posts(<<"assets", "tickets", "x", "link">>)
    BY DEF AssetCalls
  <2>5. QED
    BY <1>0, <2>2, <2>3, <2>4, PostedRoute
<1>11. Asks("assetRelationTypes", Needs("assets:read"))
  <2>1. /\ Serves(AssetRoutes[3], "GET", <<"assets", "relation-types">>)
        /\ \A j \in DOMAIN AssetRoutes : Serves(AssetRoutes[j], "GET", <<"assets", "relation-types">>) => 3 <= j
    BY <1>0, AssetServes
  <2>2. RouteOf("GET", <<"assets", "relation-types">>) = {AssetRoutes[3]}
    BY <2>1, AssetAnswers
  <2>3. AssetRoutes[3].need = Needs("assets:read")
    BY DEF AssetRoutes, GET
  <2>4. "assetRelationTypes" \in DOMAIN AssetCalls /\ AssetCalls["assetRelationTypes"] = Fetches(<<"assets", "relation-types">>)
    BY DEF AssetCalls
  <2>5. QED
    BY <1>0, <2>2, <2>3, <2>4, FetchedRoute
<1>12. Asks("assetRelations", Needs("assets:read"))
  <2>1. /\ Serves(AssetRoutes[8], "GET", <<"assets", "x", "relations">>)
        /\ \A j \in DOMAIN AssetRoutes : Serves(AssetRoutes[j], "GET", <<"assets", "x", "relations">>) => 8 <= j
    BY <1>0, AssetServes
  <2>2. RouteOf("GET", <<"assets", "x", "relations">>) = {AssetRoutes[8]}
    BY <2>1, AssetAnswers
  <2>3. AssetRoutes[8].need = Needs("assets:read")
    BY DEF AssetRoutes, GET
  <2>4. "assetRelations" \in DOMAIN AssetCalls /\ AssetCalls["assetRelations"] = Fetches(<<"assets", "x", "relations">>)
    BY DEF AssetCalls
  <2>5. QED
    BY <1>0, <2>2, <2>3, <2>4, FetchedRoute
<1>13. Asks("createAssetRelation", Needs("assets:write"))
  <2>1. /\ Serves(AssetRoutes[9], "POST", <<"assets", "x", "relations">>)
        /\ \A j \in DOMAIN AssetRoutes : Serves(AssetRoutes[j], "POST", <<"assets", "x", "relations">>) => 9 <= j
    BY <1>0, AssetServes
  <2>2. RouteOf("POST", <<"assets", "x", "relations">>) = {AssetRoutes[9]}
    BY <2>1, AssetAnswers
  <2>3. AssetRoutes[9].need = Needs("assets:write")
    BY DEF AssetRoutes, POST
  <2>4. "createAssetRelation" \in DOMAIN AssetCalls /\ AssetCalls["createAssetRelation"] = Posts(<<"assets", "x", "relations">>)
    BY DEF AssetCalls
  <2>5. QED
    BY <1>0, <2>2, <2>3, <2>4, PostedRoute
<1>14. Asks("deleteAssetRelation", Needs("assets:write"))
  <2>1. /\ Serves(AssetRoutes[10], "DELETE", <<"assets", "x", "relations", "x">>)
        /\ \A j \in DOMAIN AssetRoutes : Serves(AssetRoutes[j], "DELETE", <<"assets", "x", "relations", "x">>) => 10 <= j
    BY <1>0, AssetServes
  <2>2. RouteOf("DELETE", <<"assets", "x", "relations", "x">>) = {AssetRoutes[10]}
    BY <2>1, AssetAnswers
  <2>3. AssetRoutes[10].need = Needs("assets:write")
    BY DEF AssetRoutes, DELETE
  <2>4. "deleteAssetRelation" \in DOMAIN AssetCalls /\ AssetCalls["deleteAssetRelation"] = Deletes(<<"assets", "x", "relations", "x">>)
    BY DEF AssetCalls
  <2>5. QED
    BY <1>0, <2>2, <2>3, <2>4, DeletedRoute
<1>15. Asks("assetImpact", Needs("assets:read"))
  <2>1. /\ Serves(AssetRoutes[11], "GET", <<"assets", "x", "impact">>)
        /\ \A j \in DOMAIN AssetRoutes : Serves(AssetRoutes[j], "GET", <<"assets", "x", "impact">>) => 11 <= j
    BY <1>0, AssetServes
  <2>2. RouteOf("GET", <<"assets", "x", "impact">>) = {AssetRoutes[11]}
    BY <2>1, AssetAnswers
  <2>3. AssetRoutes[11].need = Needs("assets:read")
    BY DEF AssetRoutes, GET
  <2>4. "assetImpact" \in DOMAIN AssetCalls /\ AssetCalls["assetImpact"] = Fetches(<<"assets", "x", "impact">>)
    BY DEF AssetCalls
  <2>5. QED
    BY <1>0, <2>2, <2>3, <2>4, FetchedRoute
<1>16. Asks("discoveryImportAssets", Needs("assets:write"))
  <2>1. /\ Serves(AssetRoutes[6], "POST", <<"assets", "discovery", "import">>)
        /\ \A j \in DOMAIN AssetRoutes : Serves(AssetRoutes[j], "POST", <<"assets", "discovery", "import">>) => 6 <= j
    BY <1>0, AssetServes
  <2>2. RouteOf("POST", <<"assets", "discovery", "import">>) = {AssetRoutes[6]}
    BY <2>1, AssetAnswers
  <2>3. AssetRoutes[6].need = Needs("assets:write")
    BY DEF AssetRoutes, POST
  <2>4. "discoveryImportAssets" \in DOMAIN AssetCalls /\ AssetCalls["discoveryImportAssets"] = Posts(<<"assets", "discovery", "import">>)
    BY DEF AssetCalls
  <2>5. QED
    BY <1>0, <2>2, <2>3, <2>4, PostedRoute
<1>17. QED
  BY <1>1, <1>2, <1>3, <1>4, <1>5, <1>6, <1>7, <1>8, <1>9, <1>10, <1>11, <1>12, <1>13, <1>14, <1>15,
     <1>16

LEMMA ApprovalCallsAsk ==
  /\ Asks("approvals", Needs("approvals:read"))
  /\ Asks("decideApproval", Needs("approvals:decide"))
  /\ Asks("approvalPolicies", ManagesPolicies)
  /\ Asks("createApprovalPolicy", ManagesPolicies)
  /\ Asks("updateApprovalPolicy", ManagesPolicies)
<1>0. /\ ApprovalCalls \in Api
      /\ DOMAIN ApprovalRoutes = 1..5
    BY DEF Api, ApprovalRoutes
<1>1. Asks("approvals", Needs("approvals:read"))
  <2>1. /\ Serves(ApprovalRoutes[4], "GET", <<"approvals">>)
        /\ \A j \in DOMAIN ApprovalRoutes : Serves(ApprovalRoutes[j], "GET", <<"approvals">>) => 4 <= j
    BY <1>0, ApprovalServes
  <2>2. RouteOf("GET", <<"approvals">>) = {ApprovalRoutes[4]}
    BY <2>1, ApprovalAnswers
  <2>3. ApprovalRoutes[4].need = Needs("approvals:read")
    BY DEF ApprovalRoutes, GET
  <2>4. "approvals" \in DOMAIN ApprovalCalls /\ ApprovalCalls["approvals"] = Fetches(<<"approvals">>)
    BY DEF ApprovalCalls
  <2>5. QED
    BY <1>0, <2>2, <2>3, <2>4, FetchedRoute
<1>2. Asks("decideApproval", Needs("approvals:decide"))
  <2>1. /\ Serves(ApprovalRoutes[5], "POST", <<"approvals", "x", "decide">>)
        /\ \A j \in DOMAIN ApprovalRoutes : Serves(ApprovalRoutes[j], "POST", <<"approvals", "x", "decide">>) => 5 <= j
    BY <1>0, ApprovalServes
  <2>2. RouteOf("POST", <<"approvals", "x", "decide">>) = {ApprovalRoutes[5]}
    BY <2>1, ApprovalAnswers
  <2>3. ApprovalRoutes[5].need = Needs("approvals:decide")
    BY DEF ApprovalRoutes, POST
  <2>4. "decideApproval" \in DOMAIN ApprovalCalls /\ ApprovalCalls["decideApproval"] = Posts(<<"approvals", "x", "decide">>)
    BY DEF ApprovalCalls
  <2>5. QED
    BY <1>0, <2>2, <2>3, <2>4, PostedRoute
<1>3. Asks("approvalPolicies", ManagesPolicies)
  <2>1. /\ Serves(ApprovalRoutes[1], "GET", <<"approvals", "policies">>)
        /\ \A j \in DOMAIN ApprovalRoutes : Serves(ApprovalRoutes[j], "GET", <<"approvals", "policies">>) => 1 <= j
    BY <1>0, ApprovalServes
  <2>2. RouteOf("GET", <<"approvals", "policies">>) = {ApprovalRoutes[1]}
    BY <2>1, ApprovalAnswers
  <2>3. ApprovalRoutes[1].need = ManagesPolicies
    BY DEF ApprovalRoutes, GET
  <2>4. "approvalPolicies" \in DOMAIN ApprovalCalls /\ ApprovalCalls["approvalPolicies"] = Fetches(<<"approvals", "policies">>)
    BY DEF ApprovalCalls
  <2>5. QED
    BY <1>0, <2>2, <2>3, <2>4, FetchedRoute
<1>4. Asks("createApprovalPolicy", ManagesPolicies)
  <2>1. /\ Serves(ApprovalRoutes[2], "POST", <<"approvals", "policies">>)
        /\ \A j \in DOMAIN ApprovalRoutes : Serves(ApprovalRoutes[j], "POST", <<"approvals", "policies">>) => 2 <= j
    BY <1>0, ApprovalServes
  <2>2. RouteOf("POST", <<"approvals", "policies">>) = {ApprovalRoutes[2]}
    BY <2>1, ApprovalAnswers
  <2>3. ApprovalRoutes[2].need = ManagesPolicies
    BY DEF ApprovalRoutes, POST
  <2>4. "createApprovalPolicy" \in DOMAIN ApprovalCalls /\ ApprovalCalls["createApprovalPolicy"] = Posts(<<"approvals", "policies">>)
    BY DEF ApprovalCalls
  <2>5. QED
    BY <1>0, <2>2, <2>3, <2>4, PostedRoute
<1>5. Asks("updateApprovalPolicy", ManagesPolicies)
  <2>1. /\ Serves(ApprovalRoutes[3], "PATCH", <<"approvals", "policies", "x">>)
        /\ \A j \in DOMAIN ApprovalRoutes : Serves(ApprovalRoutes[j], "PATCH", <<"approvals", "policies", "x">>) => 3 <= j
    BY <1>0, ApprovalServes
  <2>2. RouteOf("PATCH", <<"approvals", "policies", "x">>) = {ApprovalRoutes[3]}
    BY <2>1, ApprovalAnswers
  <2>3. ApprovalRoutes[3].need = ManagesPolicies
    BY DEF ApprovalRoutes, PATCH
  <2>4. "updateApprovalPolicy" \in DOMAIN ApprovalCalls /\ ApprovalCalls["updateApprovalPolicy"] = Patches(<<"approvals", "policies", "x">>)
    BY DEF ApprovalCalls
  <2>5. QED
    BY <1>0, <2>2, <2>3, <2>4, PatchedRoute
<1>6. QED
  BY <1>1, <1>2, <1>3, <1>4, <1>5

LEMMA UserCallsAsk ==
  /\ Asks("listUsers", Needs("users:read"))
  /\ Asks("createUser", Needs("users:manage"))
  /\ Asks("updateUser", Needs("users:manage"))
  /\ Asks("resetUserPassword", Needs("users:manage"))
  /\ Asks("deleteUser", Needs("users:manage"))
  /\ Asks("rolesMatrix", Needs("roles:manage"))
  /\ Asks("setUserAccess", Needs("users:manage"))
<1>0. /\ UserCalls \in Api
      /\ DOMAIN UserRoutes = 1..8
    BY DEF Api, UserRoutes
<1>1. Asks("listUsers", Needs("users:read"))
  <2>1. /\ Serves(UserRoutes[1], "GET", <<"users">>)
        /\ \A j \in DOMAIN UserRoutes : Serves(UserRoutes[j], "GET", <<"users">>) => 1 <= j
    BY <1>0, UserServes
  <2>2. RouteOf("GET", <<"users">>) = {UserRoutes[1]}
    BY <2>1, UserAnswers
  <2>3. UserRoutes[1].need = Needs("users:read")
    BY DEF UserRoutes, GET
  <2>4. "listUsers" \in DOMAIN UserCalls /\ UserCalls["listUsers"] = Fetches(<<"users">>)
    BY DEF UserCalls
  <2>5. QED
    BY <1>0, <2>2, <2>3, <2>4, FetchedRoute
<1>2. Asks("createUser", Needs("users:manage"))
  <2>1. /\ Serves(UserRoutes[4], "POST", <<"users">>)
        /\ \A j \in DOMAIN UserRoutes : Serves(UserRoutes[j], "POST", <<"users">>) => 4 <= j
    BY <1>0, UserServes
  <2>2. RouteOf("POST", <<"users">>) = {UserRoutes[4]}
    BY <2>1, UserAnswers
  <2>3. UserRoutes[4].need = Needs("users:manage")
    BY DEF UserRoutes, POST
  <2>4. "createUser" \in DOMAIN UserCalls /\ UserCalls["createUser"] = Posts(<<"users">>)
    BY DEF UserCalls
  <2>5. QED
    BY <1>0, <2>2, <2>3, <2>4, PostedRoute
<1>3. Asks("updateUser", Needs("users:manage"))
  <2>1. /\ Serves(UserRoutes[5], "PATCH", <<"users", "x">>)
        /\ \A j \in DOMAIN UserRoutes : Serves(UserRoutes[j], "PATCH", <<"users", "x">>) => 5 <= j
    BY <1>0, UserServes
  <2>2. RouteOf("PATCH", <<"users", "x">>) = {UserRoutes[5]}
    BY <2>1, UserAnswers
  <2>3. UserRoutes[5].need = Needs("users:manage")
    BY DEF UserRoutes, PATCH
  <2>4. "updateUser" \in DOMAIN UserCalls /\ UserCalls["updateUser"] = Patches(<<"users", "x">>)
    BY DEF UserCalls
  <2>5. QED
    BY <1>0, <2>2, <2>3, <2>4, PatchedRoute
<1>4. Asks("resetUserPassword", Needs("users:manage"))
  <2>1. /\ Serves(UserRoutes[6], "POST", <<"users", "x", "reset-password">>)
        /\ \A j \in DOMAIN UserRoutes : Serves(UserRoutes[j], "POST", <<"users", "x", "reset-password">>) => 6 <= j
    BY <1>0, UserServes
  <2>2. RouteOf("POST", <<"users", "x", "reset-password">>) = {UserRoutes[6]}
    BY <2>1, UserAnswers
  <2>3. UserRoutes[6].need = Needs("users:manage")
    BY DEF UserRoutes, POST
  <2>4. "resetUserPassword" \in DOMAIN UserCalls /\ UserCalls["resetUserPassword"] = Posts(<<"users", "x", "reset-password">>)
    BY DEF UserCalls
  <2>5. QED
    BY <1>0, <2>2, <2>3, <2>4, PostedRoute
<1>5. Asks("deleteUser", Needs("users:manage"))
  <2>1. /\ Serves(UserRoutes[7], "DELETE", <<"users", "x">>)
        /\ \A j \in DOMAIN UserRoutes : Serves(UserRoutes[j], "DELETE", <<"users", "x">>) => 7 <= j
    BY <1>0, UserServes
  <2>2. RouteOf("DELETE", <<"users", "x">>) = {UserRoutes[7]}
    BY <2>1, UserAnswers
  <2>3. UserRoutes[7].need = Needs("users:manage")
    BY DEF UserRoutes, DELETE
  <2>4. "deleteUser" \in DOMAIN UserCalls /\ UserCalls["deleteUser"] = Deletes(<<"users", "x">>)
    BY DEF UserCalls
  <2>5. QED
    BY <1>0, <2>2, <2>3, <2>4, DeletedRoute
<1>6. Asks("rolesMatrix", Needs("roles:manage"))
  <2>1. /\ Serves(UserRoutes[2], "GET", <<"users", "roles", "matrix">>)
        /\ \A j \in DOMAIN UserRoutes : Serves(UserRoutes[j], "GET", <<"users", "roles", "matrix">>) => 2 <= j
    BY <1>0, UserServes
  <2>2. RouteOf("GET", <<"users", "roles", "matrix">>) = {UserRoutes[2]}
    BY <2>1, UserAnswers
  <2>3. UserRoutes[2].need = Needs("roles:manage")
    BY DEF UserRoutes, GET
  <2>4. "rolesMatrix" \in DOMAIN UserCalls /\ UserCalls["rolesMatrix"] = Fetches(<<"users", "roles", "matrix">>)
    BY DEF UserCalls
  <2>5. QED
    BY <1>0, <2>2, <2>3, <2>4, FetchedRoute
<1>7. Asks("setUserAccess", Needs("users:manage"))
  <2>1. /\ Serves(UserRoutes[8], "PATCH", <<"users", "x", "roles">>)
        /\ \A j \in DOMAIN UserRoutes : Serves(UserRoutes[j], "PATCH", <<"users", "x", "roles">>) => 8 <= j
    BY <1>0, UserServes
  <2>2. RouteOf("PATCH", <<"users", "x", "roles">>) = {UserRoutes[8]}
    BY <2>1, UserAnswers
  <2>3. UserRoutes[8].need = Needs("users:manage")
    BY DEF UserRoutes, PATCH
  <2>4. "setUserAccess" \in DOMAIN UserCalls /\ UserCalls["setUserAccess"] = Patches(<<"users", "x", "roles">>)
    BY DEF UserCalls
  <2>5. QED
    BY <1>0, <2>2, <2>3, <2>4, PatchedRoute
<1>8. QED
  BY <1>1, <1>2, <1>3, <1>4, <1>5, <1>6, <1>7

LEMMA AttachmentCallsAsk ==
  /\ Asks("listAttachments", {AttachmentReaders})
  /\ Asks("uploadAttachment", {AttachmentReaders, {"requester"} \cup Writes})
  /\ Asks("downloadAttachment", {AttachmentReaders})
  /\ Asks("attachmentLimits", Free)
<1>0. /\ AttachmentCalls \in Api
      /\ DOMAIN AttachmentRoutes = 1..4
    BY DEF Api, AttachmentRoutes
<1>1. Asks("listAttachments", {AttachmentReaders})
  <2>1. /\ Serves(AttachmentRoutes[2], "GET", <<"tickets", "x", "attachments">>)
        /\ \A j \in DOMAIN AttachmentRoutes : Serves(AttachmentRoutes[j], "GET", <<"tickets", "x", "attachments">>) => 2 <= j
    BY <1>0, AttachmentServes
  <2>2. \A j \in DOMAIN TicketListRoutes : ~Serves(TicketListRoutes[j], "GET", <<"tickets", "x", "attachments">>)
    BY TicketListServes
  <2>3. \A j \in DOMAIN TicketRowRoutes : ~Serves(TicketRowRoutes[j], "GET", <<"tickets", "x", "attachments">>)
    BY TicketRowServes
  <2>4. RouteOf("GET", <<"tickets", "x", "attachments">>) = {AttachmentRoutes[2]}
    BY <2>1, <2>2, <2>3, AttachmentAnswers
  <2>5. AttachmentRoutes[2].need = {AttachmentReaders}
    BY DEF AttachmentRoutes, GET
  <2>6. "listAttachments" \in DOMAIN AttachmentCalls /\ AttachmentCalls["listAttachments"] = Fetches(<<"tickets", "x", "attachments">>)
    BY DEF AttachmentCalls
  <2>7. QED
    BY <1>0, <2>4, <2>5, <2>6, FetchedRoute
<1>2. Asks("uploadAttachment", {AttachmentReaders, {"requester"} \cup Writes})
  <2>1. /\ Serves(AttachmentRoutes[1], "POST", <<"tickets", "x", "attachments">>)
        /\ \A j \in DOMAIN AttachmentRoutes : Serves(AttachmentRoutes[j], "POST", <<"tickets", "x", "attachments">>) => 1 <= j
    BY <1>0, AttachmentServes
  <2>2. \A j \in DOMAIN TicketListRoutes : ~Serves(TicketListRoutes[j], "POST", <<"tickets", "x", "attachments">>)
    BY TicketListServes
  <2>3. \A j \in DOMAIN TicketRowRoutes : ~Serves(TicketRowRoutes[j], "POST", <<"tickets", "x", "attachments">>)
    BY TicketRowServes
  <2>4. RouteOf("POST", <<"tickets", "x", "attachments">>) = {AttachmentRoutes[1]}
    BY <2>1, <2>2, <2>3, AttachmentAnswers
  <2>5. AttachmentRoutes[1].need = {AttachmentReaders, {"requester"} \cup Writes}
    BY DEF AttachmentRoutes, POST
  <2>6. "uploadAttachment" \in DOMAIN AttachmentCalls /\ AttachmentCalls["uploadAttachment"] = Posts(<<"tickets", "x", "attachments">>)
    BY DEF AttachmentCalls
  <2>7. QED
    BY <1>0, <2>4, <2>5, <2>6, PostedRoute
<1>3. Asks("downloadAttachment", {AttachmentReaders})
  <2>1. /\ Serves(AttachmentRoutes[4], "GET", <<"attachments", "x", "download">>)
        /\ \A j \in DOMAIN AttachmentRoutes : Serves(AttachmentRoutes[j], "GET", <<"attachments", "x", "download">>) => 4 <= j
    BY <1>0, AttachmentServes
  <2>2. \A j \in DOMAIN TicketListRoutes : ~Serves(TicketListRoutes[j], "GET", <<"attachments", "x", "download">>)
    BY TicketListServes
  <2>3. \A j \in DOMAIN TicketRowRoutes : ~Serves(TicketRowRoutes[j], "GET", <<"attachments", "x", "download">>)
    BY TicketRowServes
  <2>4. RouteOf("GET", <<"attachments", "x", "download">>) = {AttachmentRoutes[4]}
    BY <2>1, <2>2, <2>3, AttachmentAnswers
  <2>5. AttachmentRoutes[4].need = {AttachmentReaders}
    BY DEF AttachmentRoutes, GET
  <2>6. "downloadAttachment" \in DOMAIN AttachmentCalls /\ AttachmentCalls["downloadAttachment"] = Fetches(<<"attachments", "x", "download">>)
    BY DEF AttachmentCalls
  <2>7. QED
    BY <1>0, <2>4, <2>5, <2>6, FetchedRoute
<1>4. Asks("attachmentLimits", Free)
  <2>1. /\ Serves(AttachmentRoutes[3], "GET", <<"attachments", "limits">>)
        /\ \A j \in DOMAIN AttachmentRoutes : Serves(AttachmentRoutes[j], "GET", <<"attachments", "limits">>) => 3 <= j
    BY <1>0, AttachmentServes
  <2>2. \A j \in DOMAIN TicketListRoutes : ~Serves(TicketListRoutes[j], "GET", <<"attachments", "limits">>)
    BY TicketListServes
  <2>3. \A j \in DOMAIN TicketRowRoutes : ~Serves(TicketRowRoutes[j], "GET", <<"attachments", "limits">>)
    BY TicketRowServes
  <2>4. RouteOf("GET", <<"attachments", "limits">>) = {AttachmentRoutes[3]}
    BY <2>1, <2>2, <2>3, AttachmentAnswers
  <2>5. AttachmentRoutes[3].need = Free
    BY DEF AttachmentRoutes, GET
  <2>6. "attachmentLimits" \in DOMAIN AttachmentCalls /\ AttachmentCalls["attachmentLimits"] = Fetches(<<"attachments", "limits">>)
    BY DEF AttachmentCalls
  <2>7. QED
    BY <1>0, <2>4, <2>5, <2>6, FetchedRoute
<1>5. QED
  BY <1>1, <1>2, <1>3, <1>4

LEMMA BrandingCallsAsk ==
  /\ Asks("branding", Free)
  /\ Asks("updateBrandingTheme", Needs("sysadmin"))
  /\ Asks("uploadBrandingLogo", Needs("sysadmin"))
  /\ Asks("uploadBrandingBanner", Needs("sysadmin"))
  /\ Asks("resetBranding", Needs("sysadmin"))
<1>0. /\ BrandingCalls \in Api
      /\ DOMAIN BrandingRoutes = 1..6
    BY DEF Api, BrandingRoutes
<1>1. Asks("branding", Free)
  <2>1. /\ Serves(BrandingRoutes[1], "GET", <<"branding">>)
        /\ \A j \in DOMAIN BrandingRoutes : Serves(BrandingRoutes[j], "GET", <<"branding">>) => 1 <= j
    BY <1>0, BrandingServes
  <2>2. RouteOf("GET", <<"branding">>) = {BrandingRoutes[1]}
    BY <2>1, BrandingAnswers
  <2>3. BrandingRoutes[1].need = Free
    BY DEF BrandingRoutes, GET
  <2>4. "branding" \in DOMAIN BrandingCalls /\ BrandingCalls["branding"] = Fetches(<<"branding">>)
    BY DEF BrandingCalls
  <2>5. QED
    BY <1>0, <2>2, <2>3, <2>4, FetchedRoute
<1>2. Asks("updateBrandingTheme", Needs("sysadmin"))
  <2>1. /\ Serves(BrandingRoutes[3], "PATCH", <<"branding", "theme">>)
        /\ \A j \in DOMAIN BrandingRoutes : Serves(BrandingRoutes[j], "PATCH", <<"branding", "theme">>) => 3 <= j
    BY <1>0, BrandingServes
  <2>2. RouteOf("PATCH", <<"branding", "theme">>) = {BrandingRoutes[3]}
    BY <2>1, BrandingAnswers
  <2>3. BrandingRoutes[3].need = Needs("sysadmin")
    BY DEF BrandingRoutes, PATCH
  <2>4. "updateBrandingTheme" \in DOMAIN BrandingCalls /\ BrandingCalls["updateBrandingTheme"] = Patches(<<"branding", "theme">>)
    BY DEF BrandingCalls
  <2>5. QED
    BY <1>0, <2>2, <2>3, <2>4, PatchedRoute
<1>3. Asks("uploadBrandingLogo", Needs("sysadmin"))
  <2>1. /\ Serves(BrandingRoutes[4], "POST", <<"branding", "logo">>)
        /\ \A j \in DOMAIN BrandingRoutes : Serves(BrandingRoutes[j], "POST", <<"branding", "logo">>) => 4 <= j
    BY <1>0, BrandingServes
  <2>2. RouteOf("POST", <<"branding", "logo">>) = {BrandingRoutes[4]}
    BY <2>1, BrandingAnswers
  <2>3. BrandingRoutes[4].need = Needs("sysadmin")
    BY DEF BrandingRoutes, POST
  <2>4. "uploadBrandingLogo" \in DOMAIN BrandingCalls /\ BrandingCalls["uploadBrandingLogo"] = Posts(<<"branding", "logo">>)
    BY DEF BrandingCalls
  <2>5. QED
    BY <1>0, <2>2, <2>3, <2>4, PostedRoute
<1>4. Asks("uploadBrandingBanner", Needs("sysadmin"))
  <2>1. /\ Serves(BrandingRoutes[5], "POST", <<"branding", "banner">>)
        /\ \A j \in DOMAIN BrandingRoutes : Serves(BrandingRoutes[j], "POST", <<"branding", "banner">>) => 5 <= j
    BY <1>0, BrandingServes
  <2>2. RouteOf("POST", <<"branding", "banner">>) = {BrandingRoutes[5]}
    BY <2>1, BrandingAnswers
  <2>3. BrandingRoutes[5].need = Needs("sysadmin")
    BY DEF BrandingRoutes, POST
  <2>4. "uploadBrandingBanner" \in DOMAIN BrandingCalls /\ BrandingCalls["uploadBrandingBanner"] = Posts(<<"branding", "banner">>)
    BY DEF BrandingCalls
  <2>5. QED
    BY <1>0, <2>2, <2>3, <2>4, PostedRoute
<1>5. Asks("resetBranding", Needs("sysadmin"))
  <2>1. /\ Serves(BrandingRoutes[6], "POST", <<"branding", "reset">>)
        /\ \A j \in DOMAIN BrandingRoutes : Serves(BrandingRoutes[j], "POST", <<"branding", "reset">>) => 6 <= j
    BY <1>0, BrandingServes
  <2>2. RouteOf("POST", <<"branding", "reset">>) = {BrandingRoutes[6]}
    BY <2>1, BrandingAnswers
  <2>3. BrandingRoutes[6].need = Needs("sysadmin")
    BY DEF BrandingRoutes, POST
  <2>4. "resetBranding" \in DOMAIN BrandingCalls /\ BrandingCalls["resetBranding"] = Posts(<<"branding", "reset">>)
    BY DEF BrandingCalls
  <2>5. QED
    BY <1>0, <2>2, <2>3, <2>4, PostedRoute
<1>6. QED
  BY <1>1, <1>2, <1>3, <1>4, <1>5

LEMMA IntegrationCallsAsk ==
  /\ Asks("integrationsStatus", Needs("sysadmin"))
  /\ Asks("simulateChatTicket", Needs("sysadmin"))
  /\ Asks("pollImap", Needs("sysadmin"))
  /\ Asks("webhookEvents", Needs("settings:manage"))
  /\ Asks("webhookEndpoints", Needs("settings:manage"))
  /\ Asks("createWebhookEndpoint", Needs("settings:manage"))
  /\ Asks("updateWebhookEndpoint", Needs("settings:manage"))
  /\ Asks("deleteWebhookEndpoint", Needs("settings:manage"))
  /\ Asks("testWebhookEndpoint", Needs("settings:manage"))
  /\ Asks("webhookDeliveries", Needs("settings:manage"))
<1>0. /\ IntegrationCalls \in Api
      /\ DOMAIN IntegrationRoutes = 1..8
      /\ DOMAIN WebhookRoutes = 1..7
    BY DEF Api, IntegrationRoutes, WebhookRoutes
<1>1. Asks("integrationsStatus", Needs("sysadmin"))
  <2>1. /\ Serves(IntegrationRoutes[1], "GET", <<"integrations", "status">>)
        /\ \A j \in DOMAIN IntegrationRoutes : Serves(IntegrationRoutes[j], "GET", <<"integrations", "status">>) => 1 <= j
    BY <1>0, IntegrationServes
  <2>2. RouteOf("GET", <<"integrations", "status">>) = {IntegrationRoutes[1]}
    BY <2>1, IntegrationAnswers
  <2>3. IntegrationRoutes[1].need = Needs("sysadmin")
    BY DEF IntegrationRoutes, GET
  <2>4. "integrationsStatus" \in DOMAIN IntegrationCalls /\ IntegrationCalls["integrationsStatus"] = Fetches(<<"integrations", "status">>)
    BY DEF IntegrationCalls
  <2>5. QED
    BY <1>0, <2>2, <2>3, <2>4, FetchedRoute
<1>2. Asks("simulateChatTicket", Needs("sysadmin"))
  <2>1. /\ Serves(IntegrationRoutes[3], "POST", <<"integrations", "chat", "simulate">>)
        /\ \A j \in DOMAIN IntegrationRoutes : Serves(IntegrationRoutes[j], "POST", <<"integrations", "chat", "simulate">>) => 3 <= j
    BY <1>0, IntegrationServes
  <2>2. RouteOf("POST", <<"integrations", "chat", "simulate">>) = {IntegrationRoutes[3]}
    BY <2>1, IntegrationAnswers
  <2>3. IntegrationRoutes[3].need = Needs("sysadmin")
    BY DEF IntegrationRoutes, POST
  <2>4. "simulateChatTicket" \in DOMAIN IntegrationCalls /\ IntegrationCalls["simulateChatTicket"] = Posts(<<"integrations", "chat", "simulate">>)
    BY DEF IntegrationCalls
  <2>5. QED
    BY <1>0, <2>2, <2>3, <2>4, PostedRoute
<1>3. Asks("pollImap", Needs("sysadmin"))
  <2>1. /\ Serves(IntegrationRoutes[2], "POST", <<"integrations", "email", "imap", "poll">>)
        /\ \A j \in DOMAIN IntegrationRoutes : Serves(IntegrationRoutes[j], "POST", <<"integrations", "email", "imap", "poll">>) => 2 <= j
    BY <1>0, IntegrationServes
  <2>2. RouteOf("POST", <<"integrations", "email", "imap", "poll">>) = {IntegrationRoutes[2]}
    BY <2>1, IntegrationAnswers
  <2>3. IntegrationRoutes[2].need = Needs("sysadmin")
    BY DEF IntegrationRoutes, POST
  <2>4. "pollImap" \in DOMAIN IntegrationCalls /\ IntegrationCalls["pollImap"] = Posts(<<"integrations", "email", "imap", "poll">>)
    BY DEF IntegrationCalls
  <2>5. QED
    BY <1>0, <2>2, <2>3, <2>4, PostedRoute
<1>4. Asks("webhookEvents", Needs("settings:manage"))
  <2>1. /\ Serves(WebhookRoutes[1], "GET", <<"webhooks", "events">>)
        /\ \A j \in DOMAIN WebhookRoutes : Serves(WebhookRoutes[j], "GET", <<"webhooks", "events">>) => 1 <= j
    BY <1>0, WebhookServes
  <2>2. RouteOf("GET", <<"webhooks", "events">>) = {WebhookRoutes[1]}
    BY <2>1, WebhookAnswers
  <2>3. WebhookRoutes[1].need = Needs("settings:manage")
    BY DEF WebhookRoutes, GET
  <2>4. "webhookEvents" \in DOMAIN IntegrationCalls /\ IntegrationCalls["webhookEvents"] = Fetches(<<"webhooks", "events">>)
    BY DEF IntegrationCalls
  <2>5. QED
    BY <1>0, <2>2, <2>3, <2>4, FetchedRoute
<1>5. Asks("webhookEndpoints", Needs("settings:manage"))
  <2>1. /\ Serves(WebhookRoutes[2], "GET", <<"webhooks", "endpoints">>)
        /\ \A j \in DOMAIN WebhookRoutes : Serves(WebhookRoutes[j], "GET", <<"webhooks", "endpoints">>) => 2 <= j
    BY <1>0, WebhookServes
  <2>2. RouteOf("GET", <<"webhooks", "endpoints">>) = {WebhookRoutes[2]}
    BY <2>1, WebhookAnswers
  <2>3. WebhookRoutes[2].need = Needs("settings:manage")
    BY DEF WebhookRoutes, GET
  <2>4. "webhookEndpoints" \in DOMAIN IntegrationCalls /\ IntegrationCalls["webhookEndpoints"] = Fetches(<<"webhooks", "endpoints">>)
    BY DEF IntegrationCalls
  <2>5. QED
    BY <1>0, <2>2, <2>3, <2>4, FetchedRoute
<1>6. Asks("createWebhookEndpoint", Needs("settings:manage"))
  <2>1. /\ Serves(WebhookRoutes[3], "POST", <<"webhooks", "endpoints">>)
        /\ \A j \in DOMAIN WebhookRoutes : Serves(WebhookRoutes[j], "POST", <<"webhooks", "endpoints">>) => 3 <= j
    BY <1>0, WebhookServes
  <2>2. RouteOf("POST", <<"webhooks", "endpoints">>) = {WebhookRoutes[3]}
    BY <2>1, WebhookAnswers
  <2>3. WebhookRoutes[3].need = Needs("settings:manage")
    BY DEF WebhookRoutes, POST
  <2>4. "createWebhookEndpoint" \in DOMAIN IntegrationCalls /\ IntegrationCalls["createWebhookEndpoint"] = Posts(<<"webhooks", "endpoints">>)
    BY DEF IntegrationCalls
  <2>5. QED
    BY <1>0, <2>2, <2>3, <2>4, PostedRoute
<1>7. Asks("updateWebhookEndpoint", Needs("settings:manage"))
  <2>1. /\ Serves(WebhookRoutes[4], "PATCH", <<"webhooks", "endpoints", "x">>)
        /\ \A j \in DOMAIN WebhookRoutes : Serves(WebhookRoutes[j], "PATCH", <<"webhooks", "endpoints", "x">>) => 4 <= j
    BY <1>0, WebhookServes
  <2>2. RouteOf("PATCH", <<"webhooks", "endpoints", "x">>) = {WebhookRoutes[4]}
    BY <2>1, WebhookAnswers
  <2>3. WebhookRoutes[4].need = Needs("settings:manage")
    BY DEF WebhookRoutes, PATCH
  <2>4. "updateWebhookEndpoint" \in DOMAIN IntegrationCalls /\ IntegrationCalls["updateWebhookEndpoint"] = Patches(<<"webhooks", "endpoints", "x">>)
    BY DEF IntegrationCalls
  <2>5. QED
    BY <1>0, <2>2, <2>3, <2>4, PatchedRoute
<1>8. Asks("deleteWebhookEndpoint", Needs("settings:manage"))
  <2>1. /\ Serves(WebhookRoutes[5], "DELETE", <<"webhooks", "endpoints", "x">>)
        /\ \A j \in DOMAIN WebhookRoutes : Serves(WebhookRoutes[j], "DELETE", <<"webhooks", "endpoints", "x">>) => 5 <= j
    BY <1>0, WebhookServes
  <2>2. RouteOf("DELETE", <<"webhooks", "endpoints", "x">>) = {WebhookRoutes[5]}
    BY <2>1, WebhookAnswers
  <2>3. WebhookRoutes[5].need = Needs("settings:manage")
    BY DEF WebhookRoutes, DELETE
  <2>4. "deleteWebhookEndpoint" \in DOMAIN IntegrationCalls /\ IntegrationCalls["deleteWebhookEndpoint"] = Deletes(<<"webhooks", "endpoints", "x">>)
    BY DEF IntegrationCalls
  <2>5. QED
    BY <1>0, <2>2, <2>3, <2>4, DeletedRoute
<1>9. Asks("testWebhookEndpoint", Needs("settings:manage"))
  <2>1. /\ Serves(WebhookRoutes[6], "POST", <<"webhooks", "endpoints", "x", "test">>)
        /\ \A j \in DOMAIN WebhookRoutes : Serves(WebhookRoutes[j], "POST", <<"webhooks", "endpoints", "x", "test">>) => 6 <= j
    BY <1>0, WebhookServes
  <2>2. RouteOf("POST", <<"webhooks", "endpoints", "x", "test">>) = {WebhookRoutes[6]}
    BY <2>1, WebhookAnswers
  <2>3. WebhookRoutes[6].need = Needs("settings:manage")
    BY DEF WebhookRoutes, POST
  <2>4. "testWebhookEndpoint" \in DOMAIN IntegrationCalls /\ IntegrationCalls["testWebhookEndpoint"] = Posts(<<"webhooks", "endpoints", "x", "test">>)
    BY DEF IntegrationCalls
  <2>5. QED
    BY <1>0, <2>2, <2>3, <2>4, PostedRoute
<1>10. Asks("webhookDeliveries", Needs("settings:manage"))
  <2>1. /\ Serves(WebhookRoutes[7], "GET", <<"webhooks", "endpoints", "x", "deliveries">>)
        /\ \A j \in DOMAIN WebhookRoutes : Serves(WebhookRoutes[j], "GET", <<"webhooks", "endpoints", "x", "deliveries">>) => 7 <= j
    BY <1>0, WebhookServes
  <2>2. RouteOf("GET", <<"webhooks", "endpoints", "x", "deliveries">>) = {WebhookRoutes[7]}
    BY <2>1, WebhookAnswers
  <2>3. WebhookRoutes[7].need = Needs("settings:manage")
    BY DEF WebhookRoutes, GET
  <2>4. "webhookDeliveries" \in DOMAIN IntegrationCalls /\ IntegrationCalls["webhookDeliveries"] = Fetches(<<"webhooks", "endpoints", "x", "deliveries">>)
    BY DEF IntegrationCalls
  <2>5. QED
    BY <1>0, <2>2, <2>3, <2>4, FetchedRoute
<1>11. QED
  BY <1>1, <1>2, <1>3, <1>4, <1>5, <1>6, <1>7, <1>8, <1>9, <1>10

LEMMA AuditCallsAsk ==
  /\ Asks("audit", Needs("audit:read"))
  /\ Asks("auditFacets", Needs("audit:read"))
  /\ Asks("listAuditExportSchedules", Needs("audit:read"))
  /\ Asks("createAuditExportSchedule", Needs("audit:read"))
  /\ Asks("updateAuditExportSchedule", Needs("audit:read"))
  /\ Asks("deleteAuditExportSchedule", Needs("audit:read"))
  /\ Asks("runAuditExportSchedule", Needs("audit:read"))
  /\ Asks("listAuditExportRuns", Needs("audit:read"))
<1>0. /\ AuditCalls \in Api
      /\ DOMAIN AuditRoutes = 1..9
    BY DEF Api, AuditRoutes
<1>1. Asks("audit", Needs("audit:read"))
  <2>1. /\ Serves(AuditRoutes[9], "GET", <<"audit">>)
        /\ \A j \in DOMAIN AuditRoutes : Serves(AuditRoutes[j], "GET", <<"audit">>) => 9 <= j
    BY <1>0, AuditServes
  <2>2. RouteOf("GET", <<"audit">>) = {AuditRoutes[9]}
    BY <2>1, AuditAnswers
  <2>3. AuditRoutes[9].need = Needs("audit:read")
    BY DEF AuditRoutes, GET
  <2>4. "audit" \in DOMAIN AuditCalls /\ AuditCalls["audit"] = Fetches(<<"audit">>)
    BY DEF AuditCalls
  <2>5. QED
    BY <1>0, <2>2, <2>3, <2>4, FetchedRoute
<1>2. Asks("auditFacets", Needs("audit:read"))
  <2>1. /\ Serves(AuditRoutes[1], "GET", <<"audit", "facets">>)
        /\ \A j \in DOMAIN AuditRoutes : Serves(AuditRoutes[j], "GET", <<"audit", "facets">>) => 1 <= j
    BY <1>0, AuditServes
  <2>2. RouteOf("GET", <<"audit", "facets">>) = {AuditRoutes[1]}
    BY <2>1, AuditAnswers
  <2>3. AuditRoutes[1].need = Needs("audit:read")
    BY DEF AuditRoutes, GET
  <2>4. "auditFacets" \in DOMAIN AuditCalls /\ AuditCalls["auditFacets"] = Fetches(<<"audit", "facets">>)
    BY DEF AuditCalls
  <2>5. QED
    BY <1>0, <2>2, <2>3, <2>4, FetchedRoute
<1>3. Asks("listAuditExportSchedules", Needs("audit:read"))
  <2>1. /\ Serves(AuditRoutes[3], "GET", <<"audit", "export-schedules">>)
        /\ \A j \in DOMAIN AuditRoutes : Serves(AuditRoutes[j], "GET", <<"audit", "export-schedules">>) => 3 <= j
    BY <1>0, AuditServes
  <2>2. RouteOf("GET", <<"audit", "export-schedules">>) = {AuditRoutes[3]}
    BY <2>1, AuditAnswers
  <2>3. AuditRoutes[3].need = Needs("audit:read")
    BY DEF AuditRoutes, GET
  <2>4. "listAuditExportSchedules" \in DOMAIN AuditCalls /\ AuditCalls["listAuditExportSchedules"] = Fetches(<<"audit", "export-schedules">>)
    BY DEF AuditCalls
  <2>5. QED
    BY <1>0, <2>2, <2>3, <2>4, FetchedRoute
<1>4. Asks("createAuditExportSchedule", Needs("audit:read"))
  <2>1. /\ Serves(AuditRoutes[4], "POST", <<"audit", "export-schedules">>)
        /\ \A j \in DOMAIN AuditRoutes : Serves(AuditRoutes[j], "POST", <<"audit", "export-schedules">>) => 4 <= j
    BY <1>0, AuditServes
  <2>2. RouteOf("POST", <<"audit", "export-schedules">>) = {AuditRoutes[4]}
    BY <2>1, AuditAnswers
  <2>3. AuditRoutes[4].need = Needs("audit:read")
    BY DEF AuditRoutes, POST
  <2>4. "createAuditExportSchedule" \in DOMAIN AuditCalls /\ AuditCalls["createAuditExportSchedule"] = Posts(<<"audit", "export-schedules">>)
    BY DEF AuditCalls
  <2>5. QED
    BY <1>0, <2>2, <2>3, <2>4, PostedRoute
<1>5. Asks("updateAuditExportSchedule", Needs("audit:read"))
  <2>1. /\ Serves(AuditRoutes[5], "PATCH", <<"audit", "export-schedules", "x">>)
        /\ \A j \in DOMAIN AuditRoutes : Serves(AuditRoutes[j], "PATCH", <<"audit", "export-schedules", "x">>) => 5 <= j
    BY <1>0, AuditServes
  <2>2. RouteOf("PATCH", <<"audit", "export-schedules", "x">>) = {AuditRoutes[5]}
    BY <2>1, AuditAnswers
  <2>3. AuditRoutes[5].need = Needs("audit:read")
    BY DEF AuditRoutes, PATCH
  <2>4. "updateAuditExportSchedule" \in DOMAIN AuditCalls /\ AuditCalls["updateAuditExportSchedule"] = Patches(<<"audit", "export-schedules", "x">>)
    BY DEF AuditCalls
  <2>5. QED
    BY <1>0, <2>2, <2>3, <2>4, PatchedRoute
<1>6. Asks("deleteAuditExportSchedule", Needs("audit:read"))
  <2>1. /\ Serves(AuditRoutes[6], "DELETE", <<"audit", "export-schedules", "x">>)
        /\ \A j \in DOMAIN AuditRoutes : Serves(AuditRoutes[j], "DELETE", <<"audit", "export-schedules", "x">>) => 6 <= j
    BY <1>0, AuditServes
  <2>2. RouteOf("DELETE", <<"audit", "export-schedules", "x">>) = {AuditRoutes[6]}
    BY <2>1, AuditAnswers
  <2>3. AuditRoutes[6].need = Needs("audit:read")
    BY DEF AuditRoutes, DELETE
  <2>4. "deleteAuditExportSchedule" \in DOMAIN AuditCalls /\ AuditCalls["deleteAuditExportSchedule"] = Deletes(<<"audit", "export-schedules", "x">>)
    BY DEF AuditCalls
  <2>5. QED
    BY <1>0, <2>2, <2>3, <2>4, DeletedRoute
<1>7. Asks("runAuditExportSchedule", Needs("audit:read"))
  <2>1. /\ Serves(AuditRoutes[7], "POST", <<"audit", "export-schedules", "x", "run">>)
        /\ \A j \in DOMAIN AuditRoutes : Serves(AuditRoutes[j], "POST", <<"audit", "export-schedules", "x", "run">>) => 7 <= j
    BY <1>0, AuditServes
  <2>2. RouteOf("POST", <<"audit", "export-schedules", "x", "run">>) = {AuditRoutes[7]}
    BY <2>1, AuditAnswers
  <2>3. AuditRoutes[7].need = Needs("audit:read")
    BY DEF AuditRoutes, POST
  <2>4. "runAuditExportSchedule" \in DOMAIN AuditCalls /\ AuditCalls["runAuditExportSchedule"] = Posts(<<"audit", "export-schedules", "x", "run">>)
    BY DEF AuditCalls
  <2>5. QED
    BY <1>0, <2>2, <2>3, <2>4, PostedRoute
<1>8. Asks("listAuditExportRuns", Needs("audit:read"))
  <2>1. /\ Serves(AuditRoutes[8], "GET", <<"audit", "export-runs">>)
        /\ \A j \in DOMAIN AuditRoutes : Serves(AuditRoutes[j], "GET", <<"audit", "export-runs">>) => 8 <= j
    BY <1>0, AuditServes
  <2>2. RouteOf("GET", <<"audit", "export-runs">>) = {AuditRoutes[8]}
    BY <2>1, AuditAnswers
  <2>3. AuditRoutes[8].need = Needs("audit:read")
    BY DEF AuditRoutes, GET
  <2>4. "listAuditExportRuns" \in DOMAIN AuditCalls /\ AuditCalls["listAuditExportRuns"] = Fetches(<<"audit", "export-runs">>)
    BY DEF AuditCalls
  <2>5. QED
    BY <1>0, <2>2, <2>3, <2>4, FetchedRoute
<1>9. QED
  BY <1>1, <1>2, <1>3, <1>4, <1>5, <1>6, <1>7, <1>8


(* No function of the client calls in vain: the API declares a route that
   takes its request, and the guard of that route asks one thing of the user. *)
THEOREM EveryCallIsAnswered == \A call \in DOMAIN Reached : \E need : Asks(call, need)
<1> SUFFICES ASSUME NEW call \in DOMAIN Reached PROVE \E need : Asks(call, need)
  OBVIOUS
<1>1. \E calls \in Api : call \in DOMAIN calls
  BY DEF Reached
<1>2. CASE call \in DOMAIN AuthCalls
  <2>1. DOMAIN AuthCalls =
          {"login", "verifyMfaLogin", "mfaSetup", "mfaConfirm", "mfaCancelSetup", "mfaDisable",
           "ssoProviders", "logout", "me", "getProfile", "updateProfile", "changePassword"}
    BY DEF AuthCalls
  <2>2. QED
    BY <1>2, <2>1, AuthCallsAsk
<1>3. CASE call \in DOMAIN TicketListCalls
  <2>1. DOMAIN TicketListCalls =
          {"listTickets", "ticketBoard", "majorIncidentsOps", "getTicket", "createTicket"}
    BY DEF TicketListCalls
  <2>2. QED
    BY <1>3, <2>1, TicketListCallsAsk
<1>4. CASE call \in DOMAIN TicketRowCalls
  <2>1. DOMAIN TicketRowCalls =
          {"linkChildTicket", "unlinkChildTicket", "mergeTickets", "updateTicket",
           "promoteToProblem", "requestCab", "watchTicket", "unwatchTicket",
           "heartbeatPresence", "leavePresence", "listWorkLogs", "addWorkLog", "deleteTicket",
           "addComment"}
    BY DEF TicketRowCalls
  <2>2. QED
    BY <1>4, <2>1, TicketRowCallsAsk
<1>5. CASE call \in DOMAIN TicketViewCalls
  <2>1. DOMAIN TicketViewCalls =
          {"ticketMeta", "listSavedViews", "createSavedView", "deleteSavedView"}
    BY DEF TicketViewCalls
  <2>2. QED
    BY <1>5, <2>1, TicketViewCallsAsk
<1>6. CASE call \in DOMAIN ImCalls
  <2>1. DOMAIN ImCalls =
          {"listImIncidents", "getImDashboard", "getImIncident", "createImIncident",
           "addImUpdate", "updateImStatus", "getImPir", "assignImRole"}
    BY DEF ImCalls
  <2>2. QED
    BY <1>6, <2>1, ImCallsAsk
<1>7. CASE call \in DOMAIN AutomationCalls
  <2>1. DOMAIN AutomationCalls =
          {"listAutomationRules", "createAutomationRule", "updateAutomationRule"}
    BY DEF AutomationCalls
  <2>2. QED
    BY <1>7, <2>1, AutomationCallsAsk
<1>8. CASE call \in DOMAIN OrgCalls
  <2>1. DOMAIN OrgCalls =
          {"listTeams", "listLocations", "createLocation", "updateLocation",
           "deactivateLocation", "listDepartments", "createDepartment", "updateDepartment",
           "deactivateDepartment", "createTeam", "updateTeam", "addTeamMember",
           "removeTeamMember"}
    BY DEF OrgCalls
  <2>2. QED
    BY <1>8, <2>1, OrgCallsAsk
<1>9. CASE call \in DOMAIN RoutingCalls
  <2>1. DOMAIN RoutingCalls =
          {"assignmentRules", "createAssignmentRule", "listSkills", "createSkill",
           "getUserSkills", "setUserSkills", "slaPolicies", "createSlaPolicy"}
    BY DEF RoutingCalls
  <2>2. QED
    BY <1>9, <2>1, RoutingCallsAsk
<1>10. CASE call \in DOMAIN ReportCalls
  <2>1. DOMAIN ReportCalls =
          {"reportSummary", "reportStages", "reportHeatmap", "listReportSchedules",
           "createReportSchedule", "updateReportSchedule", "deleteReportSchedule",
           "runReportSchedule"}
    BY DEF ReportCalls
  <2>2. QED
    BY <1>10, <2>1, ReportCallsAsk
<1>11. CASE call \in DOMAIN KpiCalls
  <2>1. DOMAIN KpiCalls =
          {"reportImsKpis"}
    BY DEF KpiCalls
  <2>2. QED
    BY <1>11, <2>1, KpiCallsAsk
<1>12. CASE call \in DOMAIN DownloadCalls
  <2>1. DOMAIN DownloadCalls =
          {"downloadReportCsv", "downloadReportPdf", "downloadTicketsCsv", "downloadAuditCsv",
           "reportWorkspace"}
    BY DEF DownloadCalls
  <2>2. QED
    BY <1>12, <2>1, DownloadCallsAsk
<1>13. CASE call \in DOMAIN NotificationCalls
  <2>1. DOMAIN NotificationCalls =
          {"notifications", "notificationUnreadCount", "markNotificationRead",
           "markAllNotificationsRead", "notificationPreferences", "setNotificationPreference",
           "notificationDigestSettings", "setNotificationDigestSettings"}
    BY DEF NotificationCalls
  <2>2. QED
    BY <1>13, <2>1, NotificationCallsAsk
<1>14. CASE call \in DOMAIN KnowledgeCalls
  <2>1. DOMAIN KnowledgeCalls =
          {"knowledge", "getKnowledge", "knowledgeFeedback", "knowledgeDeflectionAnalytics"}
    BY DEF KnowledgeCalls
  <2>2. QED
    BY <1>14, <2>1, KnowledgeCallsAsk
<1>15. CASE call \in DOMAIN AiCalls
  <2>1. DOMAIN AiCalls =
          {"aiClassify", "aiSummarize", "aiDuplicates", "aiSlaRisk", "aiSuggestKnowledge"}
    BY DEF AiCalls
  <2>2. QED
    BY <1>15, <2>1, AiCallsAsk
<1>16. CASE call \in DOMAIN ArticleCalls
  <2>1. DOMAIN ArticleCalls =
          {"createKnowledge", "updateKnowledge", "publishKnowledge",
           "listKnowledgeAttachments", "uploadKnowledgeMedia", "uploadKnowledgeAttachment",
           "downloadKnowledgeAttachment"}
    BY DEF ArticleCalls
  <2>2. QED
    BY <1>16, <2>1, ArticleCallsAsk
<1>17. CASE call \in DOMAIN CatalogCalls
  <2>1. DOMAIN CatalogCalls =
          {"catalog", "createCatalogItem", "updateCatalogItem", "requestCatalogItem"}
    BY DEF CatalogCalls
  <2>2. QED
    BY <1>17, <2>1, CatalogCallsAsk
<1>18. CASE call \in DOMAIN AssetCalls
  <2>1. DOMAIN AssetCalls =
          {"assets", "asset", "assetTypes", "assetStatuses", "assetAssignees", "createAsset",
           "updateAsset", "deleteAsset", "downloadAssetsCsv", "linkAssetToTicket",
           "assetRelationTypes", "assetRelations", "createAssetRelation",
           "deleteAssetRelation", "assetImpact", "discoveryImportAssets"}
    BY DEF AssetCalls
  <2>2. QED
    BY <1>18, <2>1, AssetCallsAsk
<1>19. CASE call \in DOMAIN ApprovalCalls
  <2>1. DOMAIN ApprovalCalls =
          {"approvals", "decideApproval", "approvalPolicies", "createApprovalPolicy",
           "updateApprovalPolicy"}
    BY DEF ApprovalCalls
  <2>2. QED
    BY <1>19, <2>1, ApprovalCallsAsk
<1>20. CASE call \in DOMAIN UserCalls
  <2>1. DOMAIN UserCalls =
          {"listUsers", "createUser", "updateUser", "resetUserPassword", "deleteUser",
           "rolesMatrix", "setUserAccess"}
    BY DEF UserCalls
  <2>2. QED
    BY <1>20, <2>1, UserCallsAsk
<1>21. CASE call \in DOMAIN AttachmentCalls
  <2>1. DOMAIN AttachmentCalls =
          {"listAttachments", "uploadAttachment", "downloadAttachment", "attachmentLimits"}
    BY DEF AttachmentCalls
  <2>2. QED
    BY <1>21, <2>1, AttachmentCallsAsk
<1>22. CASE call \in DOMAIN BrandingCalls
  <2>1. DOMAIN BrandingCalls =
          {"branding", "updateBrandingTheme", "uploadBrandingLogo", "uploadBrandingBanner",
           "resetBranding"}
    BY DEF BrandingCalls
  <2>2. QED
    BY <1>22, <2>1, BrandingCallsAsk
<1>23. CASE call \in DOMAIN IntegrationCalls
  <2>1. DOMAIN IntegrationCalls =
          {"integrationsStatus", "simulateChatTicket", "pollImap", "webhookEvents",
           "webhookEndpoints", "createWebhookEndpoint", "updateWebhookEndpoint",
           "deleteWebhookEndpoint", "testWebhookEndpoint", "webhookDeliveries"}
    BY DEF IntegrationCalls
  <2>2. QED
    BY <1>23, <2>1, IntegrationCallsAsk
<1>24. CASE call \in DOMAIN AuditCalls
  <2>1. DOMAIN AuditCalls =
          {"audit", "auditFacets", "listAuditExportSchedules", "createAuditExportSchedule",
           "updateAuditExportSchedule", "deleteAuditExportSchedule", "runAuditExportSchedule",
           "listAuditExportRuns"}
    BY DEF AuditCalls
  <2>2. QED
    BY <1>24, <2>1, AuditCallsAsk
<1>25. QED
  BY <1>1, <1>2, <1>3, <1>4, <1>5, <1>6, <1>7, <1>8, <1>9, <1>10, <1>11, <1>12, <1>13, <1>14,
     <1>15, <1>16, <1>17, <1>18, <1>19, <1>20, <1>21, <1>22, <1>23, <1>24 DEF Api
=============================================================================

-------------------------------- MODULE Portal --------------------------------
(***************************************************************************)
(* One browser tab, the API behind it, and an administrator who changes    *)
(* the access of its user meanwhile.  A page asks for the user when it     *)
(* opens and keeps what it got: gates, menus and buttons go by this copy   *)
(* (`held`), the answers of the API by the account of the moment.          *)
(*                                                                         *)
(* The calls of a page are made one by one; the code makes some of them    *)
(* at the same time, and any of them may then be the one that fails.       *)
(***************************************************************************)
EXTENDS WorkPages, Naturals

CONSTANTS
  FirstAccounts,  \* accounts a behaviour may start with, as setAccess left them
  Grants,         \* bound: what an administrator gives, a role and a payload
  MaxGrants       \* bound: changes of the access in a behaviour

ASSUME PortalAssumption ==
  /\ FirstAccounts \subseteq Accounts /\ MaxGrants \in Nat
  /\ \A account \in FirstAccounts : account.extras \cap RolePermissions[account.role] = {}
  /\ \A grant \in Grants : grant.role \in RoleCodes /\ grant.payload \in SUBSET (SUBSET PermissionCodes)

VARIABLES
  access,   \* the role and the extra permissions in the database
  live,     \* TRUE if the cookie of the tab opens a session
  held,     \* the access that the page got when it opened
  tie,      \* what the user is to the ticket in question
  page,     \* the page of the tab
  phase,    \* "opening", "loading", "shown" or "acting"
  button,   \* the button that was pressed last, or "none"
  next,     \* the step of the page or of the button that comes next
  refused,  \* TRUE if a failure is on display
  fresh,    \* history: FALSE once the access changed after the page got it
  promise,  \* history: the page that was promised to the user, or "none"
  grants    \* history: changes of the access

tabVars == <<held, tie, page, phase, button, next, refused, fresh, promise>>
portalVars == <<access, live, grants, tabVars>>

Ties == {{}, {"requester"}, {"assignee"}}

Plain(user) == IF Meets(user, ShowAgentWorkspace) THEN {} ELSE {"plain"}

Holder == AuthUser(held) \cup Plain(AuthUser(held)) \cup tie
Caller == AuthUser(access) \cup tie

PortalInit ==
  /\ access \in FirstAccounts /\ held = access /\ live = FALSE /\ tie = {}
  /\ page = "login" /\ phase = "shown" /\ button = "none" /\ next = 1
  /\ refused = FALSE /\ fresh = TRUE /\ promise = "none" /\ grants = 0

Enter(p) ==
  /\ page' = p /\ phase' = "opening" /\ button' = "none" /\ next' = 1 /\ refused' = FALSE

(* The tie that matters after an answer: the user is the requester of what
   the form of a list has just created, and the board has only tickets that
   the service shows. *)
TieAfter(call) ==
  CASE call = "createTicket" -> {{"requester"}}
    [] call = "ticketBoard" -> {t \in Ties : Meets(AuthUser(access) \cup t, {Visible})}
    [] OTHER -> {tie}

(* A failed step is ignored, put on display, or drives the tab to a page. *)
Fails(step, after) ==
  CASE step.fails = "ignored" -> next' = after /\ UNCHANGED <<page, phase, button, refused>>
    [] step.fails = "error" -> phase' = "shown" /\ refused' = TRUE /\ next' = 1 /\ UNCHANGED <<page, button>>
    [] OTHER -> Enter(step.fails)

(***************************************************************************)
(* A page opens and loads                                                  *)
(***************************************************************************)
(* The form of the login page is for those without a session. *)
OpenLogin ==
  /\ page = "login" /\ phase = "opening"
  /\ IF live THEN Enter("home") ELSE phase' = "shown" /\ UNCHANGED <<page, button, next, refused>>
  /\ UNCHANGED <<access, live, held, tie, fresh, promise, grants>>

OpenPage ==
  /\ page # "login" /\ phase = "opening"
  /\ LET p == AllPages[page] IN
     IF ~Succeeds(live, Caller, p.who.call, p.who.fields)
     THEN Enter(p.who.fails) /\ UNCHANGED <<held, fresh>>
     ELSE /\ held' = access /\ fresh' = TRUE
          /\ IF Meets(AuthUser(access), p.gate)
             THEN phase' = "loading" /\ UNCHANGED <<page, button, next, refused>>
             ELSE Enter(p.other)
  /\ UNCHANGED <<access, live, tie, promise, grants>>

LoadStep ==
  /\ phase = "loading"
  /\ IF next > Len(AllPages[page].load)
     THEN phase' = "shown" /\ next' = 1 /\ UNCHANGED <<page, button, refused, tie>>
     ELSE LET step == AllPages[page].load[next] IN
          IF Meets(Holder, step.when) => Succeeds(live, Caller, step.call, step.fields)
          THEN next' = next + 1 /\ tie' \in TieAfter(step.call) /\ UNCHANGED <<page, phase, button, refused>>
          ELSE Fails(step, next + 1) /\ UNCHANGED tie
  /\ UNCHANGED <<access, live, held, fresh, promise, grants>>

(***************************************************************************)
(* The user goes to another page                                           *)
(***************************************************************************)
(* The cards of the agents' home page. *)
AgentCards ==
  [tickets |-> WritesTickets, queue |-> Free, im |-> Needs("im:read"), major |-> Free,
   approvals |-> Needs("approvals:read"), integrations |-> Needs("sysadmin")]

(* Without the report of the workspace the agents get the home page of the
   others; whether it came is not remembered, so that they may find either. *)
HomeEntries ==
  WorkspaceNextActions(Holder) \cup (IF "plain" \in Holder THEN {} ELSE Offered(Holder, AgentCards))

MenuEntries == NavForUser(Holder) \cup {"notifications", "profile"} \cup (IF page = "home" THEN HomeEntries ELSE {})

(* The pages whose rows lead to the page of one ticket, incident or article. *)
RowsLeadTo(p) ==
  CASE p \in {"home", "ticket", "queue", "major", "problems", "changes", "notifications"} -> {"ticket"}
    [] p \in {"tickets", "reports"} -> {"ticket", "article"}
    [] p = "im" -> {"incident"} [] p = "incident" -> {"ticket"} [] p = "knowledge" -> {"article"} [] OTHER -> {}

Current == live /\ fresh

(* A row promises nothing.  The client shows the knowledge base to everybody,
   also to those whom its page sends home: this entry promises nothing either. *)
Promises(entry) == Current /\ entry \notin RowsLeadTo(page) \cup {"knowledge"}

Entries == IF phase = "shown" /\ page # "login" THEN MenuEntries \cup RowsLeadTo(page) ELSE {}

TiesOn(p) == IF p = "ticket" THEN Ties ELSE {{}}

(* For each p of Entries. *)
GoTo(p) ==
  /\ Enter(p) /\ tie' \in TiesOn(p) /\ promise' = (IF Promises(p) THEN p ELSE "none")
  /\ UNCHANGED <<access, live, held, fresh, grants>>

(***************************************************************************)
(* The user presses a button                                               *)
(***************************************************************************)
Buttons ==
  IF phase = "shown" /\ page \in DOMAIN ButtonsOf
  THEN LET offered == ButtonsOf[page]
           user == Holder
       IN  {b \in DOMAIN offered : Meets(user, offered[b].offer)}
  ELSE {}

(* For each b of Buttons. *)
Press(b) ==
  /\ phase' = "acting" /\ button' = b /\ next' = 1 /\ refused' = FALSE
  /\ promise' = (IF Current THEN page ELSE "none")
  /\ UNCHANGED <<access, live, held, tie, page, fresh, grants>>

(* A changed password ends the sessions of the user. *)
SendStep ==
  /\ phase = "acting" /\ next <= Len(ButtonsOf[page][button].sends)
  /\ LET step == ButtonsOf[page][button].sends[next] IN
     \/ /\ Meets(Holder, step.when) /\ Succeeds(live, Caller, step.call, step.fields)
        /\ next' = next + 1 /\ live' = (step.call # "changePassword")
        /\ tie' \in TieAfter(step.call) /\ UNCHANGED <<page, phase, button, refused>>
     \/ /\ Meets(Holder, step.when) /\ ~Succeeds(live, Caller, step.call, step.fields)
        /\ Fails(step, next + 1) /\ UNCHANGED <<live, tie>>
     \/ /\ ~step.sure \/ ~Meets(Holder, step.when)
        /\ next' = next + 1 /\ UNCHANGED <<page, phase, button, refused, live, tie>>
  /\ UNCHANGED <<access, held, fresh, promise, grants>>

FinishButton ==
  /\ phase = "acting" /\ next > Len(ButtonsOf[page][button].sends)
  /\ LET to == ButtonsOf[page][button].next IN
     IF to = "stay"
     THEN phase' = "shown" /\ next' = 1 /\ UNCHANGED <<page, button, refused, promise, tie>>
     ELSE Enter(to) /\ promise' = "none" /\ tie' \in TiesOn(to)
  /\ UNCHANGED <<access, live, held, fresh, grants>>

(***************************************************************************)
(* Signing in and out, and what others do                                  *)
(***************************************************************************)
SignIn ==
  /\ page = "login" /\ phase = "shown"
  /\ live' = TRUE /\ Enter("home")
  /\ UNCHANGED <<access, held, tie, fresh, promise, grants>>

(* The answer of logout is not looked at: the session may be still there, and
   then the public page that follows leads home, like the login page. *)
SignOut ==
  /\ page # "login" /\ phase = "shown"
  /\ live' \in {live, FALSE} /\ Enter("login") /\ tie' = {} /\ promise' = "none"
  /\ UNCHANGED <<access, held, fresh, grants>>

(* The session expires, or the account is deactivated and activated again. *)
SessionEnds ==
  /\ live /\ live' = FALSE /\ promise' = "none"
  /\ UNCHANGED <<access, held, tie, page, phase, button, next, refused, fresh, grants>>

SetAccess(grant) ==
  /\ grants < MaxGrants /\ grants' = grants + 1
  /\ access' = AccessAfter(access, grant.role, grant.payload)
  /\ fresh' = FALSE /\ promise' = "none"
  /\ UNCHANGED <<live, held, tie, page, phase, button, next, refused>>

TabWorks == OpenLogin \/ OpenPage \/ LoadStep \/ SendStep \/ FinishButton

PortalNext ==
  \/ TabWorks
  \/ \E p \in Entries : GoTo(p)
  \/ \E b \in Buttons : Press(b)
  \/ SignIn \/ SignOut \/ SessionEnds
  \/ \E grant \in Grants : SetAccess(grant)

PortalSpec == PortalInit /\ [][PortalNext]_portalVars /\ WF_portalVars(TabWorks)

PortalTypeOK ==
  /\ access \in Accounts /\ held \in Accounts /\ live \in BOOLEAN /\ tie \in Ties
  /\ page \in DOMAIN AllPages \cup {"login"} /\ phase \in {"opening", "loading", "shown", "acting"}
  /\ button = "none" \/ (page \in DOMAIN ButtonsOf /\ button \in DOMAIN ButtonsOf[page])
  /\ next \in 1..(1 + CASE phase = "loading" -> Len(AllPages[page].load)
                       [] phase = "acting" -> Len(ButtonsOf[page][button].sends) [] OTHER -> 0)
  /\ refused \in BOOLEAN /\ fresh \in BOOLEAN
  /\ promise \in DOMAIN AllPages \cup {"none"} /\ grants \in 0..MaxGrants
  /\ access.extras \cap RolePermissions[access.role] = {}

(***************************************************************************)
(* What the menus take for granted: whoever has the code has one of the    *)
(* others too.  Neither the API nor the editor of Roles & Access asks for  *)
(* it; the roles of the seed respect it.                                   *)
(***************************************************************************)
PresumedByMenus ==
  {<<"users:manage", {"users:read"}>>, <<"users:manage", {"roles:manage"}>>, <<"roles:manage", {"users:read"}>>,
   <<"org:manage", {"org:read"}>>}

Respects(user, presumed) == \A rule \in presumed : rule[1] \in user => rule[2] \cap user # {}

(* Whoever follows an entry of the menus or of the home page gets to that
   page, and nothing of it is refused, as long as nobody changes the access:
   the menus, the gates of the pages, what they load and the decorators of
   the routes agree, for every role with every set of extra permissions that
   respects what the menus presume. *)
OfferedPagesOpen ==
  promise # "none" /\ button = "none" /\ Respects(Caller, PresumedByMenus) => page = promise /\ ~refused

(* Where a page and the API disagree: the page offers the button to users of
   whom the API asks for one of the permissions of the third part besides.
   An auditor, who reads all tickets and writes none, is offered the forms of
   a ticket; whoever manages users, a list that only those who read them get. *)
AsksMore ==
  {<<"ticket", b, {"requester"} \cup Writes>> :
     b \in {"status", "impact", "assignment", "location", "assignToMe", "major"}}
  \cup {<<"ticket", b, StaffTickets>> : b \in {"assignment", "analysis", "plan", "cab"}}
  \cup {<<"ticket", "assignToMe", StaffTickets \cup {"requester"}>>, <<"ticket", "unlink", Writes>>,
        <<"ticket", "attach", AttachmentReaders>>, <<"tickets", "assist", {"knowledge:read"}>>,
        <<"article", "feedback", {"knowledge:read"}>>, <<"incident", "role", {"im:write"}>>}
  \cup {<<"users", b, {"users:read"}>> : b \in {"create", "save", "delete"}}
  \cup {<<"roles", "save", {code}>> : code \in {"users:manage", "roles:manage", "users:read"}}
  \cup {<<"teams", b, {"org:read"}>> : b \in {"create", "save", "addMember", "removeMember"}}
  \cup {<<p, b, {"org:read"}>> : p \in {"departments", "locations"}, b \in {"create", "save", "deactivate"}}
  \cup {<<"routing", b, {"org:read"}>> : b \in {"createRule", "createSkill", "loadSkills", "saveSkills"}}

Agree(user, p, b) == \A more \in AsksMore : more[1] = p /\ more[2] = b => more[3] \cap user # {}

(* As long as the access is that of the page, a button that the page offers
   is refused only where AsksMore says so, and only to a user who lacks what
   it names: everywhere else what the page shows and what the decorators and
   the services ask for agree, whatever the role and the permissions. *)
OfferedIsAllowed ==
  promise # "none" /\ button # "none" => page = promise /\ (refused => ~Agree(Caller, page, button))

(* Redirects end: a tab that opens a page, loads or waits for answers comes
   to rest, on whatever page, however the access changes meanwhile. *)
RedirectsEnd == (phase # "shown") ~> (phase = "shown")
=============================================================================

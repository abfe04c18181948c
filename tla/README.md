# Verification of koa.ticket (LogIt)

LogIt is an IT service desk: a NestJS API over PostgreSQL (`src/apps/api`), a worker
process for the SLA clocks (`src/apps/worker`), a Next.js client (`src/apps/web`) and a
package of shared constants (`src/packages/shared`). This directory holds TLA+ models of
the parts of it where steps of several actors meet, the TLC runs that check them, and
TLAPS proofs of what holds for every size of the system.

## 1. How the system works, and what is hard about it

Everything that matters is in the database. A request handler is an `async` method of a
service: it awaits a read, checks what it read, and awaits one write after the other.
Only a few places use a transaction (`merge`, the replacement of policy steps, ticket
numbers, the creation of the SLA rows, password reset), and their checks are made before
it begins. Node runs handlers one await at a time, so between any two awaits of one
handler any others may run: other requests, the pollers that `setInterval` starts, and
the worker, which is a process of its own. A process may stop at any await; nothing is
recovered afterwards but what was written.

So the models of the services are all built the same way: one action per await (or per
group of awaits that nothing can tell apart), what a handler has read kept in a variable
until it is used, and a restart action that forgets it.

The web client is the other half of the system, and its difficulty is another one: it
decides what to show by a copy of the user it got when a page opened, while the API
decides by what the database says at each call, and both repeat the same conditions in
different places (menus, gates of pages, buttons, decorators of routes, checks in
services).

| Component | State | Operations | Interacts with | Hard |
|---|---|---|---|---|
| Ticket lifecycle (`tickets.service.ts`, `sla.poller.ts`, `seed.ts`) | row: status, version, timestamps, merge link | create, update, addComment, requestCab, merge, softDelete, autoCloseResolved | approvals write the status; SLA reads it | check and write are separate; five writers of one column |
| Approvals (`approvals.service.ts`) | approval rows, policy and its steps | createForTicket, decide, updatePolicy | called by create and requestCab; ends in a status change | chains of writes without a transaction; concurrent approvers; steps replaced under rows |
| Ticket hierarchy (`tickets.service.ts`) | parentId | linkChild, unlinkChild, promoteToProblem, merge | merge reparents | the cycle check walks outside a transaction; merge has none |
| SLA engine (`sla.service.ts`, `worker/src/main.ts`) | one row per metric: dueAt, pausedAt, breachedAt, completedAt, last escalation | createForTicket, processDue, tickSla, merge | reads status and timestamps; reassigns team | two processes on the same rows; pause arithmetic; escalation before its record |
| Business hours (`business-hours.ts`) | the cursor of a walk over the days | addBusinessMinutes | due dates of the SLA rows | windows, holidays, boundaries |
| Automation, assignment (`automation.service.ts`, `assignment.service.ts`) | rules, the team and assignee of a new row | resolveRouting, pickLeastLoadedAssignee, evaluateOnCreate | ticket creation | rules run over a copy of the row; counts that are stale |
| Numbering | sequence per prefix and year | nextNumber | creation, incidents | uniqueness under concurrency |
| Notifications and digest (`notification-digest.*`) | watermark per user | notify, markRead, processDueDigests | email | send and record are two steps; quiet hours; what arrives during a tick |
| Authentication (`auth.service.ts`, `auth-challenge.service.ts`, `session.service.ts`) | failure counter, lock, second factor, challenges, reset tokens, sessions | login, verifyMfaLogin, completeEntra, changePassword, resetPassword, MFA setup | administration of users | counter and one-time tokens are read then written |
| Inbound mail (`integrations.service.ts`, `imap-poller.service.ts`) | message ids and their tickets | handleInboundEmail, pollOnce | creates tickets and comments | redelivery, restart before the record, threading |
| Webhooks (`webhooks.service.ts`) | endpoints, delivery log | emit, testPing, deliverOne, pruneDeliveries | ticket events | parallel deliveries trim one log in two queries |
| Presence (`presence.service.ts`, ticket page) | entries in Redis or memory | heartbeat, list, leave | the page of a ticket | fallback that never goes back; a goodbye that overtakes |
| Incident management (`im.service.ts`) | status, commander, roles | create, assignRole, updateStatus | numbering | two writes per change of commander |
| Scheduled reports and exports (`*-schedule.runner.ts`) | lastRunAt | runDue, runOne, administration | email | send then mark; a schedule that always fails |
| Roles and permissions (`packages/shared`, `seed.ts`, guards, `setAccess`) | role and extra permissions of a user | setAccess, PermissionsGuard | every route and page | the same condition written in four places |
| HTTP API (controllers) | none | every route | guards | the order of routes; what each demands |
| Web client (`apps/web`) | the user a page holds | pages, buttons, redirects | every route | a copy that is stale; gates, menus and buttons that must agree with the API |
| Audit, reports, assets, knowledge, catalog, attachments, branding, email transport, AI | records | administration, reading, I/O | | no protocol of several steps: not modelled beyond their routes and pages |

What makes each component correct is stated as properties below; `PROJECT.json` lists
the hazards, each at its line, with the properties that cover it.

## 2. The modules

| Module | Models | Composed of |
|---|---|---|
| `TicketStatuses` | status codes, their flags and the transition table as `prisma/seed.ts` seeds them | constants only |
| `Tickets` | the ticket rows and every handler that writes a status: `TicketsService`, `ApprovalsService.applyTicketStatus`, `SlaPollerService.autoCloseResolved` | `TicketStatuses` |
| `ApprovalRound` | what an approval policy promises about one ticket (abstract) | |
| `Approvals` | approval rows, decisions, policy edits (`ApprovalsService`) together with the ticket rows | `Tickets`; instances of `ApprovalRound` and, by refinement, of `Tickets` |
| `BusinessHours` | `addBusinessMinutes`: when a number of open minutes has passed | |
| `SlaClock` | the SLA rows of one ticket, the API poller (`processDue`) and the worker (`tickSla`) | `TicketStatuses` |
| `TicketTree` | parent links: creation, `linkChild`, `unlinkChild`, `promoteToProblem`, `merge` | |
| `Digest` | notifications and the digest mails about them | |
| `InboundMail` | mails that become tickets and comments, by IMAP and by webhook | |
| `Webhooks` | endpoints, deliveries, the delivery log | |
| `Presence` | who else has a ticket open: page, server, Redis and memory | |
| `ExportSchedules` | scheduled reports and audit exports | |
| `Incidents` | major incidents, their commander, and the number sequence | |
| `Login` | one account with its lock, second factor, challenges, reset tokens and sessions | |
| `Routing` | assignment rules, the pick of an assignee, automation rules | |
| `Access` | permission codes, roles, `setAccess`, guard, menus and home-page suggestions | |
| `ApiRoutes` | the routes of the controllers with what they demand | `Access` |
| `ApiClient` | the functions of `lib/api.ts` and the request each sends | `ApiRoutes` |
| `Pages`, `WorkPages` | the pages of the client: gate, load, buttons | `ApiClient`; `Pages` |
| `Portal` | a tab, the API behind it, an administrator | `WorkPages` |
| `MCTickets`, `MCApprovals`, `MCSlaClock` | instances for TLC | |
| `MCServices` | the components that share no state, side by side | all of the above but `Approvals`, `ApprovalRound` and `SlaClock` |
| `TicketsProofs`, `ApprovalsProofs`, `SlaClockProofs` | theorems and their proofs | the module of that name |
| `HandlerProofs` | theorems about what HTTP handlers do to shared rows, and about the computation of due times | `Login`, `TicketTree`, `Presence`, `Incidents`, `Routing`, `BusinessHours` |
| `PollerProofs` | theorems about the jobs beside the handlers | `Digest`, `InboundMail`, `ExportSchedules`, `Webhooks` |
| `RouteProofs` | which route answers each function of the client, and what it demands | `ApiClient` |
| `PortalProofs` | theorems about the tab: its pages and its buttons | `Portal`, `RouteProofs` |
| `ServicesProofs` | the components side by side keep what each of them keeps | `MCServices`, `HandlerProofs`, `PollerProofs`, `PortalProofs` |

Definitions marked *wrong variant* are bugs a change to the code could plausibly bring
in (a dropped filter, a missing increment, a swapped order). Each property is known to
tell the code from one of them; `PROJECT.json` "mutants" lists the pairs. No
specification uses them.

### 2.1 Tickets

State: `ticket[t]` is the row (status, version, `resolvedAt`, `closedAt`,
`firstResponseAt`, merge link, `deletedAt` as a flag, and the time of the requester's
latest public comment); `req[r]` is a request being served, with the row as it read it
(`seen`); `poller` is the page the auto-close poller is working through; `now` the clock.

Every handler is a `Begin...` action (read, authorise, validate) and a `Complete...`
action (the write by id), because that is what the code does: `update` reads at line 977
and writes at 1373, and many awaits lie in between. `addComment` is three steps
(read, insert, stamp `firstResponseAt`). `merge` validates before its transaction and
writes in it. The poller reads a page (`PollScan`), looks for a requester's comment
ticket by ticket (`PollInspect`) and closes by id (`PollClose`). Creation, deletion and
`promoteToProblem` as far as the new row goes are one action each: nothing else reads a
row before it is there. `Abandon` ends a handler before its write (an await that
rejects, a save without changes), `Crash` forgets everything in memory. The guards are
the code's: the version test of `update` (line 987), the transition looked up for the
status that was read, the checks on types, deletion and merge links.

Left out: columns no guard here reads (title, priority, team, parent, custom fields; an
edit of those alone is the target `"keep"`), history, notifications, webhooks, and the
permissions of the roles, of which only staff or requester is kept.

### 2.2 Approvals

State: `approval` is the table in the order of insertion; `flow[r].pc` says at which
await the approval work of request `r` is; `edition` is the set of steps the policy
has now (each replacement begins a new one, because it deletes the step rows),
`active` its flag, `editing` an `updatePolicy` between its count and its transaction.

`Route`, `InsertRow` are `createForTicket`, `resolvePolicy` and `spawnStep`, with one
insert per await. `BeginDecide`, `WriteDecision`, `CountPending`, `ClosePeers`,
`CloseRound`, `ApplyTicketStatus` are the awaits of `decide` and its finalisers. The
verdict that `Tickets` admits at any time is here the end of that chain, and `SubmitToCab`
is `requestCab` from the status change on. `ImplementsTickets` states that the
composition does to ticket rows only what `Tickets` allows: what is shown of `Tickets`
carries over.

Two decisions of the model to know about. A step of a policy has at least one approver:
when nobody holds the step's role the code logs a warning and creates no row
(`approvals.service.ts:248`), which leaves the ticket in `pending_approval` with nobody
to decide; the model has that path (`Spawning`), the instances do not start from such a
policy. And there is one policy per type; the choice among several is not modelled.

### 2.3 SLA clocks

State: one row per metric (`clock`), the columns of the ticket the engine reads or
writes, `comments`, the staff comments that have read a ticket without a response and have
still to write theirs, and for each ticker what it has read and still has to do (`tick`). A tick reads
a page of open rows with their tickets (`TickBegin`), takes the time once, and handles
each row in one of five ways, as the code's chain of `continue`s does: `Hold` (the
status pauses and the row is not held), `Resume` (it no longer does; the due date moves,
and for the resolution clock is then copied to the ticket by `CopyDue`), `Stop` (the
response or resolution is there), `Consume` (breach or nothing), and in the API
`Escalate` followed by `Record`. The worker runs the same chain without escalations and
writes `breachedAt` back from the row it read. The API's poller never overlaps with
itself (`running`); the worker has no such flag, so a late worker is a ticker of its own.

`BeginComment` and `Respond` are the two halves of `addComment` (the read at line 1473, the
write at 1501), so two first comments that overlap both write, and the ticket shows the
later one. `history` remembers for the properties what no row shows any more: the responses
that were written, the announcements and the due dates that were cut short, and the clocks
that a tick resumed from a state they had left.

Left out: `percentConsumed` (nothing reads it back), who is notified, the assignee an
escalation clears with the team, and business hours, which are taken as always open.

### 2.4 Ticket tree

State: `node[t]` has the columns the hierarchy uses (type, `parentId`, deleted, merged),
`link[r]` what a handler has read and still has to write. `linkChild` is `BeginLink`
(the reads and checks), one `Climb` for each turn of its walk up the parents,
`RefuseCycle` or `EndClimb`, and `WriteParent`; `unlinkChild` is `BeginUnlink` and
`WriteParent`; `promoteToProblem` is `BeginPromote`, `RaiseParent`, `WriteParent`. `merge`
reads sources and their children (`BeginFold`) and later writes by id, source after
source (`Fold`): a child of a source gets the primary as its parent, a source loses its
parent, and the order in which the query returned the sources, which the code leaves to
the database, decides about a source that is a child of another.

### 2.5 Digest

State: `note` (absent, unread, read), `setting`, and the watermark, which is kept as what
the code compares: `newer[u]`, the notifications created after it, and `mark[u]`, its age
in hours. A tick (`DigestTick`) reads all users with their settings and watermarks, then
handles them one by one: `NotDue`, `MarkEmpty`, or `Compose`, `Post` and `MoveMark`. The
watermark becomes the time the tick began, so what arrived since is carried in
`digest.late`. `PostFails` is a refused letter, `DigestCrash` a restart, after which the
service ticks at once. `mailed` and `cut` record which notifications were in a letter or
beyond its 40 newest. Quiet hours, send hour and weekday are `IsDigestDue`, line by line.

### 2.6 Inbound mail

State: `known[m]` is the ticket of the row that makes a mail known, `filed[m]` what was
made of it, `courier[k]` the poller or the provider's webhook with the mail in hand,
`batch` the rest of the fetched page; `about`, `opener`, `discarded` are the tickets that
mails belong to. `Take` (look the Message-ID up), `Thread` (by the nearest known header,
then by the number in the subject), `FileComment` or `OpenTicket`, `RecordMail`,
`FlagSeen` are the awaits; `FailMail` is a rejection, after which the mail stays unseen.
The mailbox (`Arrive`, `flagged`) and the mails that go out (`SendOut`) are modelled from
their use: an unseen mail is fetched again. With `"unrecorded"` the row of a mail is not
written, an error the code swallows.

### 2.7 Webhooks, presence, schedules

`Webhooks`: `endpoint`, `logRows[e]` (the rows of the log with their place in the order of
`createdAt`) and `post[d]`, one delivery. `EmitEvent` starts one delivery per subscribed endpoint, all under way at the
same time; each goes through `Answer`, `LogDelivery`, `FindNewest` and `Drop`, of which
the last two are the queries of `pruneDeliveries`.

`Presence`: `viewer` and `due` are the pages, `keys` and `index` the Redis keys and set,
`memory` the fallback, `conn` and `failed` the client and its latch, `request[r]` a call.
`GetRedis` is `withRedis`: a second call while the client connects is refused by the
client and sets the latch, and nothing takes the latch back but a restart. `SwitchMode`
is the cleanup of the page's effect (a `leave`) and the new one (a heartbeat), which
nothing orders.

`ExportSchedules`: `plan[s]` is a row with the time since `lastRunAt`, `job` the runner and
the runs by hand. `RunDue` lists what is due, `NextExport`, `SendExport` or `SendFails`,
`MarkRan` follow; `MarkFails` is a mark that the database refuses after the mail has gone, which
the loop of the runner counts as an error and leaves for the next poll. Both runners (`report-schedule.runner.ts`, `audit-export-schedule.runner.ts`)
are this program over two tables; one is modelled and both are in the map.

### 2.8 Incidents, login, routing

`Incidents`: `bridge[i]` is the row with its roles and last status line, `lastValue` the
sequence, `console[c]` a handler. `DrawNumber` and `Declare` are `create`;
`BeginAssign`, `WriteRole`, `WriteCommander` are `assignRole`; `BeginStatus`,
`WriteStatus`, `TellStatus` are `updateStatus`.

`Login`: `account` is the user's row, `challenge`, `resetToken` and `session` the rows
given out for it, `handler[r]` what a handler read and has to do. Passwords and secrets
are versions, so that a session knows which password it was opened with. `misses` counts
the wrong passwords in a row, whatever the counter in the row says. `slips` and the flag
`late` of a session mark, for the properties, what an overlap or a stop has done: how many
failures writes by older reads took back from the counter (`lost`), whether the second
factor was last changed on a row that another change had overtaken (`crossed`), whether a
process stopped before it revoked (`cut`), and that a session was opened with a password
which had been replaced since it was checked.

`Routing`: `case[t]` has team, assignee, flag and state of a ticket, `clerk[r]` a creation
with the copy of the row that the automation rules are matched against and change. The
first active rule that fits names the team (`MatchRule`), `PickAgent` counts open tickets
per member, `CreateCase` writes what was found, `ApplyRule` is one turn of
`evaluateOnCreate`.

### 2.9 Portal

A condition on a user is a set of clauses, each a set of codes of which one is enough;
decorators, gates, menus and buttons are all tables of such conditions. `ApiRoutes` has
the routes in the order of the controllers, the codes of `RequirePermissions` and
`RequireAnyPermission`, and the checks that handlers make themselves; the route of a
request is the first that matches its path, as the router picks it. `Pages` and
`WorkPages` have, for each page, who gets in, what it loads in which order and what a
failure does (ignored, shown, or the tab is sent away), and for each button who sees it
and what it sends. `Portal` runs one tab over these tables: it opens pages, loads, goes
where menus and rows lead, presses buttons, signs in and out, while the session may end
and an administrator may change the access at any time. `held` is the user the page
holds, `access` the row, `fresh` says that nobody has changed the row since the page was
sent it: an access that is changed and changed back is not fresh, although `held = access`.
`tie` is what relates the user to the ticket at hand, as assignee or requester; after a
form of a list it is the requester of what was created, and the board shows only tickets
that `assertTicketVisible` lets through (`TieAfter`). The home page of the agents stands on
the report of their workspace; without it they get that of all others, with its suggestions
(`app/page.tsx:66` and `:140`), so that both are on offer to them (`HomeEntries`). `AsksMore`
is not part of the behaviour: it lists where a button and the API disagree, for the property.

### 2.10 Business hours

A creation of SLA rows asks `addBusinessMinutes` for two due times. `walk` is one such
computation: the calendar (hours and holidays), the start and the minutes asked for, the
`cursor`, the minutes that remain, the days walked. `AddMinutes` is the entry with its
early return to the clock on the wall; each day is skipped (`SkipDayOff`: a holiday, or no
hours on that weekday) or begun (`BeginDay`); its windows are taken by their start
(`Earliest`), passed (`PassWindow`) or found long enough (`FillWindow`); `EndDay` and the
skips move the cursor to the next midnight. `GiveUp` is the fallback after `MaxDays`.
`UseDue` ends it with the write of the rows. A time is a pair of day and minute, as the
code takes a date apart (`partsInTz`) and puts it together (`zonedLocalToUtc`) in one time
zone. That of the seed and of the schema's default is UTC all year, and the model has no
other: hours of two zones, and days on which a clock changes, are left out. Rows are
written by the seed alone; the windows of the instances are more varied than its five.

`DueInOpenTime` compares the walk with the definition it is meant to compute, a count of
single minutes.

### 2.11 The composition

The models of 2.4 to 2.10 share no variables. `MCServices` puts them side by side: a
variable `part` names the one that moves, the others keep their initial state. The
behaviours of a component are exactly those of its own specification, so every property
means what it means there, and the states of the components add up instead of
multiplying. The operations of `Login` come in three parts (sign-in, passwords, second factor),
each with two handlers that overlap and restart; the theorems are about all of them together.
The type invariants are one definition, `ServicesTypeOK`, with a conjunct
for each component.

Where components do share state they are composed in full: `Approvals` has the ticket
rows and all of `Tickets` in it, and implements it.

## 3. What is checked

| Run | Instance | Shows |
|---|---|---|
| `tickets_conc` | an incident and its problem, 2 requests, poller, restarts, 3 handlers at once | `TypeOK`, `VersionGuards`, `StatusStamped`, `MergedIsFinal`, `NoMergeCycle`, however handlers interleave |
| `tickets_races` | a change, 2 requests, verdicts, comments, CAB, poller, restarts, 3 handlers at once | `LegalMoves`, `AutoCloseJustified`, however handlers interleave |
| `approvals_round` | 2 access requests, policy any-then-all | one handler at a time, the round is the one the policy promises (`ImplementsRound`, `CurrentStepOnly`) |
| `approvals_conc` | a change, 2 requests, 2 editions of the policy, moves by hand, restarts | `ApprovalsTypeOK`, `StepsInOrder`, `ImplementsTickets` |
| `approvals_wait` | a change, all-then-any, 2 approvers at once | `NotStuck`: the last two approvers cannot each wait for the other |
| `sla_conc` | the resolution clock, poller and worker at once, holds, merge, restarts; 4,140,912 states | `SlaTypeOK`, `EscalatesOnce`, `DueAgrees` |
| `sla_serial` | both clocks, poller and worker one tick at a time, two comments that may overlap, merge, fair; 1,444,392 states | `ResponseIsTimed`, `BreachIsDue`, `ResponseIsNoticed` |
| `services_safe` | eleven components with restarts and failures; 1,270,611 states | `ServicesTypeOK` and the safety properties below |
| `services_live` | six components, fair; 202,079 states | the liveness properties below |
| `tickets_overwrite` | an incident, 2 edits | *violated*: `NoSilentOverwrite`; `docs/sops/00-glossary.md:29` promises that the version prevents silent overwrite |
| `approvals_early` | an access request, 2 requests | *violated*: `EveryApproverSigned`; the schema promises that in mode `all` every assignee must approve (`schema.prisma:1072`) |
| `sla_paused` | the resolution clock, the poller alone | *violated*: `EscalationIsDue`; SOP 12 line 14 says that the timer pauses |

Properties of `services_safe`:

- `CyclesComeFromMerging` (TicketTree): only a merge of a ticket into one below it closes
  a cycle of parents.
- `NothingSkipped` (Digest): the watermark passes over no unread notification that was
  not mailed or cut from a full letter, whatever arrives during a slow tick, whichever
  letters are refused and wherever the process restarts.
- `RowEndsFiling` (InboundMail): a mail that has its row becomes no second ticket or
  comment, however often it is fetched again.
- `LogBounded` (Webhooks): the log of an endpoint exceeds its limit by no more than the
  deliveries that are about to trim it or were stopped before.
- `OncePerDay` (ExportSchedules): the runner mails an export once a day; any more are
  runs by hand or follow a mail whose mark failed or was lost in a restart.
- `CommanderHasRole`, `NumbersUnique` (Incidents).
- `LocksInTime`, `PasswordEndsSessions`, `MfaIsUsable` (Login), with two handlers at once:
  the lockout is late by no more failures than overlapping writes took back from the counter;
  after the revocation a session of the old password is that of a sign-in which had checked
  it before, or of a challenge; a required second factor has a proved secret, unless its
  last change was written over another.
- `LastRuleWins` (Routing): the crew is that of the last automation rule that matches.
- `OfferedPagesOpen`, `OfferedIsAllowed` (Portal): whoever follows a menu gets to that
  page and nothing of it is refused; a button on offer is refused only where the table
  `AsksMore` names what the user lacks.

- `DueInOpenTime` (BusinessHours): a due time comes right after as many open minutes as were
  asked for, at the end of a window and not at the start of the next; the clock on the wall
  counts only where the walk ends before there are as many. It is about windows that share
  no minute: of two that overlap on one day the code counts the common minutes twice, and a
  due time comes too early. No row like that is seeded, and the unique key of
  `business_hours` would allow it.

Properties of `services_live`: `SilenceCloses` (a resolved ticket whose requester stays
silent is closed), `UnreadIsMailed` (a notification is mailed, read or cut in the end),
`MailIsFiled` (other mails that are rejected for ever delay no mail for ever), `PeersMeet`
(two people who stay on a ticket come to see each other), `ExportsRecur` (an
undeliverable schedule does not stop the others), `RedirectsEnd` (redirects between
pages end, however the access changes).

**What the violated runs show.** `tickets_overwrite`: both edits read version 1 and pass
the comparison, both write by id. `approvals_early`: Alice decides while Bob's row is
not inserted yet; the count of pending peers is 0, and the step is over without Bob.
`sla_paused`: a ticket due in 4 ticks is held for 2; the resume moves `dueAt` but not
`startedAt`, so one tick of work later 3 of 6 ticks count as consumed and the 50 %
warning goes out at 25 %.

**What overlap does.** Most writes of this code are by id, after checks on a row that was
read some awaits before, so most rules can be broken by two handlers. The properties
that are about such a rule name the way in which it is broken and exclude every other:

- *Ticket rows.* `LegalMoves`, `NoMergeCycle` and `AutoCloseJustified` hold of every write whose
  writer had read the version that it writes over; `MergedIsFinal` of everything that is
  begun after the merge. A status validated against an older one, two opposite merges, a
  reopened ticket on the poller's page are stale writes (`StaleWrite`), and the answer that
  comes after the poller has looked for one is the only other way. In other words: the
  comparison of versions that `update` makes before its write would be enough if the write
  itself made it. That it is made, and of every writer of the row, is what `VersionGuards`
  and the mutants with a missing increment are about.
- *SLA.* A threshold is announced again only where the share fell back over it (see below),
  where its sender stopped before `Record`, or where a tick resumed a clock from a row that
  had changed since it was read. The due date on the ticket parts from that of the clock
  only when a copy was cut short or crossed, until the next resume copies again.
  `ResponseIsTimed` excuses nothing: two first comments that overlap both write, a tick
  between them stops the clock at the first time, and the ticket shows the second; the
  clock still shows when a response was written.
- *Login.* See above; each exception is a flag that only the step in question sets.

Some properties are about one actor at a time and say nothing of two: `approvals_round` (one
handler; a change that is taken out of approval by hand and submitted again has pending rows
of two rounds even so), `BreachIsDue` (one tick; the worker writes back a breach it read),
`CyclesComeFromMerging` (one linker; two links made at once close a cycle),
`RowEndsFiling` (one courier; poller and webhook may both find no row), `LastRuleWins` (one
creation, no edits under it), `OncePerDay` (a poll is over before the next is due). The
theorems have exactly these conditions as hypotheses.

**Thresholds above 100 percent.** The seeded policies have one of 120 (`prisma/seed.ts:707`,
`docs/sops/12-sla-and-escalations.md:24`). A resume adds the length of the hold to the due
date and not to the start, so both the time used and the time allowed grow by it: a share
of less than 100 percent rises with a hold, a larger one falls back towards 100. With
thresholds of 100 and 150 TLC finds a clock that is announced at 150 percent, held, and
resumed at 125: the highest threshold reached is again 100, which is not the level that is
stored (`sla.service.ts:164` compares for equality), and the warning for 100 percent goes
out a second time. `FallsBack` says which thresholds that can happen to: the highest of at
most 100 and those above it, and only if there is one above 100. With the thresholds of the
run (50 and 100) it excuses nothing.

**What the client takes for granted.** `OfferedPagesOpen` is about users who respect
`PresumedByMenus`, permissions that the client assumes to come together although neither the
API nor the editor of roles asks for it; the roles of the seed do. Without it TLC finds that
`users:manage` alone opens pages that also load what needs `users:read` or `roles:manage`,
`roles:manage` alone one that needs `users:read`, and `org:manage` alone one that needs
`org:read`. The Knowledge entry of the menu is shown to everybody and sends those without
`knowledge:read` home.

`OfferedIsAllowed` presumes nothing. Where a page offers a button to users of whom the API asks
for more, `AsksMore` says which permissions, and the property is that there are no other
disagreements, for any role and any extra permissions. What the table says of the roles of
the seed, without any extra permission:

- The auditor, who reads all tickets and writes none, is shown the fields for status, impact,
  location and the major-incident flag, the unlink button and the feedback on articles, and
  is refused.
- Employees who are requester or assignee of a ticket are shown its analysis, the change
  plan, the CAB submission and the attachment form, which the service allows to staff or
  readers of attachments only.

Other entries need a role with extra permissions: `tickets:assign` without being staff (saving an
assignment sends the location too), `im:command` without `im:write`, `users:manage` without
`users:read`, `org:manage` without `org:read`, `roles:manage` without what its save button sends,
the assistant and `knowledge:read`.

**Bounds.** *Tickets, approvals, SLA.* Two tickets are enough for every merge (source and
primary) and for a page that does not hold all candidates; nothing in the code relates
three. Two requests give every pair of handlers, three in flight add the poller. Handlers
hold no locks and wait for nothing, so a third request adds no new dependency.
`MaxVersion` (3 to 4) lets a ticket be created, moved and moved back between the two halves
of a handler; `MaxTime` 2 with `CloseAfter = 1` separates "not yet due", "due" and
"answered later". Three users give a step of two approvers and an overlap of two steps;
two steps of both modes in both orders give every case of `isStepComplete`; two editions
give one replacement of steps under a round. For the SLA, a target of 2 or 4 ticks and a
clock that stops at 4 to 8 give a hold, a resume, a breach and thresholds on both sides of
it; two comments (`MaxComments`) are a first and one that overlaps it.

*Services.* Three tickets make a chain to walk and a merge of two sources of which one is
the child of the other. A day of 3 hours with the send hour in the middle and a week of 2
days give every side of each comparison of `isDigestDue`; two notifications and letters of
one make a letter full. Three mails (a question, an answer to our letter whose subject
kept the number, a follow-up from somebody else that refers to both) thread by header, by
subject and not at all, are allowed and are rejected. Two endpoints and three deliveries
with a log of one row let two deliveries trim the same log in either order. Two viewers
and one or two calls give both orders of goodbye and heartbeat, and the second call while
the client connects. Two schedules, one undeliverable, and two polls a day separate "ran
today" from "ran a day ago". Two incidents and two consoles give every pair of handlers.
One account with a limit of two failures has a failure before, at and after the limit, and
two handlers one that is lost.
Two routing and two automation rules overlap in one kind. A day of 4 minutes, a week of 3
days with 1 or 2 of them open, 18 calendars (no hours, one window, two with a gap, two
that overlap, empty and inverted ones; with up to 2 holidays), starts at each minute of
each weekday, 0 to 6 minutes and a walk of 6 days end a duration before, at and after the
end of a window, of a day and of the walk. For the portal every role with each of 8
bundles of extra permissions is an initial state, and one change of the access is made at
any moment. The theorems of the next section hold for every value of these constants.

Deadlock is not checked: the bounds stop every instance in the end, and a system whose
users ask for nothing is idle.

**Fairness.** Weak fairness only, of what the runtime does by itself: a handler whose
await has settled goes on (`Complete(r)`, `Work(k)`, `MailWork("imap")`, `Handle(r)`,
`RunnerWorks`, `Execute(j)`), `setInterval` goes on calling (`Poll`, `DigestWork` which
includes the tick, `FetchUnseen`, `RunDue`, `SendBeat(u)`), a tab goes through its page
(`TabWorks`), and where a timer depends on it, time passes (`HourPasses`,
`IntervalPasses`, `PollPasses`). A tick that throws is caught and logged. Nothing is
assumed about users: no action that starts a request is fair. `services_live` has no
restarts, because a process that restarts for ever need not get anywhere; a finite number
of them changes nothing that is eventually true. `SilenceCloses` needs `PageSize` to be no
less than the number of candidates, and `ResponseIsNoticed` no less than the number of
open rows: both queries take a fixed number (50, 200) without an order, and with a
smaller page TLC finds behaviours in which the same rows fill the page for ever.
`UnreadIsMailed` is about settings that leave an hour in which a digest may be sent: quiet
hours from the send hour to midnight leave none, and nothing is ever mailed.

## 4. What is proved

All theorems are for any tickets, requests, users, policies, targets and bounds that
satisfy the assumptions named in the modules (shapes of the constants, finite tables).
Where a theorem needs more than that it says so in its own `ASSUME`. Every invariant and action
property of the passing runs is stated by a theorem; the liveness properties are not.

*Tickets* (`TicketsProofs`). `VersionGuards` says that a handler whose row still has the
version it read is looking at the columns its guards read; `StatusStamped` that
resolved, closed and merged rows have their timestamps and link. Neither is inductive
alone: a handler's write is harmless only if what it holds came from its own guard
(`HandlerTargets`: only a merge writes "merged", and to another ticket) and is about rows
that exist (`PollerTickets`). `IInv` is the conjunction with `TypeOK`; `Invariance` proves
it action by action, `TypeCorrect`, `VersionIsASoundGuard` and `StatusIsStamped` follow.
The argument for versions: every action that writes a guarded column increments the
version, so an equal version means no such action ran.

`MovesAreLegal`, `MergingIsFinal`, `MergesAreAcyclic` and `AutoCloseIsJustified` need no more than
`IInv`, for any number of handlers in flight. `StepRow` says what one step does to a row:
it rests, moves along the transition table as seen by its writer, or is merged by one that
had read it unmerged (`MovedBy`); with `VersionGuards`, a writer that had read the present
version had read the present status. That two merges cannot both have read the present
version of their sources is the increment of the primary's version; the mutant
`CompleteMergeQuietly` leaves it out.

*Approvals* (`ApprovalsProofs`). `AInv` adds to `IInv` the shape of rows and flows and
`FlowMatches`: a flow inserts rows of step s only after a row of step s - 1 has been
decided, and a decision in progress holds the request it will end with. `StepsAreInOrder`
follows. `Refinement` proves `ApprovalsSpec => Spec`: each step of the composition is an
action of `Tickets` or leaves its variables alone. `VersionGuardsApprovals` is then one
step.

`SomebodyCanDecide` is about handlers that do overlap. `WaitInv` says that a ticket in
`pending_approval` has a pending row, or a flow that will insert one or release it
(`WorkLeft`), and that a verdict in progress read the ticket while it waited (`Harmless`).
The hard step is two approvers of a step in mode "all": whoever counts last sees no pending
peer, since each writes its own decision before it counts. Its hypothesis `Undisturbed` lists
what breaks it: a step without approvers or nobody to fall back on, a second way into
`pending_approval` (CAB or a move by hand), steps replaced under a round, a restart.

`OneStepAtATime` (one request at a time, no CAB): a flow finds the pending rows of its ticket
at its own step (`FlowAtStep`), and the next step is opened only when none are left. Restarts,
moves by hand and new editions of the policy are allowed.

`RoundIsKept` proves the refinement `ApprovalsSpec => ImplementsRound` under
`OnePolicyInForce`. The mapping computes the abstract round of each ticket from the approvals
table (the step with the highest number, who signed it, whether the ticket left approval).
`RoundInv` says where a flow is in the round when its `pc` says it is: before an insertion
the step before is over and nobody, or only those not yet asked, are without a row
(`InsertsInRound`); when a decision closes the step it is over, and when it applies the end
nothing is open and the step is the last (`DecidesInRound`); a step that nobody works on has
all its rows, none refused or closed for somebody else (`Fair`). Then an insertion of a first
row is the abstract opening of a step, a decision the abstract signature or refusal, and
everything else a stutter.

*SLA* (`SlaClockProofs`). `SInv` is `SlaTypeOK`, `ResponseIsTimed` and `SnapshotsAgree`: a
response that a tick has read was written, and nothing was held in the future (so a due
date never moves before its start). `StoppedByAResponse`: whichever of several ticks stops
the clock, from rows read at whatever time and whatever other comment is about to write,
it writes the time of a response; only a merge ends it at another.

`DueDatesAgree`, for any number of tickers and restarts, has one strengthening: `DueCopied`, by
which whoever has moved the due date and not yet copied it holds the copy that makes the
two agree. `Ordered` keeps a row's due date behind its start, in the row and in whatever was
read of it.

`AnnouncedOnce` is about one process that escalates, as the API's poller is the only one, beside
any number of workers. `EscalatorKeeps` follows what it knows: the levels in its page are
those stored, and nobody else is about to write one; what was announced of a clock is at
most the level that is stored or about to be (`Kept`), and is still reached whatever holds
came since (`Reached`, `Ahead`), because for p <= 100 a hold keeps `100 * used >= p * allowed`.
So the highest threshold reached never falls below the stored level. The three exceptions of
the property are the steps at which this argument fails.

`BreachesAreDue` has one tick at a time: `SerialTicks` says that what a tick remembers of a row is
what the row says (`Current`), and that the write it owes is about a clock that runs and was
announced (`Owed`). Restarts are allowed.

*Login* (`HandlerProofs`). All theorems hold however handlers overlap and wherever they stop.
`LoginTypeCorrect`: the counter of failures stays below the limit. `AccountLocksInTime`: the
failures in a row are at most the counter and what was lost from it (`CountsAgree`), so that
with `MaxFailed` more than those the account is locked. `SecondFactorIsUsable`: a handler
about to enable the factor holds the secret it has checked a code of, and one that replaces
or drops a secret found the factor off (`SecretsAgree`); where the row has changed since, the
write is a `crossed` one. `NewPasswordEndsSessions` is inductive as it stands: every change of
the password puts its handler at "revoke", and a session that is opened later with what was
read before is `late`.

*Ticket tree* (`HandlerProofs`). `TreeTypeCorrect` for any overlap. `OnlyMergesCloseCycles`, for
one linker: a walk up the parents that has come to its end has seen everything above the new
parent, and the ticket is not among it (`WalkIsSound`, `WriteIsSound`); a merge whose children
are still current (`KidsAreCurrent`) closes a cycle only when its target is below one of them.

*Presence* (`HandlerProofs`). `PresenceTypeCorrect`, for any viewers and overlapping calls: a
user whose key lives is in the index (`StoresFit`; key and index are written, and cleaned,
in one pipeline, and the index outlives the last key), and nobody is shown to himself.

*Incidents* (`HandlerProofs`). `CommanderKeepsTheRole`: the strengthening is that the
role row comes first (`RoleComesFirst`: a handler that is about to write the commander's
column has written the role, and nothing removes a role). `NumbersAreGivenOnce`: numbers in
rows and in the hands of handlers are at most the sequence (`RowsAreWhole`, `IncidentsShape`), and a
draw goes beyond all of them. `IncidentsTypeCorrect` is part of the same invariant.

*Digest* (`PollerProofs`). `TheMarkSkipsNothing`: `LetterCovers` says that while a user is
being mailed, what is newer than the watermark is in the letter, was read, or arrived
since the tick began; `OneLetter` that a letter is for one user. Moving the watermark to
the time the tick began then passes over nothing but what the letter had, for any
settings, clock, refused letters, restarts and slow ticks. `DigestTypeCorrect`: what a tick
will mail, and what it leaves for the next letter, is newer than the watermark.

*Inbound mail* (`PollerProofs`). `FilingEndsWithTheRow`, for one courier
(`OneCourier`): `RowComesLast` says that a mail on its way to being filed has no row. It is
false for two couriers, which is the shape of the race between poller and webhook.
`MailTypeCorrect` holds of any number: tickets are only opened, so what one courier holds
stays right while another one files (`MailTaskGrows`).

*Export schedules* (`PollerProofs`). `ExportsAreMailedOnce`: a schedule that the runner has
listed was not mailed today beyond what hands and restarts account for, and one that was
mailed beyond that is about to be marked or was marked today (`MailedOnce`). The number of
mails under way is a cardinality, so the requests by hand are assumed to be finitely many;
and a run must be over before the next poll (no `"slow"`), without which it is false.
`SchedulesTypeCorrect` needs neither.

*Webhooks* (`PollerProofs`). `HooksTypeCorrect` and `LogsAreBounded`: every row above the limit
has a delivery that has still to trim the log, or that was stopped before it could. The step
that matters is the deletion: what a delivery keeps are the newest rows of the log as it was,
rows that came since belong to deliveries that have not trimmed yet, and all others are
deleted, so the log is no longer than the limit and those. The proof counts finite sets;
that a log that is not empty has a newest row is `GreatestElement`.

*Routing* (`HandlerProofs`). `TheLastRuleDecides`, when nothing edits the row under the
evaluation (`Undisturbed`): the row is what the copy says (`CopyAgrees`), and the crew is
that of the last rule that matched among those already evaluated (`UpTo`).
`RoutingTypeCorrect` holds whatever overlaps: rows that were made stay made, so a creation
that applies rules has its row (`Made`).

*Business hours* (`HandlerProofs`). `DueAfterOpenMinutes`: the minutes that the walk
has counted (`Seen`: those before the cursor, and on its day those of the windows it is
through with) and the minutes that remain add up to what was asked for (`SumFits`). A day
off adds none (`DayOffIsEmpty`), a window adds the rest of it, which was not counted before
because windows share no minute (`WindowIsPassed`), and the last one adds what is missing
(`WindowIsFilled`, which needs that windows are taken in order). It is a proof about
cardinalities of sets of minutes for any calendar, and for any length of the day, the week
and the walk. `HoursTypeCorrect` adds that the walk never has more left than it was asked for.

*Routes* (`RouteProofs`). `EveryCallIsAnswered`: no function of the client calls in vain. A
route is found by its verb, the number of segments of its path and the segments that are
not parameters, the first controller and in it the first route that fits. So the module
goes from the tables to three kinds of lemmas: which controllers can have a route for a path
(`Base`: the first segment rules out all but one or two), which route of that controller is
the first to fit (where the order of `tickets/board` and `tickets/x` matters), and from both,
for each function, `Asks(call, need)`: there is a route, and its decorators and checks demand
`need`. The lemmas about pages and buttons use `Asks` and none of the tables of the controllers.

*Portal* (`PortalProofs`). `PagesOpen` and `ButtonsAllowed`, for all roles, all sets of extra
permissions, all first accounts, and any number of changes of the access. A user is known by
what the account has (`U`), what the page holds of it (`H`) and what the API sees (`C`):
`Visitor` says how they differ, by the tie to a ticket and by the mark of a user without
permissions. For each page one lemma says that whoever meets its gate is served every load
that a failure of would show, if he respects `PresumedByMenus`, and for each button that whoever
sees it, and has what `AsksMore` says of it, is served what it sends; each from the `Asks` of
its calls. `RolesGrant` is where the roles of the seed are looked at.

The invariant of the tab carries that through every step. The two properties are not inductive:
a page that is half loaded has no refusal yet, and needs to know that its visitor met the
gate; a button that was pressed, that its visitor was offered it. `PortalInv` is
`PortalTypeOK` with
- `PhaseOK`: a button is at work only on a page that has it, and a page that waits for an
  answer to a button has shown no refusal;
- `HeldOK`: what the page holds is the row until somebody changes it, and a page that is
  past its gate was met by what it holds;
- `TicketOK`: the page of a ticket and the board, once their first load is through, have
  tickets that the user sees. Without it an assignee's buttons cannot be justified, because
  the tie to the ticket comes from the row and not from the account;
- `MenuOK`: while a menu's promise stands, the session lives, the access is fresh and meets
  what the menu asks of it; and the page is the promised one without a refusal;
- `ButtonOK`: while a button's promise stands, the page is its page, the access is fresh, the
  user meets the offer and, after the form that creates a ticket, is its requester.

`TabInvariant` is this invariant, proved action by action; `PortalTypeCorrect`, `PagesOpen` and
`ButtonsAllowed` follow from it. Attempts at the proof corrected the model in three places, about
which TLC had nothing to say: an access that is changed and changed back within one visit was
taken for unchanged (now `fresh`); the board chose its ticket when the menu was followed, by what
the page held then, and not when the service answered with the tickets it lists (`TieAfter`);
and the suggestions of the home page were a `CASE` with overlapping guards, whose value TLA+
leaves open, and are now a chain of conditions in the order of the code
(`WorkspaceNextActions`).

*The composition* (`ServicesProofs`). `ComponentsKeepTheirSpecs`: every behaviour of
`ServicesSpec` is one of each of its components, because a step of one leaves the variables of
the others alone. All theorems about a component are thus about the services side by side, those
that `services_safe` checks included. `ServicesTypeCorrect` puts the type theorems of all
modules together; the assumption that the deliveries under way are finitely many is the one of
the webhooks. Fairness of the portal is left out of the first theorem: `ServicesSpec` has none.

*What stays with TLC.* Liveness (`SilenceCloses`, `UnreadIsMailed`, `MailIsFiled`, `PeersMeet`,
`ExportsRecur`, `RedirectsEnd`, `ResponseIsNoticed`): fairness speaks of ENABLED, which is out of
the prover's reach. No invariant and no action property of a passing run is without a theorem.
The violated properties are refuted, not proved. Theorems of the
library that take an operator as a parameter, among them induction over the naturals,
cannot be used; where a proof needs induction it takes a least counterexample instead
(`LeastElement`, from the well-foundedness of the order on the naturals).

## 5. What is not modelled, and the plan

`PROJECT.json` "components" lists every part and its status. Not modelled:

- Of the business hours: time zones with changing clocks, hours of several zones, and the
  seconds of the start, which the code keeps on the wall and drops in a window. The clocks
  of `SlaClock` count every hour as open.
- Audit trail, reports, assets, knowledge base, service catalog: rows that are written and
  read, with no later step of another actor that depends on them. Their routes, what they
  demand, and the pages that use them are in `ApiRoutes`, `Pages` and `WorkPages`.
- Attachments, branding, email transport, AI assistance: files, SMTP and model calls.
- In the portal: rendering, typed values, restricted tickets, watchers, and the order of
  answers to requests a page makes at the same time.

Hazards without a property: a restart between a ticket in `pending_approval` and its first
approval row leaves it without anybody to decide (`tickets.service.ts:423`); a challenge that
two requests read at the same time is consumed twice (`auth-challenge.service.ts:57`). In both
the code has no guard that a property could show right; the models have the interleaving.

What comes next:

1. `addBusinessMinutes` across a change of the clock, with `zonedLocalToUtc` as it corrects
   itself once.
2. Approvals and breaches under overlap, restated by what was read as the ticket rows are.
3. `TicketTree` with several linkers: which additional check in `merge` and which condition
   in the write make `Forest` an invariant.
4. Poller and webhook together on one mailbox, with the unique constraint of
   `email_messages` as the only arbiter.

Observations that no property states: a resolution clock that has stopped is not started
again when the ticket is reopened; a ticket that is cancelled keeps open rows that go on
to breach; a ticket resolved without a staff comment keeps its response clock running; an
escalation changes the team without incrementing the version; a change of the password
leaves challenges that were issued under the old one usable until they expire.
